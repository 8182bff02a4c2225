---------------------------- MODULE RelayRecovery ----------------------------
(***************************************************************************)
(* What a relay does when its connections to Redis break and come back:    *)
(* RedisRelayRoomCoordinator of relay-redis-coordinator.ts and syncRoom of *)
(* relay-redis-store.ts, with the joins and leaves of server.ts that wait  *)
(* for Redis meanwhile.                                                    *)
(*                                                                         *)
(* One room.  A command that was not answered when the command connection  *)
(* broke is sent again by ioredis when it is back, or fails before that.   *)
(* The subscriptions of the room outlive the connection (autoResubscribe): *)
(* the subscribing connection matters only to isReady.                     *)
(***************************************************************************)
EXTENDS RelayRedis, SequencesExt

CONSTANTS
    MaxPeers,       \* the capacity that joins ask for, NoCapacity without
    MaxFaults,      \* bound: broken connections, restarts of Redis, stopped relays
    MaxJoins        \* bound: joins

ASSUME BoundsAreNumbers == {MaxPeers, MaxFaults, MaxJoins} \subseteq Nat

VARIABLES
    redis,          \* the room in Redis
    command,        \* whether the connection for commands is ready
    subscriber,     \* whether the subscribing connection is ready
    requests,       \* commands that Redis has not run, in order
    answers,        \* answers on their way, in order
    local,          \* localRooms: the peers of the room on each instance
    open,           \* readyForJoins
    emptied,        \* whether the room is in pendingEmptyRoomSyncs
    unsaid,         \* pendingPeerLeftMessages
    recovery,       \* the run of resubscribeAndSync in recoveryPromise
    running,        \* whether the relay has started and not been stopped
    client,         \* the socket of each peer id
    leaving,        \* handleLeave of each instance and peer
    faults, joins,
    owed,           \* peers that left and were not said to have left (history)
    unheard,        \* those whose PUBLISH failed or whose relay was stopped (history)
    raced           \* a change of the room met an outage or a recovery (history)

vars == <<redis, command, subscriber, requests, answers, local, open, emptied, unsaid,
          recovery, running, client, leaving, faults, joins, owed, unheard, raced>>
wire == <<redis, command, subscriber, requests, answers>>
pending == <<emptied, unsaid>>
counts == <<faults, joins>>
history == <<owed, unheard, raced>>

Idle == [pc |-> "idle", next |-> "idle", peers |-> {}, emptied |-> FALSE,
         batch |-> <<>>, said |-> 0]
Out == [pc |-> "out", at |-> NoInstance]

Init ==
    /\ redis = EmptyRoom
    /\ command = [i \in Instances |-> TRUE]
    /\ subscriber = [i \in Instances |-> TRUE]
    /\ requests = [i \in Instances |-> <<>>]
    /\ answers = [i \in Instances |-> <<>>]
    /\ local = [i \in Instances |-> {}]
    /\ open = [i \in Instances |-> TRUE]
    /\ emptied = [i \in Instances |-> FALSE]
    /\ unsaid = [i \in Instances |-> <<>>]
    /\ recovery = [i \in Instances |-> Idle]
    /\ running = [i \in Instances |-> TRUE]
    /\ client = [p \in Peers |-> Out]
    /\ leaving = [i \in Instances |-> [p \in Peers |-> "no"]]
    /\ faults = 0 /\ joins = 0
    /\ owed = [i \in Instances |-> {}]
    /\ unheard = [i \in Instances |-> {}]
    /\ raced = FALSE

Ready(i) == command[i] /\ subscriber[i]
IsReady(i) == Ready(i) /\ open[i]

-----------------------------------------------------------------------------
\* The wire.  A command is a tuple of its name and, if it has one, its peer.

Ran(i, c) ==
    CASE c[1] = "join"  -> JoinRoom(redis, c[2], i, MaxPeers)
      [] c[1] = "leave" -> LeaveRoom(redis, c[2])
      [] c[1] = "hset"  -> [redis EXCEPT !.peers[c[2]] = i]
      [] c[1] = "hdel"  -> [redis EXCEPT !.peers[c[2]] = NoInstance]
      [] c[1] = "set"   -> [redis EXCEPT !.capacity = MaxPeers]
      [] OTHER          -> redis

\* The answer is the room as the command found it.
Execute(i) ==
    /\ command[i] /\ requests[i] # <<>>
    /\ LET c == Head(requests[i])
       IN  /\ redis' = Ran(i, c)
           /\ answers' = [answers EXCEPT ![i] = Append(@, [to |-> c, room |-> redis])]
           /\ owed' = IF c[1] \in {"publish", "announce"}
                      THEN [owed EXCEPT ![i] = @ \ {c[2]}] ELSE owed
    /\ requests' = [requests EXCEPT ![i] = Tail(@)]
    /\ UNCHANGED <<command, subscriber, local, open, pending, recovery, client, leaving,
                   counts, running, unheard, raced>>

Request(i, commands) == requests' = [requests EXCEPT ![i] = @ \o commands]

\* The answer to c is the next one to arrive.
Answered(i, c) == answers[i] # <<>> /\ Head(answers[i]).to = c
Answer(i) == Head(answers[i]).room
Take(i) == answers' = [answers EXCEPT ![i] = Tail(@)]

Unanswered(i) ==
    [k \in DOMAIN answers[i] |-> answers[i][k].to] \o requests[i]

IsWrite(c) == c[1] \in {"join", "leave", "hset", "hdel"}
WriteInFlight(i) == \E k \in DOMAIN Unanswered(i) : IsWrite(Unanswered(i)[k])

\* updateReadyState with a connection of each of these instances gone.
Lost(broken) ==
    /\ open' = [i \in Instances |-> open[i] /\ i \notin broken]
    /\ requests' = [i \in Instances |->
           IF i \in broken /\ ~command'[i] THEN Unanswered(i) ELSE requests[i]]
    /\ answers' = [i \in Instances |->
           IF i \in broken /\ ~command'[i] THEN <<>> ELSE answers[i]]

Fault == faults < MaxFaults /\ faults' = faults + 1

Break(i) ==
    /\ Fault
    /\ \/ /\ command[i]
          /\ command' = [command EXCEPT ![i] = FALSE]
          /\ UNCHANGED subscriber
       \/ /\ subscriber[i]
          /\ subscriber' = [subscriber EXCEPT ![i] = FALSE]
          /\ UNCHANGED command
    /\ Lost({i})
    /\ raced' = (raced \/ (~command'[i] /\ WriteInFlight(i)))
    /\ UNCHANGED <<redis, local, pending, recovery, client, leaving, running, joins,
                   owed, unheard>>

Restart ==
    /\ Fault
    /\ redis' = EmptyRoom
    /\ command' = [i \in Instances |-> FALSE]
    /\ subscriber' = [i \in Instances |-> FALSE]
    /\ Lost(Instances)
    /\ raced' = (raced \/ \E i \in Instances : recovery[i] # Idle \/ WriteInFlight(i))
    /\ UNCHANGED <<local, pending, recovery, client, leaving, running, joins,
                   owed, unheard>>

\* A slip: notices that came since the copy are dropped unsaid.
RecoveredClearing(i, said) ==
    /\ recovery' = [recovery EXCEPT ![i] = Idle]
    /\ emptied' = [emptied EXCEPT ![i] = @ /\ ~recovery[i].emptied]
    /\ unsaid' = [unsaid EXCEPT ![i] = <<>>]
    /\ open' = [open EXCEPT ![i] = TRUE]

\* This many notices were said, and joins are taken again.
Recovered(i, said) ==
    /\ recovery' = [recovery EXCEPT ![i] = Idle]
    /\ emptied' = [emptied EXCEPT ![i] = @ /\ ~recovery[i].emptied]
    /\ unsaid' = [unsaid EXCEPT ![i] = SubSeq(@, said + 1, Len(@))]
    /\ open' = [open EXCEPT ![i] = TRUE]

RecoveryFails(i) ==
    recovery' = [recovery EXCEPT ![i] = Idle] /\ UNCHANGED <<pending, open>>

\* The pipeline of syncRoom is the last that the recovery has to wait for.
WritesLast(i) ==
    /\ recovery[i].pc = "write" /\ unsaid[i] = <<>>
    /\ recovery[i].next = "notices" \/ ~emptied[i]

\* ioredis gives up what was not answered, and every handler that waits for it fails.
\* A PUBLISH is not tried again and its notice kept nowhere.  But a pipeline never
\* fails, and what it could not write goes unnoticed.
GiveUp(i) ==
    /\ ~command[i] /\ requests[i] # <<>>
    /\ requests' = [requests EXCEPT ![i] = <<>>]
    /\ IF WritesLast(i) THEN Recovered(i, 0) ELSE RecoveryFails(i)
    /\ client' = [p \in Peers |->
           IF client[p] = [pc |-> "joining", at |-> i] THEN Out ELSE client[p]]
    /\ leaving' = [leaving EXCEPT ![i] = [p \in Peers |->
           CASE @[p] = "leave"   -> "left"
             [] @[p] = "publish" -> "no"
             [] OTHER            -> @[p]]]
    /\ unheard' = [unheard EXCEPT ![i] = @ \cup {p \in Peers : leaving[i][p] = "publish"}]
    /\ UNCHANGED <<redis, command, subscriber, answers, local, counts, running, owed, raced>>

\* A slip: only the return of the connection for commands starts a recovery.
ReconnectByCommand(i) ==
    /\ running[i]
    /\ \/ ~command[i] /\ command' = [command EXCEPT ![i] = TRUE] /\ UNCHANGED subscriber
       \/ ~subscriber[i] /\ subscriber' = [subscriber EXCEPT ![i] = TRUE] /\ UNCHANGED command
    /\ IF command'[i] /\ subscriber[i] /\ recovery[i] = Idle
       THEN /\ recovery' = [recovery EXCEPT ![i].pc = "rooms"]
            /\ open' = [open EXCEPT ![i] = FALSE]
       ELSE UNCHANGED <<recovery, open>>
    /\ UNCHANGED <<redis, requests, answers, local, pending, client, leaving, counts, running, history>>

\* updateReadyState, and recoverFromReconnect when both are ready.
Reconnect(i) ==
    /\ running[i]
    /\ \/ /\ ~command[i]
          /\ command' = [command EXCEPT ![i] = TRUE]
          /\ UNCHANGED subscriber
       \/ /\ ~subscriber[i]
          /\ subscriber' = [subscriber EXCEPT ![i] = TRUE]
          /\ UNCHANGED command
    /\ IF command'[i] /\ subscriber'[i] /\ recovery[i] = Idle
       THEN /\ recovery' = [recovery EXCEPT ![i].pc = "rooms"]
            /\ open' = [open EXCEPT ![i] = FALSE]
       ELSE UNCHANGED <<recovery, open>>
    /\ UNCHANGED <<redis, requests, answers, local, pending, client, leaving, counts, running, history>>

-----------------------------------------------------------------------------
\* resubscribeAndSync.

\* A slip: syncRoom is given the peers of the room as an empty room's.
SyncOfNone(i, peers, next) ==
    /\ recovery' = [recovery EXCEPT ![i] = [@ EXCEPT !.pc = "read", !.peers = {},
           !.next = next, !.emptied = (next = "notices")]]
    /\ Request(i, << <<"hgetall">> >>)

\* syncRoom begins.
Sync(i, peers, next) ==
    /\ recovery' = [recovery EXCEPT ![i] = [@ EXCEPT !.pc = "read", !.peers = peers,
           !.next = next, !.emptied = (next = "notices")]]
    /\ Request(i, << <<"hgetall">> >>)

\* The room is in localRooms, or there is nothing to sync.
SyncRooms(i) ==
    /\ recovery[i].pc = "rooms"
    /\ IF local[i] # {}
       THEN Sync(i, local[i], "empties")
       ELSE recovery' = [recovery EXCEPT ![i].pc = "empties"] /\ UNCHANGED requests
    /\ UNCHANGED <<answers, unsaid, emptied, open>>

SyncEmpties(i) ==
    /\ recovery[i].pc = "empties"
    /\ IF emptied[i]
       THEN Sync(i, {}, "notices")
       ELSE recovery' = [recovery EXCEPT ![i].pc = "notices"] /\ UNCHANGED requests
    /\ UNCHANGED <<answers, unsaid, emptied, open>>

\* A slip: whatever is not here is taken for stale.
StaleOfAll(i, room) == {p \in Members(room) : p \notin recovery[i].peers}

Stale(i, room) == {p \in Peers : room.peers[p] = i /\ p \notin recovery[i].peers}

\* hgetall is answered: the pipeline is put together.
ReadRoom(i) ==
    /\ recovery[i].pc = "read" /\ Answered(i, <<"hgetall">>)
    /\ LET batch == SetToSeq({<<"hdel", p>> : p \in Stale(i, Answer(i))})
                    \o SetToSeq({<<"hset", p>> : p \in recovery[i].peers})
       IN  IF recovery[i].peers # {} /\ MaxPeers # NoCapacity
           THEN /\ recovery' =
                       [recovery EXCEPT ![i] = [@ EXCEPT !.pc = "capacity", !.batch = batch]]
                /\ Request(i, << <<"get">> >>)
           ELSE /\ recovery' = [recovery EXCEPT ![i] = [@ EXCEPT !.batch = batch,
                       !.pc = IF batch = <<>> THEN recovery[i].next ELSE "write"]]
                /\ Request(i, batch)
    /\ Take(i)
    /\ UNCHANGED <<unsaid, emptied, open>>

ReadCapacity(i) ==
    /\ recovery[i].pc = "capacity" /\ Answered(i, <<"get">>)
    /\ LET batch == recovery[i].batch
                    \o IF Answer(i).capacity = NoCapacity THEN << <<"set">> >> ELSE <<>>
       IN  recovery' =
               [recovery EXCEPT ![i] = [@ EXCEPT !.pc = "write", !.batch = batch]]
           /\ Request(i, batch)
    /\ Take(i)
    /\ UNCHANGED <<unsaid, emptied, open>>

\* Every command of the pipeline is answered.
Written(i) ==
    LET batch == recovery[i].batch
    IN  /\ recovery[i].pc = "write"
        /\ Len(answers[i]) >= Len(batch)
        /\ \A k \in DOMAIN batch : answers[i][k].to = batch[k]
        /\ recovery' =
               [recovery EXCEPT ![i] = [@ EXCEPT !.pc = recovery[i].next, !.batch = <<>>]]
        /\ answers' = [answers EXCEPT ![i] = SubSeq(@, Len(batch) + 1, Len(@))]
        /\ UNCHANGED <<requests, unsaid, emptied, open>>

Say(i, notices, said) ==
    /\ recovery' =
           [recovery EXCEPT ![i] = [@ EXCEPT !.pc = "say", !.batch = notices, !.said = said]]
    /\ Request(i, << <<"announce", notices[said + 1]>> >>)
    /\ UNCHANGED <<pending, open>>

\* What is to be said is copied, and then said one after the other.
ReplayNotices(i) ==
    /\ recovery[i].pc = "notices"
    /\ IF unsaid[i] = <<>> THEN Recovered(i, 0) /\ UNCHANGED requests ELSE Say(i, unsaid[i], 0)
    /\ UNCHANGED answers

Said(i) ==
    LET notices == recovery[i].batch
        said == recovery[i].said + 1
    IN  /\ recovery[i].pc = "say" /\ Answered(i, <<"announce", notices[said]>>)
        /\ IF said = Len(notices) THEN Recovered(i, said) /\ UNCHANGED requests
           ELSE Say(i, notices, said)
        /\ Take(i)

RecoveryStep(i) ==
    /\ command[i]
    /\ \/ SyncRooms(i) \/ SyncEmpties(i)
       \/ ReadRoom(i) \/ ReadCapacity(i) \/ Written(i)
       \/ ReplayNotices(i) \/ Said(i)
    /\ UNCHANGED <<redis, command, subscriber, local, client, leaving, counts, running, history>>

-----------------------------------------------------------------------------
\* Joins and leaves.

\* A peer id is not used by two sockets at once.
Join(p, i) ==
    /\ client[p] = Out /\ joins < MaxJoins
    /\ IsReady(i)
    /\ joins' = joins + 1
    /\ client' = [client EXCEPT ![p] = [pc |-> "joining", at |-> i]]
    /\ Request(i, << <<"join", p>> >>)
    /\ UNCHANGED <<redis, command, subscriber, answers, local, open, pending, recovery,
                   leaving, running, faults, history>>

Joined(p, i) ==
    /\ client[p] = [pc |-> "joining", at |-> i] /\ Answered(i, <<"join", p>>)
    /\ IF JoinVerdict(Answer(i), p, MaxPeers) = "joined"
       THEN /\ local' = [local EXCEPT ![i] = @ \cup {p}]
            /\ client' = [client EXCEPT ![p].pc = "in"]
       ELSE client' = [client EXCEPT ![p] = Out] /\ UNCHANGED local
    /\ raced' = (raced \/ ~IsReady(i))
    /\ Take(i)
    /\ UNCHANGED <<redis, command, subscriber, requests, open, pending, recovery, leaving,
                   counts, running, owed, unheard>>

\* A slip: during an outage the peer stays in localRooms.
RemoveLocalPeerIfReady(p, i) ==
    local' = IF IsReady(i) THEN [local EXCEPT ![i] = @ \ {p}] ELSE local

RemoveLocalPeer(p, i) == local' = [local EXCEPT ![i] = @ \ {p}]

\* A slip: that the room is empty now is not noted.
NoteNothing(i) == UNCHANGED emptied

NoteIfEmpty(i) == emptied' = [emptied EXCEPT ![i] = @ \/ local'[i] = {}]

\* handleLeave, up to its first await.
Leave(p, i) ==
    /\ client[p] = [pc |-> "in", at |-> i] /\ leaving[i][p] = "no"
    /\ client' = [client EXCEPT ![p] = Out]
    /\ RemoveLocalPeer(p, i)
    /\ owed' = [owed EXCEPT ![i] = @ \cup {p}]
    /\ unheard' = [unheard EXCEPT ![i] = @ \ {p}]
    /\ IF IsReady(i)
       THEN /\ emptied' = [emptied EXCEPT ![i] = FALSE]
            /\ leaving' = [leaving EXCEPT ![i][p] = "leave"]
            /\ Request(i, << <<"leave", p>> >>)
       ELSE /\ NoteIfEmpty(i)
            /\ leaving' = [leaving EXCEPT ![i][p] = "left"]
            /\ UNCHANGED requests
    /\ raced' = (raced \/ recovery[i].pc \notin {"idle", "rooms"})
    /\ UNCHANGED <<redis, command, subscriber, answers, open, unsaid, recovery, counts, running>>

Left(p, i) ==
    /\ leaving[i][p] = "leave" /\ Answered(i, <<"leave", p>>)
    /\ leaving' = [leaving EXCEPT ![i][p] = "left"]
    /\ Take(i)
    /\ UNCHANGED <<redis, command, subscriber, requests, local, open, pending, recovery,
                   client, counts, running, history>>

\* The others are told at once, or when the recovery is over.
Publish(p, i) ==
    /\ leaving[i][p] = "left"
    /\ IF IsReady(i)
       THEN /\ leaving' = [leaving EXCEPT ![i][p] = "publish"]
            /\ Request(i, << <<"publish", p>> >>)
            /\ UNCHANGED unsaid
       ELSE /\ leaving' = [leaving EXCEPT ![i][p] = "no"]
            /\ unsaid' = [unsaid EXCEPT ![i] = Append(@, p)]
            /\ UNCHANGED requests
    /\ UNCHANGED <<redis, command, subscriber, answers, local, open, emptied, recovery,
                   client, counts, running, history>>

Published(p, i) ==
    /\ leaving[i][p] = "publish" /\ Answered(i, <<"publish", p>>)
    /\ leaving' = [leaving EXCEPT ![i][p] = "no"]
    /\ Take(i)
    /\ UNCHANGED <<redis, command, subscriber, requests, local, open, pending, recovery,
                   client, counts, running, history>>

\* stop of the coordinator, once every socket is closed.  Handlers that still wait
\* fail, and what they or an outage have not told Redis it will not learn.
Stop(i) ==
    /\ running[i] /\ Fault
    /\ \A p \in Peers : client[p] # [pc |-> "in", at |-> i]
    /\ running' = [running EXCEPT ![i] = FALSE]
    /\ command' = [command EXCEPT ![i] = FALSE]
    /\ subscriber' = [subscriber EXCEPT ![i] = FALSE]
    /\ requests' = [requests EXCEPT ![i] = <<>>]
    /\ answers' = [answers EXCEPT ![i] = <<>>]
    /\ open' = [open EXCEPT ![i] = FALSE]
    /\ emptied' = [emptied EXCEPT ![i] = FALSE]
    /\ unsaid' = [unsaid EXCEPT ![i] = <<>>]
    /\ recovery' = [recovery EXCEPT ![i] = Idle]
    /\ client' = [p \in Peers |->
           IF client[p] = [pc |-> "joining", at |-> i] THEN Out ELSE client[p]]
    /\ leaving' = [leaving EXCEPT ![i] = [p \in Peers |-> "no"]]
    /\ unheard' = [unheard EXCEPT ![i] = @ \cup owed[i]]
    /\ raced' = (raced \/ ~IsReady(i) \/ WriteInFlight(i))
    /\ UNCHANGED <<redis, local, joins, owed>>

\* The new connections are ready, and the recovery finds nothing to restore.
Start(i) ==
    /\ ~running[i]
    /\ running' = [running EXCEPT ![i] = TRUE]
    /\ command' = [command EXCEPT ![i] = TRUE]
    /\ subscriber' = [subscriber EXCEPT ![i] = TRUE]
    /\ recovery' = [recovery EXCEPT ![i].pc = "rooms"]
    /\ UNCHANGED <<redis, requests, answers, local, open, pending, client, leaving,
                   counts, history>>

HandlerStep(p, i) == Joined(p, i) \/ Left(p, i) \/ Publish(p, i) \/ Published(p, i)

Next ==
    \/ Restart
    \/ \E i \in Instances :
           \/ Execute(i) \/ Break(i) \/ GiveUp(i) \/ Reconnect(i) \/ RecoveryStep(i)
           \/ Stop(i) \/ Start(i)
           \/ \E p \in Peers : Join(p, i) \/ Leave(p, i) \/ HandlerStep(p, i)

Spec == Init /\ [][Next]_vars

-----------------------------------------------------------------------------
Commands ==
    ({"join", "leave", "publish", "announce", "hdel", "hset"} \X Peers)
        \cup {<<"hgetall">>, <<"get">>, <<"set">>}

TypeOK ==
    /\ redis \in RedisRoom
    /\ {command, subscriber, open, emptied, running} \subseteq [Instances -> BOOLEAN]
    /\ requests \in [Instances -> Seq(Commands)]
    /\ answers \in [Instances -> Seq([to : Commands, room : RedisRoom])]
    /\ {local, owed, unheard} \subseteq [Instances -> SUBSET Peers]
    /\ unsaid \in [Instances -> Seq(Peers)]
    /\ client \in [Peers -> [pc : {"out", "joining", "in"}, at : Instances \cup {NoInstance}]]
    /\ leaving \in [Instances -> [Peers -> {"no", "leave", "left", "publish"}]]
    /\ \A i \in Instances : local[i] = {p \in Peers : client[p] = [pc |-> "in", at |-> i]}

\* The instance has recovered or was stopped, and waits for nothing.
AtRest(i) ==
    /\ IsReady(i) \/ ~running[i]
    /\ recovery[i] = Idle
    /\ requests[i] = <<>> /\ answers[i] = <<>>
    /\ \A p \in Peers : leaving[i][p] = "no"

\* Unless a change of the room met the outage, Redis has every peer of the
\* instance after the recovery, also when it had lost them all, ...
Restored ==
    ~raced => \A i \in Instances :
        AtRest(i) => \A p \in local[i] : redis.peers[p] = i

\* ... and none of those that left during the outage.
NoGhosts ==
    ~raced => \A i \in Instances :
        AtRest(i) => \A p \in Peers : redis.peers[p] = i => p \in local[i]

\* The departures that the others do not know of and can still be told.
Due(i) == owed[i] \ unheard[i]

\* Once a peer has left, its departure is with the handler of the leave or among the
\* pending notices until Redis has published it, whatever recoveries fail or are
\* resent half way through saying what they copied, and whatever notices come
\* meanwhile.  It exempts the two cases in which the code loses a notice (unheard):
\* its own PUBLISH was not answered when ioredis gave up, which is only logged, or
\* the relay was stopped.
NoticesKept ==
    \A i \in Instances : \A p \in Due(i) :
        leaving[i][p] # "no" \/ \E k \in DOMAIN unsaid[i] : unsaid[i][k] = p

\* A recovery writes no entry of a peer that another instance has.
OthersKept ==
    ~raced => \A i \in Instances : requests[i] # <<>> =>
        LET c == Head(requests[i])
        IN  c[1] \in {"hset", "hdel"} => \A j \in Instances \ {i} : c[2] \notin local[j]

\* An instance that refuses joins is recovering: there will be an end to it.
Recovering == \A i \in Instances : Ready(i) /\ ~open[i] => recovery[i] # Idle
=============================================================================
