# Verification of Roomful

Roomful is a TypeScript monorepo for real-time collaborative rooms: a browser
library (`packages/core`) whose engines share state, presence, locks, comments
and so on between the peers of a room, and a relay (`packages/relay`) that puts
peers in rooms and forwards their frames, on one process, on several processes
that share Redis, or at the edge.

This directory holds TLA+ specifications of its protocols, TLC configurations
that check them on small instances, and TLAPS proofs for every instance.
Everything is translated from the source; paths below are relative to the
repository.

    tlc -workers 2 -config RelayCluster.cfg MCRelayCluster    # any of the .cfg files
    tlapm RelayCluster_proofs.tla

## Inventory

| Component | State | Operations | What is hard | What makes it correct |
|---|---|---|---|---|
| Relay server, `relay/src/server.ts` | contexts, rooms, polling sessions, sockets | join, leave, close, signal, transport, polling requests | every handler awaits Redis several times, and other handlers run in between; close may overlap join | one holder per peer id; registry, contexts and Redis agree; limits hold |
| Redis coordinator, `relay-redis-coordinator.ts` | subscription counts, local rooms, pending departures, readiness | subscribe, unsubscribe, join, leave, publish, recover | counts read before and written after an await; outages; recovery while handlers run | the store is subscribed while the room has members; recovery restores what was there |
| Redis store, `relay-redis-store.ts` | two connections, believed subscriptions, two Lua scripts | scripts, SUBSCRIBE, UNSUBSCRIBE, PUBLISH, sync | two independent first-in-first-out connections | capacity of the first occupant; empty rooms are forgotten |
| Polling sessions, `server.ts` | queue, pending poll, last-seen time | open, poll, send, close, cleanup | timers against messages; a second poll | nothing queued is lost or delivered twice |
| Edge room, `edge-room.ts`, `cloudflare.ts` | members of one room | join, leave, forward | eviction and wake-up | one holder per peer id |
| Management, `relay/src/management` | projects, keys, usage | quota checks, metering | check then act over SQL | quotas |
| Room, `core/src/room.ts`, `internal/reconnect.ts` | status, transport, reconnect attempt | connect, disconnect, transport signals, polling fallback, timers | a disconnect during an attempt; late signals of an old transport | a room its user left stays left |
| Shared state, `engines/state*.ts`, `internal/state.ts`, `internal/offline-queue.ts` | snapshot with vector clock, queue, history | set, patch, undo, reset, merge, queue, replay | concurrent writes, skewed clocks, replay against remote snapshots, a replay timer that many cancel | replicas of two peers converge; nothing queued overtakes or is forgotten; only stale writes are dropped |
| Locks, `engines/locks.ts` | claims per key, one expiry timer per key | acquire (settle, retry, time out), release, expire, the claims of others | settle window against message delay; claims that expire or are replaced while their call waits | one holder if signals are in time; holders agree once claims have been delivered; no claim nobody waits for |
| Peer registry, `internal/peer-registry.ts` | peers, removal timers | upsert, mark as lost, remove, clear | the removal timer against the return of the peer; a departure announced after it | a present peer is not removed |
| Approvals, activity, comments | replicated records | request, respond, merge | votes and expiry crossing | peers converge |
| Ephemeral engines | latest value per peer | set, clear | throttling | last value wins |
| Transports, codec, adapters, UI, Dart, CLI, cloud API | per library | | | |

The relay calls the coordinator, the coordinator the store, the store Redis;
Redis calls back with acknowledgements and pushed messages. The room calls its
transport and is called back with messages and signals; engines subscribe to
the room. A relay and a browser are each one JavaScript thread: between two
awaits a handler is never interrupted, at an await anything may run.

`PROJECT.json` lists the components with what is left out, the hazards at their
lines, and which property watches which hazard.

## Modules

| Module | What it is |
|---|---|
| `RelayRedis` | one room in Redis, and the join and leave Lua scripts as operators |
| `RelayCluster` | relay servers, their coordinators and stores, and Redis |
| `RoomRegistry` | the abstract promise: seats taken and given up once, under the first occupant's limit |
| `RelayClusterRefinement` | the mapping of the cluster to `RoomRegistry`, and the liveness property |
| `MCRelayCluster` | placement of sockets, symmetry |
| `RelayCluster_proofs` | types and what a running handler knows, the registration invariant, its converse, the capacity of a room, the subscriptions |
| `RelayClusterRefinement_proofs` | that every step of the cluster is a step of `RoomRegistry` or none |
| `RelayRecovery` | the coordinators while their connections to Redis break and come back, Redis loses its data, relays stop and start |
| `MCRelayRecovery` | its symmetry |
| `RelayRecovery_proofs` | types, that an instance which refuses joins is recovering, and what Redis has of one that has recovered |
| `RelayNotices_proofs` | that no departure is forgotten |
| `RelayPolling` | the HTTP polling sessions of one relay and the adapters that hold them |
| `MCRelayPolling` | who comes back, and its symmetry |
| `RelayPolling_proofs` | types, what a polling client hears, and how long its session lasts |
| `RoomConnection` | connect, disconnect, transport loss, polling fallback and the reconnect loop of one room |
| `MCRoomConnection` | its symmetry |
| `RoomConnection_proofs` | types, what a disconnect gives, and that a connected room is |
| `StateSnapshots` | the pure half of shared state: snapshots, their comparison, mutations, the queue, projection and replay |
| `SharedState` | rooms that mutate, queue and replay state over connections that break |
| `MCSharedState` | clocks, and what each peer's application does |
| `SharedState_proofs` | no replay is forgotten; types, folds over the queue, projection, order; in rooms of two peers, convergence and what a replay drops |
| `PeerRegistry` | the remote peers of one room and their removal timers |
| `Locks` | the lock engines of a few peers, over the presence handshake that drives their registries |
| `MCLocks` | who calls acquire, with which options |
| `Locks_proofs` | who knows of which claim, that there is one holder, and the registries at rest |

### RelayCluster

A **join request** `j` is one join message; `request[j]` is its socket, room,
peer id and maxPeers. The locals of its handler are `joinPc` and `reply`; the
leave that undoes it (a leave message or a close event of the socket whose
context it made) has `leavePc` and `emptied`. `answer[j]` is what the client was
told. One action is one stretch of a handler between two awaits:

| `handleJoinMessage` | action |
|---|---|
| context check, authorization awaited | `RefuseSecondJoin`, `ReceiveJoin` |
| authorization refused (the socket begins to close) | `AuthorizationFails` |
| `wouldExceedRoomLimit` | `RefuseNewRoom` |
| `coordinator.subscribe` with a count, or with a channel the store has | `ShareSubscription` |
| `coordinator.subscribe` through SUBSCRIBE, and its acknowledgement | `SendSubscribe`, `Subscribed` |
| join script | `RedisJoin` |
| rooms, contexts, `joined`, PUBLISH | `Install`, `RedisPublishJoined` |
| rejected: `coordinator.unsubscribe`, error answer | `GiveBackSubscription`, `RefuseJoin` |

| `removePeerFromRoom` | action |
|---|---|
| context and registries, leave script sent | `Leave`, `CloseJoined` (both `RemovePeerFromRoom`), `CloseUnjoined` |
| leave script | `RedisLeave` |
| `peer-left` | `AnnounceDeparture`, `RedisPublishLeft` |
| unsubscribe of an emptied room | `LeaveChannel`, `ChannelLeft` |

`Deliver` is `handleCoordinatorMessage` for a pushed notice. Each instance has
two connections to Redis, both first in first out: `commands` for scripts and
PUBLISH, and `subscriptionCalls` with `inbox` for SUBSCRIBE, UNSUBSCRIBE, their
acknowledgements and pushed messages. Redis executes one command at a time, a
script being one command. Redis, its connections and its acknowledgements are
not in the repository: they are modelled from how the store uses them.

Two details that look odd come straight from the code. `Subscribed` sets the
count to 1 whatever it was, because `subscribe` read it before its await. And
`emptied[j]` is `room.peers.size === 0` of the room *object* a leave took before
its awaits: a later leave of the same object empties it for the earlier one
too, and a join after the room was deleted makes a new object.

Left out of it: loss of Redis and `stop()` (`isReady()` is true throughout and
no command fails; that is `RelayRecovery`), polling sessions (`RelayPolling`),
signal and transport forwarding (they change no relay state), rate limits, error messages, and the rosters that clients build
from notices, which is why `Deliver` only takes the notice off the wire.

Definitions introduced as "slips to detect" are not part of the specification:
each is a definition of the code with a plausible bug. Putting one in the place
of the definition it stands beside must break the property `PROJECT.json` pairs it with.

### RelayRecovery

One room, several instances, no subscriptions (autoResubscribe keeps them). A
client is a peer id with one socket at a time. The wire is explicit: `requests`
are commands Redis has not run, `answers` what it has not delivered. When the
command connection breaks, both become requests again: ioredis resends what was
not answered, also what had been run. `GiveUp` is its other possibility: what
was not answered fails. A pipeline is the exception, it always resolves, so a
recovery may end without having written (`WritesLast`).

| code | action |
|---|---|
| `updateReadyState`, the ready handler of `start` | `Break`, `Restart` (both `Lost`), `Reconnect` |
| `recoverFromReconnect` | `Reconnect`, `Recovered`, `RecoveryFails` |
| `resubscribeAndSync` | `SyncRooms`, `SyncEmpties`, `ReplayNotices`, `Said`, `Recovered` |
| `syncRoom`, at each await | `Sync`, `ReadRoom`, `ReadCapacity`, `Written` |
| `join`, and its answer | `Join`, `Joined` |
| `leave`, its answer, `peer-left` | `Leave`, `Left`, `Publish`, `Published` |
| `stop`, `start` | `Stop`, `Start` |

`recovery[i]` holds the locals of `resubscribeAndSync`: what was copied and how
far it got. `owed`, `unheard` and `raced` are history: the departures not yet
published, those whose notice the code has lost, and
whether a change of the room ever met an outage or a recovery, that is, a
write was on a connection that broke, a join was answered when the instance was
no longer ready, a leave came after the recovery had begun to copy, Redis lost
its data during a recovery, or a relay stopped during an outage or with a script
on its way. In all of these the code may leave an entry behind or delete one
that is due (see "What the runs found"), and the properties about entries exempt
them. `NoticesKept` exempts the departures in `unheard`: `publish` keeps a notice
only if the instance is not ready when it is called
(`relay-redis-coordinator.ts:192-204`), so a `peer-left` whose PUBLISH was sent and
not answered when ioredis gave up is neither said nor kept, its failure being only
logged (`GiveUp`); and `stop` forgets what is pending (`Stop`). What it does say is
that no notice is lost in another way, above all not by a recovery that fails, is
sent again, or finds more notices than it copied. `Recovering` exempts nothing.

Left out of it: the crash of an instance. Its entries stay in Redis, nobody looks
for them, and there is nothing in the code to model.

### RelayPolling

One relay with the local coordinator, one room, and clients that all poll. An
adapter of the client is used once, so that its name stands for its session:
`client[a]` is what the adapter is at, `roster[a]` its `peerCapabilities`, and
`join`, `poll`, `delete` and `post` are its requests with what has become of
them. The relay has `session` and `seat` (`pollingSessions`, `pollingRooms`), a
`queue` and an idle time per session, and `registry`, the coordinator's peers.

| code | action |
|---|---|
| `handlePollingJoinRequest`, up to and from the await of join | `JoinArrives`, `JoinResumes` |
| `handlePollingEventsRequest`, its timer, its close handler | `PollArrives`, `PollTimesOut`, `PollCloses` |
| `queuePollingMessage` for all of a room | `Broadcast` |
| `handlePollingMessageRequest`, up to and from the await of the body | `PostArrives`, `PostRead` |
| `handlePollingDeleteRequest`, `removePollingSession` | `DeleteArrives`, `LeaveResumes` |
| `cleanupExpiredPollingSessions` | `Sweep`, `SweepRemoves` |
| `connect`, `pollLoop`, `sendSignal`, `disconnect` of the adapter | `Connect`, `Joined`, `JoinFails`, `HandleAnswer`, `PollFails`, `Send`, `PostRefused`, `Disconnect`, `Closed` |
| the network and the page (external) | `Fault` in `JoinFails`, `PollFails`, `Closed`, `PostLost`; `Vanish` |

A loss of the transport and a disconnect of the room come to the same for the
adapter, which the room disconnects either way (`room.ts:2960`, `1104`). The
coordinator's promises resume in the order of `awaiting`, except that a join may
overtake leaves: a leave's promise is one link longer. `owed` and `misled` are
history: the messages a session was meant to hear, and the peers of whom a frame
was passed on after they had left.

Left out of it: `stop()`, authorization, the room limit, capacity, WebSocket
peers in the same room, and the answer 409 to a second poll, which this client
never makes.

### RoomConnection

Four async functions of `room.ts` share the fields `currentStatus`, `transport`,
`transportUnsubscribe`, `connectionPromise` and `reconnectPromise` (here `status`,
`transport`, `unsubscribe`, `connecting` and `loop`). One action is what one of
them does between two awaits:

| code | actions |
|---|---|
| `connect`, `connectInternal`, `failInitialConnect` | `Connect`, `ConnectReturns`, `ConnectSucceeds`, `ConnectFails` |
| `openTransportAttempt` | `Open`, and `FallBack` in `ConnectFallsBack`, `LoopFallsBack` |
| `enqueueSignal`, `handleTransportDisconnectedSignal` | `LoseConnection`, `HandleLoss` (the queue of an encrypted room), `DropTransport`, `LossClosed` |
| `runReconnectLoop`, `delayWithAbort`, `disposeTransportAttempt` | `LoopOpens`, `LoopAborted`, `LoopSucceeds`, `LoopFails`, `LoopDisposes`, `LoopDisposed` |
| `disconnect` | `Disconnect`, `ReconnectSettled`, `ConnectSettled`, `Flushed`, `Closed` |
| the timer of an ephemeral room | `Expire` |

The event loop orders them. While the room emits 'offline' only its listeners
run (and may call connect or disconnect). A continuation whose promise is
settled (`MicrotaskReady`) runs before timers and adapters (`Task`), though not
before calls of the application, which may be continuations themselves.

Each adapter is `connecting` (through WebSocket), `polling` (opening as the
fallback), `open`, `lost` or `closed`; adapters are external,
modelled by how the room uses them: connect succeeds or fails, an open one may be
lost once, disconnect takes a while and does not fail. `options` is chosen
initially: automatic reconnect or not, encrypted or not, fallback to polling or
not; `sticky` is `websocketFallbackSelected`. Two variables are
history only: `lastCall`, and `crossed`, set when a disconnect overlaps the
handling of a loss or another disconnect.

Left out of it: calls from listeners of other events than 'offline', a
broadcast that throws while a connection is being activated, and the peers,
presence and queue that connecting and disconnecting also touch: those are
`Locks` and `SharedState`.

### StateSnapshots and SharedState

`StateSnapshots` has no state. A snapshot is a value, its undo history, a vector
clock, the last writer and a timestamp; the value is the set of operations that
made it, which tells apart what a merge could lose. `Newer` is
`compareStateSnapshots`; `Apply` is a set, patch, undo or reset; `AppendEntry`,
`Project` and `Replay` are `offline-queue.ts` and `flushOfflineQueue`.

A peer of `SharedState` is one page: `shown` is `stateSnapshot`, `synced` is
`syncedStateSnapshot` (the one that is persisted), `queue` the offline queue,
`timer` the replay timer and `window` `offlineWindowActive`. `link` is its
connection: `none` before the page is loaded, `off`, `up`, `leaving` (disconnect
awaits its flush), `dead` (it broke and the room does not know yet), `gone` after
the page was closed.

| code | action |
|---|---|
| `set`, `patch`, `undo`, `reset`, `emitEvent`, and `shouldQueueOfflineWork` | `Mutate`, `Emit` |
| `activateConnectedTransport` | `Connect` |
| `handleTransportDisconnectedSignal`, `disconnect` | `Break`, `HandleLoss`, `Disconnect`, `Disconnected` |
| `flushOfflineQueue` behind `scheduleOfflineQueueReplay` | `ReplayTimer` |
| `handleRoomSignal` | `HandleHello`, `HandleWelcome`, `HandleState` |
| persistence | `Load`, `Unload` |
| `forwardTransport` of the relay | `Relay` |

Left out of it: the `custom` and `crdt` strategies (the application's or Yjs's
merge), calls made by subscribers while the room notifies them,
`offlineReplayRequested`, the idempotency keys of events, several pages that
share one localStorage at a time, `useState` after the connection, and
encryption.

### PeerRegistry and Locks

`PeerRegistry` has one operator for each operation of the registry; an entry is
absent, present or leaving, with its removal timer. `Locks` is what drives it:
`hello`, `welcome`, the heartbeat, `leave`, and the relay's `peer-left`, over
links that break (`dead` until the room hears of it). On it runs the lock engine
for one key: `claims[p]` is `claimsByKey` of p, `expiry[p]` when its timer is
due, `notified[p]` what its subscriber was told last, `call[c]` one call of
acquire.

| code | action |
|---|---|
| `acquire`, `attemptAcquire` | `Acquire`, `Settled` (`Granted`, `Refused`, `TryAgain`), `Retry` |
| `release`, `scheduleExpiry` | `Release`, `ClaimExpires` |
| `handleLockClaimEvent`, `handleLockReleaseEvent` | `HandleLockFrame` |
| `handleHelloSignal`, `handlePresenceSignal`, `startPresenceHeartbeat` | `HandlePresence`, `Heartbeat` |
| `handleLeaveSignal`, `peer-left`, `finalizeScheduledRemoval` | `HandleLeave`, `HandlePeerLeft`, `GraceEnds` |
| `activateConnectedTransport`, loss, `disconnect` | `Connect`, `Break`, `HandleLoss`, `Disconnect` |
| `forwardTransport` of the relay | `Sent` |
| `removePeerFromRoom` of the relay | `AnnounceDeparture` |

`reconcileKey` is one operator (`Reconcile`): prune, resolve the winner, notify
if it changed, set the timer anew. Time counts ticks, and the clocks of the peers
agree: a claim carries the time of its peer's clock and is judged by the clock of
whoever hears of it, so no property of `Locks` is claimed of clocks that differ.
A timer fires in the tick
in which it is due, and `Tick` waits for those and for signals at their limit.
`disturbed`, `cleared` and `misled` are history: a claim or release was lost, a
registry was cleared by its own disconnect, a peer was said to have left when it
was back already.

Left out of it: subscribers that call back into the engine, two calls of acquire
by one peer at once, the awaits within `disconnect` (they are in
`RoomConnection`), and what a peer's record says.

## What the runs check

| Run | Instance | Shows |
|---|---|---|
| `RelayCluster.cfg` | 2 instances, one socket each, 2 rooms and `maxRooms` 1, 2 peer ids, 3 joins, no capacity, failing authorizations | `TypeOK`, `RegistryBacked`, `ExactAtRest`, `SubscriptionsAgree` |
| `RelayClusterCapacity.cfg` | 2 instances, 3 sockets, 1 room, 2 peer ids, 2 joins, capacity none or 1, `FairSpec` | `CapacityHeld`, that the cluster implements `RoomRegistry`, and `HandlersEnd` |
| `RelayClusterChannel.cfg` | 2 instances, 2 joins, capacity 1 | violates `MemberHearsRoom` |
| `RoomConnection.cfg` | 3 adapters at a time, 2 disconnect calls, 3 attempts | `TypeOK`, `OrderlyLeaveLasts`, `DisconnectSucceeds`, `ConnectedIsLive`, `NoLeak` |
| `RoomConnectionLiveness.cfg` | 2 adapters, 1 disconnect call, 3 attempts, `FairSpec` | `AttemptsEnd`, `DisconnectEnds` |
| `RoomConnectionLeave.cfg` | 2 adapters, 1 disconnect call | violates `LeftStaysLeft` |
| `SharedState.cfg` | 2 peers, one or both connected from the start, one with a clock that is ahead, 4 pieces of work (mutations, undos, events, loads, losses, disconnects), `FairSpec` | `TypeOK`, `ShownIsProjection`, `ReplayArmed`, `InAppendOrder`, `Converged`, `OnlyStaleDropped`, `Recovers` |
| `SharedStateSameMillisecond.cfg` | 2 connected peers, 4 pieces of work, clocks that agree, operations in one millisecond | violates `OnlyStaleDropped` |
| `SharedStateThreePages.cfg` | 3 connected peers, one with a clock that is ahead, 3 pieces of work | violates `Converged` |
| `Locks.cfg` | 2 peers, one acquire each (one with a ttl, one with a timeout), 1 connection that ends, 1 release or heartbeat, signals within 1 tick of a settle window of 2 | `TypeOK`, `OneHolder`, `Agreement`, `SubscribersCurrent`, `ClaimsOfMembers`, `NoStrayClaim`, `RostersExact`, `PatienceBounded` |
| `RelayRecovery.cfg` | 2 instances, 2 peer ids, capacity 2, 2 joins, 2 faults | `TypeOK`, `Restored`, `NoGhosts`, `NoticesKept`, `OthersKept`, `Recovering` |
| `RelayPolling.cfg` | 3 adapters (2 of one peer), 1 frame, 1 fault, polls of 1 tick, requests of up to 1 tick, sessions that expire after 4, a sweep in each | `TypeOK`, `HeardInOrder`, `PollersKept`, `NoGhostPeers`, `LockoutBounded` |

`HolderUnique`, `ContextRegistered` and `Registration` (from which the first two
and `RegistryBacked` are proved), `EmptyRoomIsFresh` and `CapacityFixed` are
proved for every instance and are not in a run: the first follows from
`RegistryBacked`, the last two from `ImplementsRegistry`.

**Bounds.** The only unbounded quantity of a cluster is the number of requests;
`Joins` bounds it, and every queue and counter with it. Two instances are what
it takes for one to act behind the other's back. Three joins are what it takes
for a peer to leave, be replaced by another instance's peer with the same id,
and a third request to race with both; two peer ids let a room stay open while
one of them leaves. Clients may leave and close at any time. Join requests are
interchangeable and so are peer ids and rooms, hence the symmetry sets; sockets
are not, their place is fixed by `Home`. Two sockets on one instance, which
share its subscription, are in the capacity run, two rooms in the other. The
capacity run uses no symmetry, since it also checks liveness. A behaviour
ends when every request has been sent and every socket is closed, so deadlock
is not checked; `HandlersEnd` says that nobody is left waiting.

A room may connect, lose its transport and disconnect without end: an adapter
nobody refers to is garbage and its name is used again, so no run of
`RoomConnection` is cut short. Three adapters are one in use, one being opened
and one whose loss is being handled. Three attempts are a first, a middle and a
last one. Adapters and calls are interchangeable (symmetry in the safety run);
the application can always make a call, so deadlock is checked.

`SharedState` has no bounds but `MaxWork`, one budget for everything the
application, the user and the network do, and `MaxPages`. Coming back costs
nothing. Two pages that are connected from the start need four pieces of work to
lose a connection, queue two operations and make a concurrent write on the other
side: two queued mutations are then replayed over a concurrent snapshot, the case
`OnlyStaleDropped` is about. `Starts` also has the room with one page, to which the
other comes as a newcomer (a load, one piece of work). `HistoryLimit` and `EventLimit`
are 1 so that both limits are met. Which peer does what (`KindsOfEach`) is fixed,
since peers are otherwise alike: one patches and undoes, one sets and resets, the
third page of the violation run resets. `Converged` and `OnlyStaleDropped` speak
of rooms of two peers: with three they fail (see "What the runs found"). With two
peers a reloaded page comes back as the second peer, or not at all, and then only
one page runs and `Converged` says nothing; what reloads do to a queue is in the
other properties. Clocks that agree were checked by hand.

`Locks` bounds the connections that end (`MaxEnds`), releases and heartbeats
(`MaxChanges`) and the time of calls (`LastCall`). The settle window is longer
than a signal takes; with `MaxDelay = SettleTicks` `OneHolder` fails, which is
the race `docs/reference/engines-locks.md` describes. Three calls with one
change, and a common budget of two changes, were checked by hand as well.

`RelayRecovery` bounds what goes wrong by `MaxFaults`: two faults are an outage
and one within its recovery, or a restart of Redis after which another outage
shows what the first left behind. Two joins let a peer id move to the other
instance, or back, while the first still has its departure to announce. Three
faults with two joins, and three joins with one fault, were checked by hand
(2.4 and 0.9 million states). Peer ids and instances are interchangeable
(symmetry).

`RelayPolling` keeps the order of the code's times: a long poll with its two
latencies (25 s and what the network takes) ends before a session expires
(60 s), and the sweep (15 s) is more frequent than that. `PollsOutrunTheSweep`
states what is needed of them, and is an assumption about the network: with
requests that take longer, a sweep takes the session of a client that polls.
Adapters and frames are used once and so bound a behaviour, `MaxFaults` what is
lost. Two adapters of one peer are one that is lost or left and one that comes
back; the third sees them come and go. Two faults were checked by hand.

**Fairness.** `FairSpec` of `RelayClusterRefinement` lets each handler and Redis take the steps they can
take: a promise that settles resumes its handler, Redis executes what it
receives and its answers arrive. Clients owe nothing: no fairness makes them
send, leave or close. The model has no loss of Redis, under which a handler
would fail rather than wait. `FairSpec` of `RoomConnection` is strong fairness of
each async function: an adapter answers or fails, a timer fires, and the
continuation runs even though listeners and microtasks run before it again and
again (that is what strong fairness adds: these disable it for a moment). No
fairness makes the application call or a connection break. `FairSpec` of
`SharedState` is weak fairness of the replay timer alone: a timer that is set
and not cancelled fires (`TimerFires`: no
timer stays set for ever; since `ReplayTimer` can fire it as long as it is set, this
is the weak fairness of `ReplayTimer`). `Recovers` says what that gives; the application and
the network owe nothing. `Locks` needs no fairness, time is part of its state.

**What the runs found.**

- *Subscription count.* `docs/reference/advanced.md:113` says that "peer
  join/leave notifications are forwarded through Redis room channels".
  `subscribe` writes the count 1 at `relay-redis-coordinator.ts:130` for each of
  two first subscribers that overlap. When the other's join is rejected
  (`server.ts:1182`), its unsubscribe ends the subscription, and the admitted
  member's instance no longer hears the room.

- *A disconnect during a loss.* `packages/core/src/types.ts:2592-2594` says that
  disconnect returns "a promise that resolves when disconnect teardown
  completes". `handleTransportDisconnectedSignal` awaits the old transport's
  disconnect at `room.ts:2960`, with `this.transport` already null and no
  `reconnectPromise` yet. A disconnect() at that moment finds nothing to wait
  for, sets 'disconnected' and resolves; the handler then starts the reconnect
  loop, and the room its user left connects again. The test
  "cancels reconnect retries when disconnect is called during backoff"
  (`room.reconnect.test.ts:264`) covers the same call a moment later. A
  disconnect made by an 'offline' listener ends the same way, except that it may
  also throw, because it reads `this.transport` again at line 1104.
  `OrderlyLeaveLasts` and `DisconnectSucceeds` say that without this crossing
  neither happens, as far as the model goes: a listener of 'reconnecting' runs
  before `reconnectPromise` is assigned (`room.ts:3681`), and a disconnect made
  there is not modelled.
- *Three pages that never agree.* `docs/reference/engines-state-awareness-events.md:38`
  says "latest write wins", and `state.room.test.ts:115` "resolves concurrent
  ordering and tie-breaks from multiple peers deterministically".
  `compareStateSnapshots` (`internal/state.ts:286`) lets a vector clock that
  dominates decide and a timestamp otherwise, which is not transitive: peer 1,
  whose clock is ahead, writes n; peer 2 has read n and writes a over it; peer 3
  writes b, of which the others know nothing. By vector clock a is newer than n, by
  time n is newer than b and b newer than a. `handleStateSignal` (`room.ts:2735`)
  keeps one of two snapshots and does not merge their clocks, so the order of
  arrival decides: n, a, b leaves b at peers 1 and 2; b, n, a leaves a at peer 3.
  Nothing is sent any more and the pages stay different until somebody writes. By
  hand: clocks that agree do not exclude it, with six writes. A room of two peers
  converges, whatever the clocks (`ConvergedOfTwo`).
- *Two writes in one millisecond.* `docs/reference/engines-state-awareness-events.md:38`
  says "latest write wins" and line 46 that "stale queued writes can be dropped".
  If a concurrent snapshot has arrived, `flushOfflineQueue` (`room.ts:3093`)
  compares each queued snapshot with what those before it have made by timestamp
  only; two of one millisecond tie, and the newest write is the one that is
  dropped. Two peers are enough, whether their clocks agree or not. With a
  millisecond between them a room of two peers drops no such write
  (`SharedState.cfg`, which reaches the same replay, and `OnlyStaleDroppedOfTwo`).

Other behaviours show in these runs without contradicting any document, or had
to be exempted from the properties, and are stated as hazards:

- Of three peers, a newcomer may stay untold. Its hello reaches a room with
  mutations queued, which answers nothing (`room.ts:2669`) and leaves it to the
  replay; if the replay drops them all as stale it sends nothing
  (`room.ts:3059-3112`). Found by hand with clocks that agree, two pages at a time
  and five pieces of work. With two peers nothing the newcomer has not written
  itself can make them stale.
- `OnlyStaleDropped` is about queues without an undo: an undo may be possible over
  one snapshot and not over another, and what follows it was not made over the same
  mutations. With three peers whose clocks differ it fails without an undo as well.
- First joins of different rooms that overlap all pass `wouldExceedRoomLimit`
  (`server.ts:1160`, before the awaits; the room is added at line 1191), so an
  instance may host more than the `maxRooms` of `server.ts:222-225`.
- Two join messages on one socket can both be admitted (the check at
  `server.ts:1149` precedes the awaits), and a join may install a socket that has
  closed meanwhile. The properties of `RelayCluster` hold in both cases.
- A room that empties during a recovery stays in `pendingEmptyRoomSyncs`, which a
  join does not clear: the next recovery deletes the entries of the peers that
  have joined since (`relay-redis-coordinator.ts:247`).
- A leave that crosses a recovery after its room was copied, or a script whose
  answer was lost with an outage that empties the room, leaves an entry that
  blocks the peer id (`PEER_EXISTS`). A join answered during a recovery may lose
  its entry again. A write that ioredis resends may remove or overwrite the entry
  another instance has since made. So may the restored copy of a peer that left
  meanwhile, if Redis had lost its data.
- A `peer-left` whose PUBLISH is not answered when ioredis gives up is lost: the
  other instances are never told that the peer left. `publish` queues a notice only
  if the instance is not ready when it is called (`relay-redis-coordinator.ts:192-204`)
  and `removePeerFromRoom` logs the failure (`server.ts:1925`). No document promises
  more.
- A departure noted during a recovery, after the copy of
  `pendingPeerLeftMessages`, is announced only at the end of the next one. An
  instance that stops during an outage forgets its pending departures and leaves
  its entries behind.
- A disconnect during a connect that has fallen back to polling forgets the
  preference, and the connect sets it again: the next connect skips WebSocket,
  where `docs/reference/advanced.md:133` says "until you call `disconnect()`".
- A polling client's frame that arrives before the end of its session and is read
  after it is broadcast nevertheless (`server.ts:1648`): the others take the peer
  back in and nothing tells them that it left.
- A polling client's frames are requests of their own. One that is lost is not sent
  again and leaves the transport connected, and two may change places
  (`polling.ts:446`), where `docs/reference/types.md:215` says "Events are reliably
  delivered over all transports".
- Each message queued for a polling session counts as a sign of life
  (`server.ts:1731`): an abandoned one in a room that keeps talking does not expire.
- A lock claim or release made without a connection is not sent again, and a
  newcomer hears of no claim made before it came. After its own disconnect() a
  room keeps the claims of others.

## What is proved

The theorems hold for every set of instances, rooms, sockets and join requests,
every capacity and every finite set of peer ids, from the named assumptions of
`RelayRedis` and `RelayCluster`: each socket has an instance, capacities are
naturals, and the values that stand for "none" are none of the real ones.

- `TypeCorrect`, `HandlersCorrect`: types need to know that a running handler
  has a request (its instance and room index everything else), and that the
  leave that starts finds a context whose join was admitted. `HandlerInv` adds
  just that (`HandlersAgree`, `ContextsArePresent`) and is inductive.
- `RegistrationCorrect`: `Registration` is an invariant. It is what makes
  `RegistryBacked` inductive. `RegistryBacked` alone is not: the leave script
  deletes a field without looking at its owner, so one needs to know that
  nobody else can hold that field while a leave script is on its way. A join
  *holds* its field from the script that wrote it to the script that removes it
  (`Holds`), holders are pairwise different (`HoldersDiffer`) because the join
  script admits only into an absent field, and a holder's field has its own
  instance (`HoldersOwn`). The registries then name exactly the joins that are
  present, that is, admitted and not being undone. Only four steps touch any of
  this (`RedisJoin`, `Install`, `RemovePeerFromRoom`, `RedisLeave`); the lemma
  `QuietStep` disposes of the rest.
- `RegistryBackedCorrect`, `HolderUniqueCorrect` and `ContextRegisteredCorrect`
  follow from it.
- `ExactAtRestCorrect`: `Registration` says that a holder's field is there, not
  that a field has a holder. `EntriesAreHeld` adds that (a script that writes a
  field makes its join a holder, and the one that removes it ends exactly that
  holder, lemma `HoldersKept`), and `LocalRoomsAgree` that server and coordinator
  keep the same rooms on one instance. At rest a holder is present, hence
  registered, and all three agree.
- `CapacityHeldCorrect`, `EmptyRoomIsFreshCorrect`, `CapacityFixedCorrect`: a
  room of Redis is sound (`RoomSound`) by itself, whatever the handlers do: the
  join script keeps it so, the leave script keeps it so, and no other step
  writes a room. The proof counts members, so it needs finitely many peer ids.
- `SubscriptionsAgreeCorrect`: `SubscriptionsAgree`. A handler that waits for
  SUBSCRIBE or UNSUBSCRIBE waits on one queue after the other: its call is in
  `subscriptionCalls`, then its acknowledgement is in `inbox` (each once, and
  never both). Both are first in, first out. So what Redis has for a channel is
  what the last unread acknowledgement says, and what the store believes if there
  is none (`CallsOK`): at rest nobody waits, and the two agree. The *count* of
  subscribers is in none of this; it is what the second run refutes.
- `ImplementsRegistryCorrect` (`RelayClusterRefinement_proofs`): the cluster
  implements `RoomRegistry`. A join is seated while it holds its entry, so the
  joins that hold a room's entries and the room's members correspond one to one
  (`Registration` and `EntriesAreHeld` together, lemma `SeatsAreEntries`): as many
  seats as members, hence the script that admits into a room with space admits
  into a seat that is free and within the limit. One lemma per action maps it to
  `Admit`, `Vacate` or a stutter. It assumes that the values for a seat not yet or
  no longer taken are no seats (`NobodysSeat`).

For the room's connection (`RoomConnection_proofs`), for every set of adapters
and of disconnect calls and every `MaxAttempts`:

- `TypeCorrect`: types, and with them the bound on attempts.
- `OrderlyLeave`, `OrderlyDisconnect`, `AdaptersKept`: `OrderlyLeaveLasts`,
  `DisconnectSucceeds` and `NoLeak`. None is inductive alone. `Orderly` adds who
  excludes whom as long as nothing has crossed: a set transport means connected
  with nothing pending (`HeldTransport`); connect and the loop never open at once
  (`OneAttempt`); a loss is handled alone and keeps the status connected, which is
  what stops a connect from starting (`LossAlone`); a disconnect runs alone, its
  stage tells what is pending, and no loop starts under it (`LeaveAlone`); each
  adapter is held by the field its state calls for (`AdaptersHeld`). `crossed`
  never goes back, so `~crossed => Orderly` is inductive.
- `ConnectedLive`: `ConnectedIsLive`, without `~crossed`, so from another invariant.
  `LiveInv` says that fields which hold an adapter hold different ones
  (`FieldsDiffer`), that the room listens to what it is opening (`Attempts`), that an
  adapter whose loss is handled is not opened again (`LossesOver`), and that a room
  which says it is connected over no transport, or a dead one, still has a loss
  handler, or the disconnect that closed it, to change its status (`Accounted`). At
  rest nobody is left to do that, so the transport is alive.

For shared state (`SharedState_proofs`), for every set of peers, every kind of
mutation, clock skew and bound:

- `NoLostWakeUp`: `ReplayArmed`. It is inductive with the shape of `link` and
  `timer` alone, since each step that could leave something to replay (`Enqueue`,
  the arrival of a connection) schedules it, and each that cancels the timer
  takes the room off `up`. What the snapshots say does not matter to it.
- `TypeOKCorrect`, `ShownIsProjectionCorrect`, `InAppendOrderCorrect`: `TypeOK`,
  `ShownIsProjection` and `InAppendOrder`, from one inductive invariant
  (`SharedInvCorrect`) and the assumptions that clocks go forward (`TimeGoesOn`)
  and that the bounds are naturals (`BoundsNatural`).
  - What a room shows and what a replay does are folds over the queue, which the
    module writes with `FoldLeft`. It unfolds to a `CHOOSE` of the function that
    satisfies a recursion over sets of places; the lemmas show that some function
    does (`FoldExists`), that the fold is where a run over the queue, one entry
    after the other, ends (`FoldRuns`), and that two runs over the same entries
    agree (`RunsAgree`). The inductions are by the least counterexample (`Least`,
    `UpTo`), since a scheme with an operator parameter cannot be cited. Then an
    entry more is a step more (`FoldAppend`), what every step keeps the fold keeps
    (`FoldKeeps`), and an entry that is nothing to the fold may be taken out
    (`FoldWithout`).
  - `ShownIsProjection` holds over an operation that is queued because
    `AppendEntry` appends it and may drop an event, which is nothing to the
    projection (`EntryProjected`), and because the mutation, made over what is
    shown, still counts over it (`Applied`). After a replay, a reload or a
    dispatch the queue has no mutations and both states are the same.
  - `InAppendOrder` is not inductive by itself: one needs that the queue is in
    order too and that nothing queued is older than anything dispatched
    (`InOrder`). A replay dispatches a subsequence of the queue (`ReplayIs`).
- `ConvergedOfTwo`: `Converged`, for any set of two peers (`Peers = {a, b}`), any
  clocks, mutations and bounds. With a third peer it is false. The proof is about
  what two peers have and what is on its way between them (`Exchange`):
  - `Half(p, q)`: what p has and what it has told come one after another, by what
    each knows of the writes of q, then by p's own (`Later`, `Follows`); p never knows
    more of the writes of q than q does; and what p told before it heard the last of
    q it has heard is no news to q. `Apart`: different peers do not come to the same clock
    by a write. Of two peers the order by dominance and then time has no cycles in
    these chains; of three it may. So the exchange survives what is written
    (`BothWritten`), taken or left on arrival (`BothAdopted`), lost (`BothWithin`) and
    loaded (`BothLoaded`).
  - `Times`: a peer's writes carry times no later than its clock and than what it
    has queued, so that a replay writes in order. `Unheard`: of a page not yet loaded
    nobody has more than an initial value. `Replays`: a replay over the peer's own
    snapshot drops not all, so that whoever waited for it is told.
  - `Informs` is the point: if p has news for q and both are connected, it is on its
    way, or a hello that p will answer is, or p has mutations queued. With `Quiet`
    none of the three is, so neither has news for the other, and by `Newer` being
    total they have the same snapshot.
- `OnlyStaleDroppedOfTwo`: `OnlyStaleDropped`, for two peers, any clocks, mutations
  and bounds, if time goes on with each write (`0 \notin Advance`; of writes of one
  millisecond it is false). What a step takes out of a queue says nothing of how the
  entries came to lie there, so the proof adds to the above, for a queue without an
  undo, that it is in line with the synced state (`InLine`): each entry is later than
  those before it, knows of the other's writes no less than they do, and is ahead of the
  synced state by more of the peer's own writes than there are entries before it that
  are still news. It holds because what a room shows is the synced state with exactly its
  news made over it (`Over`, `ProjectOver`), so that an entry more goes to the end of
  the line (`LineGrows`); and because a snapshot that is taken over makes nothing news
  that was none (`NewsWas`, `LineAdopts`). In a queue in line an entry counts in its
  turn if and only if it is news over the synced state (`OverStep`): what was replayed
  before it has a smaller count and an earlier time.

For the recovery, for every set of instances, every finite set of peer ids and
every bound (`RelayRecovery_proofs`, `RelayNotices_proofs`):

- `TypeCorrect`: types, with what a recovery has put together at each of its
  stages (`RecoveryOK`) and what does not outlive a connection or a stop
  (`WireOK`). A pipeline is a sequence made of a finite set, hence the assumption.
- `RecoveringCorrect`: `Recovering`. It needs that a recovery which waits for
  Redis knows its next stage (`GoesOn`): the only stage `idle` is the one that
  opens the doors.
- `NoticesKeptCorrect`: `NoticesKept`, that is, of the departures that are due
  (`Due`: not published, and the notice not lost with a failed PUBLISH or a stop).
  The proof looks at the commands that an
  instance has no answer for, run or not, as one sequence: an outage moves
  answers back to requests and leaves that sequence as it is, which is why being
  sent again does no harm. On it a departure is published at most once, by a
  handler that waits for the answer (`PublishedOnce`), and at most one notice is
  being said (`AnnouncedOnce`). What a recovery says is a prefix of the notices
  that are pending (`SayingCopy`), so that dropping as many as were said drops
  those; a departure that is due is with its handler, or pending and past what
  was said (`Kept`). `NoticesKept` alone is not inductive: it would let a
  recovery drop a notice that was copied but not said.
- `RestoredCorrect`, `NoGhostsCorrect`, `OthersKeptCorrect`, of states in which no
  change of the room has met an outage (`raced`), from one inductive invariant,
  `RoomsOK`. All three are about Redis at the end of a recovery and say nothing
  of the way there, so none is inductive. `EntryOK` gives for each
  instance and peer id why the entry is as it is: an entry of the instance belongs to one of
  its peers, or a leave for it is on its way to Redis, or an admission on its way
  back, or a recovery will still delete it (`ToPurge`); a peer of the instance has
  its entry, or none and a recovery will still write it (`ToRestore`). A pipeline
  that waits for the capacity or is being run writes exactly the peers of the
  instance and deletes exactly the entries the others left. That is so because
  the answer to `hgetall` is still true of the instance's own entries when it is
  read: `hgetall` is the last command on the wire and a pipeline has it to itself
  (`OrderOK`), joins wait for the doors, and a room that empties is remembered as
  long as the doors are closed (`DoorsOK`). A peer's leave precedes its next join
  on the wire. A step of one instance is nothing to another (`Apart`): whoever
  writes an entry finds it its own or nobody's (`ExecuteApart`).

For the polling sessions (`RelayPolling_proofs`), for every set of adapters, frames
and peers, and all times that `PollsOutrunTheSweep` allows:

- `TypeOKCorrect`, `HeardInOrderCorrect`, `PollersKeptCorrect`,
  `LockoutBoundedCorrect` follow from one inductive invariant, `PollingInv`. `Life`
  says which stages of the client, its join, its poll and its session go together
  (a session that is not open has nothing queued, an answer on the way was polled
  for); without it `HeardInOrder` would not survive a session that ends. `Timed`
  bounds how long a client that polls can have been silent by where its request
  is, which keeps its session out of the sweep's list (`Doomed`). `Seats` gives
  each peer id one session or one join that has been asked, `Queued` each of these
  its promise, and `SweptSoon` counts down to the sweep that ends a session.
- `NoGhostPeersCorrect` needs more: what a client *will* know once it has handled
  all it is owed. Whoever is in that view (`InView`) is in the room, or misled it,
  or has a departure queued behind the client's own join (`Views`). Only the six
  actions of `ViewSteps` touch a view.

For the locks (`Locks_proofs`), for every set of peers and calls and every bound,
from the assumptions of `Locks` (a retry is no longer than the settle window,
`locks.ts:10`, `16`), all from the one inductive invariant `LocksInv`:

- `RostersExactCorrect`: what is on its way to p decides whether q will be in p's
  registry when all has been handled: the last signal of q that adds or removes it,
  or what is there (`Stays`). Between two connected rooms q stays, or p's own hello
  is on its way to q, which answers it (`Asks`); the registry alone says nothing
  while signals of an earlier connection are on their way (`Rostered`).
- `AgreementCorrect`: as long as nothing is lost, the last claim or release on its
  way from q to p, or what p knows if there is none, tells what q's own claim tells,
  where claims that have ended tell the same (`Arrives`, `Informed`). At rest all
  know the same claims, and equal claims resolve to the same holder.
- `SettledHolderIsAloneCorrect`, `OneHolderCorrect`: with `MaxDelay < SettleTicks`,
  and clocks that agree as everywhere in `Locks`, a
  claim as old as the settle window has been delivered. Two that see themselves as
  holders and are settled know each other's claims, and the order of claims is
  total. A granted claim is settled because its call waited for it (`Placed`),
  unless another call of the same peer replaced it: hence the second hypothesis of
  `OneHolder`, one call per peer, which the run has too and without which it is false.
- `SubscribersCurrentCorrect` (`Told`), `ClaimsOfMembersCorrect` (`Forgotten`),
  `NoStrayClaimCorrect` (`Placed`), `PatienceBoundedCorrect` (`Punctual`),
  `TypeOKCorrect`. The timer is due at the soonest end of an active claim, in each
  state (`EngineTyped`), so that nothing expires untold.

Model-checked only: liveness under fairness (`AttemptsEnd`, `DisconnectEnds`,
`HandlersEnd`, `Recovers`), which is out of the proof system's reach. Every safety
property of the passing runs is proved.

## Not modelled

- *Relay rosters.* What a client makes of `joined`, `peer-joined` and `peer-left`.
  `Locks` has the client's half for one relay; conjoining it to several relays
  multiplies two state spaces that TLC can each just explore.
- *Signal and transport forwarding, codec.* They read the registries and write to
  sockets; no state of the relay changes.
  For polling peers, who have queues, it is in `RelayPolling`; what the rooms on one
  relay see of it is `Relay` of `SharedState` and `Sent` of `Locks`.
- *The rest of the local coordinator.* Its capacity; join and leave are in `RelayPolling`.
- *Authentication, wire validation.* Functions of one message; authorization is a
  choice in `RelayCluster`.
- *Edge room.* The same protocol over one durable object, whose eviction would be
  the point of a model.
- *Management API and usage.* Request handlers over SQL; the checks that precede an
  insert (`packages/relay/src/management/pg-store.ts`) are in the plan with the
  quotas.
- *Approvals, activity, comments, ephemeral engines, recording.* Records of one
  peer that the others copy; approvals (votes and expiry crossing) are the part
  worth a module.
- *Custom and CRDT strategies, Yjs, encryption, AI peer, plugins.* Merges and
  ciphers that the application or a library supplies.
- *Transports.* Adapters are external in `RoomConnection`; WebRTC and WebTransport
  negotiate with browser objects whose states the code does not decide. The polling
  adapter is in `RelayPolling`.
- *Cloud API, CLI, framework adapters, cursors UI, Dart client, examples.* Glue,
  rendering and pure I/O. They are the larger part of the repository's lines.

## Plan

Done: the relay's membership, because everything else in the relay stands on it;
the room's connection, for the same reason in the library; the recovery; shared
state with its queue; locks with the peer registry; polling sessions. Next, in this
order:

1. `RelayRosters`: what clients make of `joined`, `peer-joined` and `peer-left`,
   conjoined to the actions of `RelayCluster`.
2. Agent approvals, the edge room, the management quotas.
