---------------------------- MODULE SharedState ----------------------------
(***************************************************************************)
(* The shared state of a room under the "lww" strategy, its offline queue  *)
(* and the exchange of snapshots between peers: packages/core/src/room.ts. *)
(*                                                                         *)
(* Each peer runs on one thread; an action is a call of the application, a *)
(* timer, a signal or a change of its connection, run to the end.  Signals *)
(* go through one relay, which passes on what a peer sent in that order,   *)
(* and those between a peer and the relay are lost with its connection.    *)
(***************************************************************************)
EXTENDS StateSnapshots

CONSTANTS
    First,          \* the peer that came first
    Starts,         \* the sets of peers that may be connected from the start
    Everyone,       \* the address of a broadcast
    Kinds,          \* the mutations each peer's application makes
    Skew,           \* how far the clock of each peer is ahead
    Advance,        \* milliseconds that may pass between two operations
    MaxPages,       \* bound: pages loaded at once
    MaxWork         \* bound: operations, pages loaded and connections ended

ASSUME StartsArePeers == Starts \subseteq SUBSET Peers /\ First \in Peers
ASSUME KindsOfPeers == Kinds \in [Peers -> SUBSET MutationKinds]
ASSUME SkewOfPeers == Skew \in [Peers -> Int]
ASSUME TimeGoesOn == Advance \subseteq Nat
ASSUME BoundsNatural == {MaxPages, MaxWork} \subseteq Nat

VARIABLES
    link,           \* the page and its connection: see TypeOK
    connectedOnce,  \* hasConnectedBefore
    shown,          \* stateSnapshot
    synced,         \* syncedStateSnapshot, which persistence stores
    queue,          \* offlineQueue
    timer,          \* offlineReplayTimer is set
    window,         \* offlineWindowActive
    outbox,         \* signals of each peer on their way to the relay
    inbox,          \* signals on their way from the relay to each peer
    clock,          \* real time
    ops,            \* operations made
    work,           \* operations, pages loaded and connections ended
    log             \* the operations each peer dispatched (history)

vars == <<link, connectedOnce, shown, synced, queue, timer, window, outbox, inbox,
          clock, ops, work, log>>
states == <<shown, synced, queue>>
net == <<outbox, inbox>>
bounds == <<clock, ops, work>>

\* "none": the page is not loaded.  "off": transport is null.  "up": connected.
\* "dead": the connection broke and the room does not know.  "leaving": within
\* disconnect.  "gone": the page was closed.
Links == {"none", "off", "up", "dead", "leaving", "gone"}

Running(p) == link[p] \notin {"none", "gone"}
HasTransport(p) == link[p] \in {"up", "dead", "leaving"}
Reachable(p) == link[p] \in {"up", "leaving"}

\* The peers of one of Starts are connected and agree on the state the room started
\* from, which First configured; no other page is loaded.
Init ==
    /\ \E joined \in Starts :
           /\ link = [p \in Peers |-> IF p \in joined THEN "up" ELSE "none"]
           /\ connectedOnce = [p \in Peers |-> p \in joined]
    /\ shown = [p \in Peers |-> Initial(First, Skew[First])]
    /\ synced = shown
    /\ queue = [p \in Peers |-> <<>>]
    /\ timer = [p \in Peers |-> FALSE]
    /\ window = [p \in Peers |-> FALSE]
    /\ outbox = [p \in Peers |-> <<>>]
    /\ inbox = [p \in Peers |-> <<>>]
    /\ clock = 0 /\ ops = 0 /\ work = 0
    /\ log = [p \in Peers |-> <<>>]

Hello == [type |-> "hello"]
Welcome == [type |-> "welcome"]
StateUpdate(s) == [type |-> "state:update", snapshot |-> s]

\* A signal with its sender, and toPeerId or Everyone.
Signal(p, to, m) == [from |-> p, to |-> to, message |-> m]
ToAll(p, m) == Signal(p, Everyone, m)

\* What a connected peer sends goes to the relay, and nowhere once the
\* connection is broken.
Send(p, signals) ==
    outbox' = IF Reachable(p) THEN [outbox EXCEPT ![p] = @ \o signals] ELSE outbox

CutOff(p) ==
    /\ outbox' = [outbox EXCEPT ![p] = <<>>]
    /\ inbox' = [inbox EXCEPT ![p] = <<>>]

\* A slip: only the transport counts.
ShouldQueueOffline(p) == ~HasTransport(p) /\ connectedOnce[p]

ShouldQueue(p) ==
    \/ ~HasTransport(p) /\ connectedOnce[p]
    \/ queue[p] # <<>>
    \/ timer[p]

\* A slip: only mutations need a replay.
ScheduleMutations(p, q) ==
    /\ timer' = [timer EXCEPT ![p] = @ \/ HasMutations(q)]
    /\ window' = [window EXCEPT ![p] = @ /\ (q # <<>> \/ timer[p])]

\* scheduleOfflineQueueReplay, and completeOfflineWindowIfReady if there is
\* nothing to replay, with q the queue of p.
ScheduleReplay(p, q) ==
    /\ timer' = [timer EXCEPT ![p] = @ \/ q # <<>>]
    /\ window' = [window EXCEPT ![p] = @ /\ (q # <<>> \/ timer[p])]

ScheduleIfConnected(p, q) ==
    IF HasTransport(p) THEN ScheduleReplay(p, q) ELSE UNCHANGED <<timer, window>>

Work == work < MaxWork /\ work' = work + 1

NextOperation(p, at) ==
    /\ Work
    /\ ops' = ops + 1
    /\ clock' = at
    /\ UNCHANGED <<link, connectedOnce, inbox>>

\* An operation of p that shouldQueueOfflineWork puts in the queue.
Enqueue(p, e) ==
    /\ queue' = [queue EXCEPT ![p] = AppendEntry(@, e)]
    /\ ScheduleIfConnected(p, queue'[p])
    /\ UNCHANGED <<outbox, log>>

Dispatch(p, signals) ==
    /\ Send(p, signals)
    /\ log' = IF HasTransport(p)
              THEN [log EXCEPT ![p] = Append(@, ops')] ELSE log
    /\ UNCHANGED <<queue, timer, window>>

-----------------------------------------------------------------------------
\* The application calls set, patch, undo or reset.
Mutate(p, kind) ==
    \E d \in Advance :
        LET m == [kind |-> kind, op |-> ops + 1, changedBy |-> p,
                  timestamp |-> clock + d + Skew[p]]
            s == Apply(shown[p], m)
        IN  /\ Running(p)
            /\ CanApply(shown[p], m)
            /\ NextOperation(p, clock + d)
            /\ shown' = [shown EXCEPT ![p] = s]
            /\ IF ShouldQueue(p)
               THEN Enqueue(p, StateEntry(m, s)) /\ UNCHANGED synced
               ELSE /\ synced' = [synced EXCEPT ![p] = s]
                    /\ Dispatch(p, <<ToAll(p, StateUpdate(s))>>)

\* The application emits an event; receivers of events keep nothing of it here.
Emit(p) ==
    /\ Running(p)
    /\ NextOperation(p, clock)
    /\ IF ShouldQueue(p) THEN Enqueue(p, EventEntry(ops + 1)) ELSE Dispatch(p, <<>>)
    /\ UNCHANGED <<shown, synced>>

\* A page is loaded: its state starts from the initial value, or from what an
\* earlier page of the same browser stored.
Load(p) ==
    /\ link[p] = "none"
    /\ Cardinality({q \in Peers : Running(q)}) < MaxPages
    /\ Work
    /\ link' = [link EXCEPT ![p] = "off"]
    /\ \E s \in {Initial(p, clock + Skew[p])} \cup {synced[q] : q \in {g \in Peers : link[g] = "gone"}} :
           /\ shown' = [shown EXCEPT ![p] = s]
           /\ synced' = [synced EXCEPT ![p] = s]
    /\ UNCHANGED <<connectedOnce, queue, timer, window, net, clock, ops, log>>

\* The page is closed: of its memory only what persistence stored is left.
Unload(p) ==
    /\ Running(p)
    /\ Work
    /\ link' = [link EXCEPT ![p] = "gone"]
    /\ queue' = [queue EXCEPT ![p] = <<>>]
    /\ timer' = [timer EXCEPT ![p] = FALSE]
    /\ window' = [window EXCEPT ![p] = FALSE]
    /\ shown' = [shown EXCEPT ![p] = synced[p]]
    /\ CutOff(p)
    /\ UNCHANGED <<connectedOnce, synced, clock, ops, log>>

\* The snapshot p tells others of by itself, unless it has mutations to replay.
SnapshotFor(p, to) ==
    IF HasMutations(queue[p])
    THEN <<>> ELSE <<Signal(p, to, StateUpdate(shown[p]))>>

\* activateConnectedTransport: p says hello and sends its snapshot.
Connect(p) ==
    /\ link[p] = "off"
    /\ link' = [link EXCEPT ![p] = "up"]
    /\ connectedOnce' = [connectedOnce EXCEPT ![p] = TRUE]
    /\ outbox' = [outbox EXCEPT ![p] =
           <<ToAll(p, Hello)>> \o SnapshotFor(p, Everyone)]
    /\ ScheduleReplay(p, queue[p])
    /\ UNCHANGED <<states, inbox, bounds, log>>

\* The connection breaks, and later the room handles the loss.
Break(p) ==
    /\ link[p] \in {"up", "leaving"}
    /\ Work
    /\ link' = [link EXCEPT ![p] = "dead"]
    /\ CutOff(p)
    /\ UNCHANGED <<connectedOnce, states, timer, window, clock, ops, log>>

HandleLoss(p) ==
    /\ link[p] = "dead"
    /\ link' = [link EXCEPT ![p] = "off"]
    /\ timer' = [timer EXCEPT ![p] = FALSE]
    /\ window' = [window EXCEPT ![p] = TRUE]
    /\ UNCHANGED <<connectedOnce, states, net, bounds, log>>

\* disconnect cancels the timer first and drops the transport last; between the
\* two it awaits, and the room still hears signals and takes calls.
Disconnect(p) ==
    /\ link[p] = "up"
    /\ Work
    /\ link' = [link EXCEPT ![p] = "leaving"]
    /\ timer' = [timer EXCEPT ![p] = FALSE]
    /\ window' = [window EXCEPT ![p] = FALSE]
    /\ UNCHANGED <<connectedOnce, states, net, clock, ops, log>>

Disconnected(p) ==
    /\ link[p] = "leaving"
    /\ link' = [link EXCEPT ![p] = "off"]
    /\ CutOff(p)
    /\ UNCHANGED <<connectedOnce, states, timer, window, bounds, log>>

\* A slip: the end of the replay is not announced.
ReplayInSilence(p) ==
    LET r == Replay(synced[p], queue[p])
    IN  /\ timer[p]
        /\ timer' = [timer EXCEPT ![p] = FALSE]
        /\ IF HasTransport(p)
           THEN /\ synced' = [synced EXCEPT ![p] = r.synced]
                /\ shown' = [shown EXCEPT ![p] = r.synced]
                /\ queue' = [queue EXCEPT ![p] = <<>>]
                /\ Send(p, [i \in DOMAIN r.sent |-> ToAll(p, StateUpdate(r.sent[i]))])
                /\ log' = [log EXCEPT ![p] = @ \o r.done]
           ELSE UNCHANGED <<states, outbox, log>>
        /\ UNCHANGED <<link, connectedOnce, inbox, window, bounds>>

\* The replay timer: flushOfflineQueue replays the whole queue in one turn.
ReplayTimer(p) ==
    LET r == Replay(synced[p], queue[p])
    IN  /\ timer[p]
        /\ timer' = [timer EXCEPT ![p] = FALSE]
        /\ IF HasTransport(p)
           THEN /\ synced' = [synced EXCEPT ![p] = r.synced]
                /\ shown' = [shown EXCEPT ![p] =
                       IF HasMutations(queue[p]) THEN r.synced ELSE @]
                /\ queue' = [queue EXCEPT ![p] = <<>>]
                /\ Send(p, [i \in DOMAIN r.sent |-> ToAll(p, StateUpdate(r.sent[i]))])
                /\ log' = [log EXCEPT ![p] = @ \o r.done]
                /\ window' = [window EXCEPT ![p] = FALSE]
           ELSE UNCHANGED <<states, outbox, log, window>>
        /\ UNCHANGED <<link, connectedOnce, inbox, bounds>>

\* The relay passes the next signal of p on to whom it is for, as far as they
\* are connected.
Relay(p) ==
    LET signal == Head(outbox[p])
        heard == {q \in Peers \ {p} : Reachable(q) /\ signal.to \in {q, Everyone}}
    IN  /\ outbox[p] # <<>>
        /\ outbox' = [outbox EXCEPT ![p] = Tail(@)]
        /\ inbox' = [q \in Peers |->
               IF q \in heard THEN Append(inbox[q], signal) ELSE inbox[q]]
        /\ UNCHANGED <<link, connectedOnce, states, timer, window, bounds, log>>

\* p handles the next signal that reaches it, of the given type, and answers.
Receive(p, type, answer) ==
    /\ inbox[p] # <<>>
    /\ Head(inbox[p]).message.type = type
    /\ inbox' = [inbox EXCEPT ![p] = Tail(@)]
    /\ Send(p, answer)
    /\ UNCHANGED <<link, connectedOnce, bounds, log>>

\* A newcomer is welcomed and, unless mutations are queued, told the state.
HandleHello(p) ==
    LET from == Head(inbox[p]).from
    IN  /\ Receive(p, "hello", <<Signal(p, from, Welcome)>> \o SnapshotFor(p, from))
        /\ UNCHANGED <<states, timer, window>>

HandleWelcome(p) ==
    /\ Receive(p, "welcome", <<>>)
    /\ ScheduleReplay(p, queue[p])
    /\ UNCHANGED states

\* A slip: what arrives is shown as it is.
HandleStateUnprojected(p) ==
    LET incoming == Head(inbox[p]).message.snapshot
    IN  /\ Receive(p, "state:update", <<>>)
        /\ IF Newer(incoming, synced[p])
           THEN /\ synced' = [synced EXCEPT ![p] = incoming]
                /\ shown' = [shown EXCEPT ![p] = incoming]
           ELSE UNCHANGED <<shown, synced>>
        /\ ScheduleReplay(p, queue[p])
        /\ UNCHANGED queue

HandleState(p) ==
    LET incoming == Head(inbox[p]).message.snapshot
    IN  /\ Receive(p, "state:update", <<>>)
        /\ IF Newer(incoming, synced[p])
           THEN /\ synced' = [synced EXCEPT ![p] = incoming]
                /\ shown' = [shown EXCEPT ![p] =
                       IF HasMutations(queue[p])
                       THEN Project(incoming, queue[p]) ELSE incoming]
           ELSE UNCHANGED <<shown, synced>>
        /\ ScheduleReplay(p, queue[p])
        /\ UNCHANGED queue

Next ==
    \E p \in Peers :
        \/ \E kind \in Kinds[p] : Mutate(p, kind)
        \/ Emit(p)
        \/ Load(p)
        \/ Unload(p)
        \/ Break(p)
        \/ Connect(p)
        \/ HandleLoss(p)
        \/ Disconnect(p)
        \/ Disconnected(p)
        \/ ReplayTimer(p)
        \/ Relay(p)
        \/ HandleHello(p)
        \/ HandleWelcome(p)
        \/ HandleState(p)

Spec == Init /\ [][Next]_vars

\* A timer that is set and not cancelled does not stay set.  Only ReplayTimer fires
\* it, and can as long as it is set: this is the weak fairness of ReplayTimer.
TimerFires(p) == timer[p] /\ timer' = [timer EXCEPT ![p] = FALSE]

\* It fires even though each signal of the others starts it anew: the others are
\* not for ever more frequent than OFFLINE_QUEUE_REPLAY_SETTLE_MS.
Fairness == \A p \in Peers : WF_timer(TimerFires(p))

FairSpec == Spec /\ Fairness

-----------------------------------------------------------------------------
Snapshots ==
    [value : SUBSET (1..MaxWork), history : Seq(SUBSET (1..MaxWork)),
     vectorClock : [Peers -> Nat], changedBy : Peers, timestamp : Int]
Mutations ==
    [kind : MutationKinds, op : 1..MaxWork, changedBy : Peers, timestamp : Int]
Entries ==
    [type : {"state"}, mutation : Mutations, snapshot : Snapshots]
        \cup [type : {"event"}, op : 1..MaxWork]
Messages ==
    {Hello, Welcome} \cup [type : {"state:update"}, snapshot : Snapshots]

Signals == [from : Peers, to : Peers \cup {Everyone}, message : Messages]

\* The types of the variables; the queue holds EventLimit events at most.
TypeOK ==
    /\ link \in [Peers -> Links]
    /\ connectedOnce \in [Peers -> BOOLEAN]
    /\ shown \in [Peers -> Snapshots]
    /\ synced \in [Peers -> Snapshots]
    /\ queue \in [Peers -> Seq(Entries)]
    /\ \A p \in Peers :
           Cardinality({i \in DOMAIN queue[p] : queue[p][i].type = "event"})
               <= EventLimit
    /\ timer \in [Peers -> BOOLEAN]
    /\ window \in [Peers -> BOOLEAN]
    /\ outbox \in [Peers -> Seq(Signals)]
    /\ inbox \in [Peers -> Seq(Signals)]
    /\ clock \in Nat
    /\ ops \in 0..MaxWork
    /\ work \in ops..MaxWork
    /\ log \in [Peers -> Seq(1..MaxWork)]

\* What a peer shows is the last snapshot it shares with the others with its
\* queued mutations made over it, whatever arrived between these, was dropped or
\* replayed: the UI neither loses an unsaved change nor keeps a dropped one.
ShownIsProjection == \A p \in Peers : shown[p] = Project(synced[p], queue[p])

\* No lost wake-up: while a connected room has something to replay, or has yet to
\* say that it is online again, its timer is set.  The timer is cancelled by a
\* loss and by disconnect, and an operation may be queued at any moment between.
ReplayArmed ==
    \A p \in Peers : link[p] = "up" /\ (queue[p] # <<>> \/ window[p]) => timer[p]

\* A peer sends its mutations and events in the order in which they were made:
\* none overtakes those still queued, not even one made after the reconnection.
InAppendOrder ==
    \A p \in Peers : \A i, j \in DOMAIN log[p] : i < j => log[p][i] < log[p][j]

Quiet ==
    /\ \A p \in Peers : outbox[p] = <<>> /\ inbox[p] = <<>>
    /\ \A p \in Peers : Running(p) => link[p] = "up" /\ queue[p] = <<>>

\* At rest all connected peers show the same state: those that were away, whose
\* signals were lost, that came late or were reloaded, too.  A room that has
\* mutations to replay tells newcomers nothing until then.  It holds for rooms of
\* two peers.  Of three, each may keep the other of two snapshots, because Newer
\* is not transitive, and a newcomer that was told nothing may hear nothing at the
\* end of the replay either, if all that was queued was dropped.
Converged ==
    Quiet => \A p, q \in Peers : Running(p) /\ Running(q) => shown[p] = shown[q]

HasUndo(q) ==
    \E i \in DOMAIN q : q[i].type = "state" /\ q[i].mutation.kind = "undo"

\* A queued mutation is dropped at its replay only if it lost against what the
\* others wrote in the meantime: those replayed before it do not make it stale.
\* It says nothing of a queue with an undo, which may be possible over one snapshot
\* and not over another: what follows it was not made over the same mutations.
OnlyStaleDropped ==
    [][\A p \in Peers : Running(p)' /\ queue'[p] = <<>> /\ ~HasUndo(queue[p]) =>
        \A i \in DOMAIN queue[p] : LET e == queue[p][i] IN
            e.type = "state" =>
                \/ e.mutation.op \in ToSet(log'[p])
                \/ ~Newer(e.snapshot, synced[p])]_vars

\* A room that stays connected replays its queue and emits 'online': it is not
\* for ever connected with either left to do.
Recovers ==
    \A p \in Peers : []<>(link[p] = "up" => queue[p] = <<>> /\ ~window[p])
=============================================================================
