---------------------------- MODULE RelayPolling ----------------------------
(***************************************************************************)
(* HTTP polling: the sessions of a relay, packages/relay/src/server.ts,    *)
(* and the adapters that hold them, packages/core/src/transports/          *)
(* polling.ts, as the room uses them.  One relay and one room; the other   *)
(* peers poll too.                                                         *)
(*                                                                         *)
(* A handler of the relay runs from one await to the next.  The            *)
(* coordinator is one for one relay: a join or leave takes effect in the   *)
(* order of the calls, and the awaits resume later.  A join resumes after  *)
(* the joins called before it; a leave, whose promise is one link longer,  *)
(* after everything called before it.                                      *)
(*                                                                         *)
(* Time is counted in ticks.  Timers fire in the tick in which they are    *)
(* due, a sweep is over in the tick in which it began, and the requests    *)
(* and answers of a client that polls take at most Latency ticks.          *)
(***************************************************************************)
EXTENDS Naturals, Sequences, FiniteSets

CONSTANTS
    Adapters,       \* PollingTransportAdapters: each connects once, and its sessionId
                    \* is known by the adapter's name
    Peers,          \* peer ids
    Owner,          \* the peer of each adapter
    Frames,         \* transport frames, each sent once: bounds a behaviour
    PollTimeout,    \* DEFAULT_POLL_TIMEOUT_MS, as asked of the relay
    IdleTimeout,    \* POLLING_IDLE_TIMEOUT_MS
    SweepPeriod,    \* POLLING_CLEANUP_INTERVAL_MS
    Latency,        \* ticks a request or an answer of a polling client takes
    MaxFaults,      \* bound: requests and answers lost, pages gone
    NoAdapter

ASSUME AdaptersOfPeers == Owner \in [Adapters -> Peers] /\ NoAdapter \notin Adapters
ASSUME PollsOutrunTheSweep ==
    /\ {PollTimeout, IdleTimeout, SweepPeriod} \subseteq Nat \ {0} /\ {Latency, MaxFaults} \subseteq Nat
    /\ PollTimeout + 2 * Latency < IdleTimeout

VARIABLES
    (* clients *)
    client,         \* per adapter: what it is at
    roster,         \* per adapter: peerCapabilities, as the answer to the join has it
    (* requests and answers on their way *)
    join,           \* per adapter: its POST of the join
    poll,           \* per adapter: its GET of events
    event,          \* per adapter: the message in the answer to it
    delete,         \* per adapter: its DELETE
    post,           \* per frame: its POST
    sender,         \* per frame: the adapter that sent it
    (* the relay *)
    session,        \* per adapter: "open" if in pollingSessions
    seat,           \* per peer: its session in pollingRooms
    queue,          \* per session: messages that wait for a poll
    idle,           \* per session: ticks since lastSeenAt
    sweepIn,        \* ticks to the next sweep
    doomed,         \* expiredSessionIds of the sweep that runs
    registry,       \* peers the coordinator has in the room
    awaiting,       \* calls of the coordinator whose awaits have not resumed
    (* time, bounds and history *)
    wait,           \* per adapter: ticks since its poll or join was sent or answered
    faults,
    owed,           \* per open session: messages meant for it that its client has yet
                    \* to handle
    misled          \* peers of whom a frame was passed on after they left

clientVars == <<client, roster>>
httpVars == <<join, poll, event, delete>>
postVars == <<post, sender>>
sessionVars == <<session, seat, registry, awaiting>>
mailVars == <<queue, idle, owed>>
sweepVars == <<sweepIn, doomed>>
vars == <<clientVars, httpVars, postVars, sessionVars, mailVars, sweepVars, wait, faults, misled>>
-----------------------------------------------------------------------------
Call(op, a) == [op |-> op, adapter |-> a]
Message(type, p) == [type |-> type, peer |-> p]

Open == {a \in Adapters : session[a] = "open"}
Fault == faults < MaxFaults /\ faults' = faults + 1

Init ==
    /\ client = [a \in Adapters |-> "idle"]
    /\ roster = [a \in Adapters |-> {}]
    /\ join = [a \in Adapters |-> "none"]
    /\ poll = [a \in Adapters |-> "none"]
    /\ event = [a \in Adapters |-> <<>>]
    /\ delete = [a \in Adapters |-> "none"]
    /\ post = [f \in Frames |-> "new"]
    /\ sender = [f \in Frames |-> NoAdapter]
    /\ session = [a \in Adapters |-> "none"]
    /\ seat = [p \in Peers |-> NoAdapter]
    /\ queue = [a \in Adapters |-> <<>>]
    /\ idle = [a \in Adapters |-> 0]
    /\ sweepIn = SweepPeriod
    /\ doomed = {}
    /\ registry = {}
    /\ awaiting = <<>>
    /\ wait = [a \in Adapters |-> 0]
    /\ faults = 0
    /\ owed = [a \in Adapters |-> <<>>]
    /\ misled = {}
-----------------------------------------------------------------------------
\* What the relay does to its sessions.

\* An answer goes nowhere when its client is gone.
Answer(a, answer) == IF client[a] = "gone" THEN "none" ELSE answer

PollAnswer(a, answer) == IF client[a] = "polling" THEN answer ELSE "none"

\* queuePollingMessage, for each session in hearers: it is seen now, and the message
\* answers its pending poll or joins its queue.
Queue(hearers, message) ==
    LET polled == {a \in hearers : poll[a] = "pending"}
    IN  /\ idle' = [a \in Adapters |-> IF a \in hearers THEN 0 ELSE idle[a]]
        /\ poll' = [a \in Adapters |-> IF a \in polled THEN PollAnswer(a, "answered") ELSE poll[a]]
        /\ event' = [a \in Adapters |-> IF a \in polled /\ client[a] = "polling" THEN <<message>> ELSE event[a]]
        /\ wait' = [a \in Adapters |-> IF a \in polled THEN 0 ELSE wait[a]]
        /\ queue' = [a \in Adapters |->
               IF a \in hearers \ polled THEN Append(queue[a], message) ELSE queue[a]]

\* A slip to detect: only to the sessions that poll right now.
HearersPolling(p) ==
    {a \in Adapters : poll[a] = "pending" /\ \E q \in Peers \ {p} : seat[q] = a}

Hearers(p) == {seat[q] : q \in Peers \ {p}} \ {NoAdapter}

\* broadcastToLocalPollingRoom, forwardTransport: to every session of pollingRooms but
\* the one of the peer it is about.
Broadcast(message) ==
    /\ Queue(Hearers(message.peer), message)
    /\ owed' = [a \in Adapters |->
           IF a \in Open /\ Owner[a] # message.peer THEN Append(owed[a], message) ELSE owed[a]]

\* A slip to detect: the pending poll is left to its timer.
HungUp(a) == poll[a]

EndedPoll(a) == IF poll[a] = "pending" THEN PollAnswer(a, "refused") ELSE poll[a]

\* removePollingSession, up to the await of coordinator.leave.
RemoveSession(a) ==
    /\ session' = [session EXCEPT ![a] = "removing"]
    /\ seat' = [seat EXCEPT ![Owner[a]] = NoAdapter]
    /\ poll' = [poll EXCEPT ![a] = EndedPoll(a)]
    /\ wait' = [wait EXCEPT ![a] = IF poll[a] = "pending" THEN 0 ELSE @]
    /\ registry' = registry \ {Owner[a]}
    /\ awaiting' = Append(awaiting, Call("leave", a))
    /\ queue' = [queue EXCEPT ![a] = <<>>]
    /\ idle' = [idle EXCEPT ![a] = 0]
    /\ owed' = [owed EXCEPT ![a] = <<>>]

\* ...and from there on: the others are told, and a DELETE that asked for it answered.
LeaveResumes(a) ==
    /\ awaiting # <<>> /\ Head(awaiting) = Call("leave", a)
    /\ awaiting' = Tail(awaiting)
    /\ session' = [session EXCEPT ![a] = "removed"]
    /\ delete' = [delete EXCEPT ![a] = IF @ = "removing" THEN Answer(a, "answered") ELSE @]
    /\ Broadcast(Message("peer-left", Owner[a]))
    /\ UNCHANGED <<clientVars, join, postVars, seat, registry, sweepVars, faults, misled>>
\* The end of an adapter.  What it sent and has not arrived never does; the relay has yet
\* to notice that a pending poll was closed.
Forget(a) ==
    /\ client' = [client EXCEPT ![a] = "gone"]
    /\ roster' = [roster EXCEPT ![a] = {}]
    /\ join' = [join EXCEPT ![a] = IF @ = "asked" THEN @ ELSE "none"]
    /\ poll' = [poll EXCEPT ![a] = IF @ = "pending" THEN @ ELSE "none"]
    /\ event' = [event EXCEPT ![a] = <<>>]
    /\ delete' = [delete EXCEPT ![a] = IF @ = "removing" THEN @ ELSE "none"]
    /\ wait' = [wait EXCEPT ![a] = IF poll[a] = "pending" THEN @ ELSE 0]
-----------------------------------------------------------------------------
\* Joining.

\* connect, of an adapter the room made after it was done with the one before.
Connect(a) ==
    /\ client[a] = "idle"
    /\ \A b \in Adapters : Owner[b] = Owner[a] => client[b] \in {"idle", "gone"}
    /\ client' = [client EXCEPT ![a] = "joining"]
    /\ join' = [join EXCEPT ![a] = "sent"]
    /\ UNCHANGED <<roster, poll, event, delete, postVars, sessionVars, mailVars,
                   sweepVars, wait, faults, misled>>

\* handlePollingJoinRequest, up to the await of coordinator.join.
JoinArrives(a) ==
    /\ join[a] = "sent"
    /\ IF Owner[a] \in registry
         THEN /\ join' = [join EXCEPT ![a] = "refused"]
              /\ UNCHANGED <<roster, registry, awaiting>>
         ELSE /\ join' = [join EXCEPT ![a] = "asked"]
              /\ roster' = [roster EXCEPT ![a] = registry]
              /\ registry' = registry \cup {Owner[a]}
              /\ awaiting' = Append(awaiting, Call("join", a))
    /\ UNCHANGED <<client, poll, event, delete, postVars, session, seat, mailVars,
                   sweepVars, wait, faults, misled>>

\* ...and from there on: the session is added, the client answered, the others told.
JoinResumes(a) ==
    /\ join[a] = "asked"
    /\ \E i \in DOMAIN awaiting :
           /\ awaiting[i] = Call("join", a)
           /\ \A k \in 1..i - 1 : awaiting[k].op = "leave"
           /\ awaiting' = SubSeq(awaiting, 1, i - 1) \o SubSeq(awaiting, i + 1, Len(awaiting))
    /\ session' = [session EXCEPT ![a] = "open"]
    /\ seat' = [seat EXCEPT ![Owner[a]] = a]
    /\ join' = [join EXCEPT ![a] = Answer(a, "answered")]
    /\ Broadcast(Message("peer-joined", Owner[a]))
    /\ UNCHANGED <<clientVars, delete, postVars, registry, sweepVars, faults, misled>>

\* connectInternal resumes and starts the poll loop.
Joined(a) ==
    /\ client[a] = "joining" /\ join[a] = "answered"
    /\ client' = [client EXCEPT ![a] = "polling"]
    /\ join' = [join EXCEPT ![a] = "none"]
    /\ poll' = [poll EXCEPT ![a] = "sent"]
    /\ wait' = [wait EXCEPT ![a] = 0]
    /\ UNCHANGED <<roster, event, delete, postVars, sessionVars, mailVars,
                   sweepVars, faults, misled>>

\* The join is refused, or it or its answer is lost: connect fails, and knows no session
\* to delete.
JoinFails(a) ==
    /\ client[a] = "joining"
    /\ \/ join[a] = "refused" /\ UNCHANGED faults
       \/ Fault
    /\ Forget(a)
    /\ UNCHANGED <<postVars, sessionVars, mailVars, sweepVars, misled>>
-----------------------------------------------------------------------------
\* The long poll.

\* A slip to detect: the newest message first.
Newest(messages) == messages[Len(messages)]

Oldest(messages) == Head(messages)

\* handlePollingEventsRequest.  The loop has one poll at a time, so that none finds
\* another pending.
PollArrives(a) ==
    /\ poll[a] = "sent"
    /\ wait' = [wait EXCEPT ![a] = 0]
    /\ IF a \notin Open
         THEN /\ poll' = [poll EXCEPT ![a] = "refused"]
              /\ UNCHANGED <<event, queue, idle>>
         ELSE /\ idle' = [idle EXCEPT ![a] = 0]
              /\ IF queue[a] # <<>>
                   THEN /\ poll' = [poll EXCEPT ![a] = "answered"]
                        /\ event' = [event EXCEPT ![a] = <<Oldest(queue[a])>>]
                        /\ queue' = [queue EXCEPT ![a] = Tail(@)]
                   ELSE /\ poll' = [poll EXCEPT ![a] = "pending"]
                        /\ UNCHANGED <<event, queue>>
    /\ UNCHANGED <<clientVars, join, delete, postVars, sessionVars, owed, sweepVars, faults, misled>>

\* The timer of a pending poll answers 204.
PollTimesOut(a) ==
    /\ poll[a] = "pending" /\ wait[a] = PollTimeout
    /\ poll' = [poll EXCEPT ![a] = PollAnswer(a, "empty")]
    /\ wait' = [wait EXCEPT ![a] = 0]
    /\ UNCHANGED <<clientVars, join, event, delete, postVars, sessionVars, mailVars, sweepVars,
                   faults, misled>>

\* The relay notices that a pending poll was closed by the client.
PollCloses(a) ==
    /\ poll[a] = "pending" /\ client[a] # "polling"
    /\ poll' = [poll EXCEPT ![a] = "none"]
    /\ wait' = [wait EXCEPT ![a] = 0]
    /\ UNCHANGED <<clientVars, join, event, delete, postVars, sessionVars, mailVars, sweepVars,
                   faults, misled>>

\* handleServerMessage: what a message does to the peers the adapter knows.
Known(known, message) ==
    IF message.type = "peer-left" THEN known \ {message.peer} ELSE known \cup {message.peer}

\* pollLoop has an answer, an event or none, and polls again.
HandleAnswer(a) ==
    /\ client[a] = "polling" /\ poll[a] \in {"answered", "empty"}
    /\ owed' = [owed EXCEPT ![a] = IF event[a] = <<>> \/ @ = <<>> THEN @ ELSE Tail(@)]
    /\ roster' = [roster EXCEPT ![a] = IF event[a] = <<>> THEN @ ELSE Known(@, Head(event[a]))]
    /\ event' = [event EXCEPT ![a] = <<>>]
    /\ poll' = [poll EXCEPT ![a] = "sent"]
    /\ wait' = [wait EXCEPT ![a] = 0]
    /\ UNCHANGED <<client, join, delete, postVars, sessionVars, queue, idle, sweepVars, faults,
                   misled>>

\* disconnect: the poll is aborted, of which the relay learns if it was pending, and the
\* session deleted.
Close(a) ==
    /\ client' = [client EXCEPT ![a] = "leaving"]
    /\ poll' = [poll EXCEPT ![a] = IF @ = "pending" THEN @ ELSE "none"]
    /\ event' = [event EXCEPT ![a] = <<>>]
    /\ delete' = [delete EXCEPT ![a] = "sent"]
    /\ roster' = [roster EXCEPT ![a] = {}]
    /\ wait' = [wait EXCEPT ![a] = IF poll[a] = "pending" THEN @ ELSE 0]
    /\ UNCHANGED <<join, sessionVars, mailVars, sweepVars, misled>>

Disconnect(a) ==
    /\ client[a] = "polling"
    /\ Close(a)
    /\ UNCHANGED <<postVars, faults>>

\* A poll is refused, or it or its answer is lost: handleTransportFailure, upon which the
\* room disconnects the adapter.
PollFails(a) ==
    /\ client[a] = "polling"
    /\ \/ poll[a] = "refused" /\ UNCHANGED faults
       \/ Fault
    /\ Close(a)
    /\ UNCHANGED postVars
-----------------------------------------------------------------------------
\* Sending.

Done(f) == post' = [post EXCEPT ![f] = "done"] /\ sender' = [sender EXCEPT ![f] = NoAdapter]

\* sendSignal, here of a hello.
Send(f, a) ==
    /\ client[a] = "polling" /\ post[f] = "new"
    /\ post' = [post EXCEPT ![f] = "sent"]
    /\ sender' = [sender EXCEPT ![f] = a]
    /\ UNCHANGED <<clientVars, httpVars, sessionVars, mailVars, sweepVars, wait, faults, misled>>

\* handlePollingMessageRequest, up to the await of the request's body.
PostArrives(f) ==
    LET a == sender[f]
    IN  /\ post[f] = "sent"
        /\ IF a \in Open
             THEN /\ post' = [post EXCEPT ![f] = "reading"]
                  /\ idle' = [idle EXCEPT ![a] = 0]
             ELSE /\ post' = [post EXCEPT ![f] = "refused"]
                  /\ UNCHANGED idle
        /\ UNCHANGED <<clientVars, httpVars, sender, sessionVars, queue, owed, sweepVars, wait,
                       faults, misled>>

\* ...and from there on, with the session it found before.
PostRead(f) ==
    LET a == sender[f]
    IN  /\ post[f] = "reading"
        /\ Done(f)
        /\ Broadcast(Message("hello", Owner[a]))
        /\ misled' = IF a \in Open THEN misled ELSE misled \cup {Owner[a]}
        /\ UNCHANGED <<clientVars, join, delete, sessionVars, sweepVars, faults>>

\* The frame is refused: handleTransportFailure, unless the adapter was done anyway.
PostRefused(f) ==
    LET a == sender[f]
    IN  /\ post[f] = "refused"
        /\ Done(f)
        /\ IF client[a] = "polling"
             THEN Close(a)
             ELSE UNCHANGED <<clientVars, httpVars, sessionVars, mailVars, sweepVars, wait, misled>>
        /\ UNCHANGED faults

\* The frame or its refusal is lost, which nobody is told.
PostLost(f) ==
    /\ post[f] \in {"sent", "refused"}
    /\ Fault
    /\ Done(f)
    /\ UNCHANGED <<clientVars, httpVars, sessionVars, mailVars, sweepVars, wait, misled>>
-----------------------------------------------------------------------------
\* Leaving.

\* handlePollingDeleteRequest.
DeleteArrives(a) ==
    /\ delete[a] = "sent"
    /\ IF a \in Open
         THEN /\ delete' = [delete EXCEPT ![a] = "removing"]
              /\ RemoveSession(a)
         ELSE /\ delete' = [delete EXCEPT ![a] = "answered"]
              /\ UNCHANGED <<sessionVars, mailVars, poll, wait>>
    /\ UNCHANGED <<clientVars, join, event, postVars, sweepVars, faults, misled>>

\* The DELETE is answered, or it or its answer is lost: the room is done with the adapter.
Closed(a) ==
    /\ client[a] = "leaving"
    /\ \/ delete[a] = "answered" /\ UNCHANGED faults
       \/ Fault
    /\ Forget(a)
    /\ UNCHANGED <<postVars, sessionVars, mailVars, sweepVars, misled>>

\* The page is closed or crashes.
Vanish(a) ==
    /\ client[a] \in {"joining", "polling", "leaving"}
    /\ Fault
    /\ Forget(a)
    /\ UNCHANGED <<postVars, sessionVars, mailVars, sweepVars, misled>>
-----------------------------------------------------------------------------
\* The sweep.

\* Slips to detect: a sweep too early, and never before the queue was read.
ExpiredEarly == {a \in Open : idle[a] + SweepPeriod >= IdleTimeout}
ExpiredWhenRead == {a \in Open : idle[a] >= IdleTimeout /\ queue[a] = <<>>}

Expired == {a \in Open : idle[a] >= IdleTimeout}

\* cleanupExpiredPollingSessions lists the sessions it will remove...
Sweep ==
    /\ sweepIn = 0
    /\ sweepIn' = SweepPeriod
    /\ doomed' = doomed \cup Expired
    /\ UNCHANGED <<clientVars, httpVars, postVars, sessionVars, mailVars, wait, faults, misled>>

\* ...and removes them one by one, whatever has become of them.
SweepRemoves(a) ==
    /\ a \in doomed
    /\ doomed' = doomed \ {a}
    /\ IF a \in Open THEN RemoveSession(a) ELSE UNCHANGED <<sessionVars, mailVars, poll, wait>>
    /\ UNCHANGED <<clientVars, join, event, delete, postVars, sweepIn, faults, misled>>
-----------------------------------------------------------------------------
\* What a tick would make too late: answers to a client that waits, and timers.
OnTime(a) ==
    /\ client[a] = "joining" /\ join[a] = "answered" => wait[a] < Latency
    /\ client[a] = "polling" /\ poll[a] # "pending" => wait[a] < Latency
    /\ poll[a] = "pending" => wait[a] < PollTimeout

Waits(a) ==
    \/ client[a] = "joining" /\ join[a] = "answered"
    \/ client[a] = "polling"
    \/ poll[a] = "pending"

Tick ==
    /\ \A a \in Adapters : OnTime(a)
    /\ sweepIn > 0 /\ doomed = {}
    /\ wait' = [a \in Adapters |-> IF Waits(a) THEN wait[a] + 1 ELSE wait[a]]
    /\ idle' = [a \in Adapters |-> IF a \in Open THEN idle[a] + 1 ELSE idle[a]]
    /\ sweepIn' = sweepIn - 1
    /\ UNCHANGED <<clientVars, httpVars, postVars, sessionVars, queue, owed, doomed, faults,
                   misled>>

JoinStep(a) == JoinArrives(a) \/ JoinResumes(a) \/ Joined(a) \/ JoinFails(a)
PollStep(a) == PollArrives(a) \/ PollTimesOut(a) \/ PollCloses(a) \/ HandleAnswer(a) \/ PollFails(a)
LeaveStep(a) == DeleteArrives(a) \/ LeaveResumes(a) \/ Closed(a) \/ SweepRemoves(a)
PostStep(f) == PostArrives(f) \/ PostRead(f) \/ PostRefused(f) \/ PostLost(f)

Next ==
    \/ \E a \in Adapters :
           \/ Connect(a) \/ Disconnect(a) \/ Vanish(a)
           \/ JoinStep(a) \/ PollStep(a) \/ LeaveStep(a)
           \/ \E f \in Frames : Send(f, a)
    \/ \E f \in Frames : PostStep(f)
    \/ Sweep
    \/ Tick

Spec == Init /\ [][Next]_vars
-----------------------------------------------------------------------------
Messages == [type : {"peer-joined", "peer-left", "hello"}, peer : Peers]

\* Types; a poll that is pending is the session's, which has nothing else to say.
TypeOK ==
    /\ client \in [Adapters -> {"idle", "joining", "polling", "leaving", "gone"}]
    /\ roster \in [Adapters -> SUBSET Peers]
    /\ join \in [Adapters -> {"none", "sent", "asked", "answered", "refused"}]
    /\ poll \in [Adapters -> {"none", "sent", "pending", "answered", "empty", "refused"}]
    /\ event \in [Adapters -> {<<>>} \cup {<<m>> : m \in Messages}]
    /\ delete \in [Adapters -> {"none", "sent", "removing", "answered"}]
    /\ post \in [Frames -> {"new", "sent", "reading", "refused", "done"}]
    /\ sender \in [Frames -> Adapters \cup {NoAdapter}]
    /\ session \in [Adapters -> {"none", "open", "removing", "removed"}]
    /\ seat \in [Peers -> Adapters \cup {NoAdapter}]
    /\ queue \in [Adapters -> Seq(Messages)]
    /\ idle \in [Adapters -> Nat]
    /\ sweepIn \in 0..SweepPeriod
    /\ doomed \subseteq Adapters
    /\ registry \subseteq Peers
    /\ awaiting \in Seq([op : {"join", "leave"}, adapter : Adapters])
    /\ wait \in [Adapters -> Nat]
    /\ faults \in 0..MaxFaults
    /\ owed \in [Adapters -> Seq(Messages)]
    /\ misled \subseteq Peers
    /\ \A a \in Adapters : poll[a] = "pending" => a \in Open /\ queue[a] = <<>>

\* A client that polls has heard what its session was told, in that order and once, but
\* for the answer on its way and the messages that wait for its next poll.
HeardInOrder ==
    \A a \in Adapters : client[a] = "polling" /\ a \in Open =>
        owed[a] = event[a] \o queue[a]

\* The sweep never lists the session of a client that polls.
PollersKept == \A a \in doomed : client[a] # "polling"

\* A client that has heard everything knows nobody who is not in the room.
NoGhostPeers ==
    \A a \in Adapters :
        client[a] = "polling" /\ a \in Open /\ awaiting = <<>> /\ event[a] = <<>> /\ queue[a] = <<>>
            => roster[a] \subseteq registry \cup misled

\* A peer id is taken only by a session that polls, or one that the relay last saw or wrote
\* to less than the timeout and a sweep ago, or a join about to be answered: a peer
\* whose page or answer was lost can come back.
LockoutBounded ==
    \A p \in registry : \E a \in Adapters :
        /\ Owner[a] = p
        /\ \/ join[a] = "asked"
           \/ seat[p] = a /\ a \in Open /\ idle[a] < IdleTimeout + SweepPeriod
=============================================================================
