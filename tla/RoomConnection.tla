--------------------------- MODULE RoomConnection ---------------------------
(***************************************************************************)
(* The connection of one room: connect, disconnect, the loss of a          *)
(* transport and the reconnect loop of packages/core/src/room.ts.          *)
(*                                                                         *)
(* Each of the four is an async function, and all of them share the fields *)
(* currentStatus, transport, transportUnsubscribe, connectionPromise and   *)
(* reconnectPromise.  One action is what one of them does between two      *)
(* awaits.  Three things order these stretches.  While the room emits      *)
(* 'offline' nothing runs but the listeners, which may call connect and    *)
(* disconnect.  A continuation whose promise is settled runs before        *)
(* anything arrives from outside.  Everything else comes in any order.     *)
(*                                                                         *)
(* An adapter nobody refers to any more is garbage, and its name is taken  *)
(* again by the next attempt: the room may connect without end.            *)
(***************************************************************************)
EXTENDS Naturals

CONSTANTS
    Adapters,          \* transport adapters
    NoAdapter,         \* the null in a field that holds an adapter
    Calls,             \* disconnect calls that may run at once
    MaxAttempts        \* reconnectOptions.maxAttempts

ASSUME NoAdapterIsNone == NoAdapter \notin Adapters
ASSUME AttemptsPositive == MaxAttempts \in Nat \ {0}

VARIABLES
    options,        \* the room's options: automatic reconnect, encryption, fallback
                    \* from WebSocket to polling
    status,         \* currentStatus
    transport,      \* the transport field
    unsubscribe,    \* the adapter whose listener transportUnsubscribe removes
    connectedOnce,  \* hasConnectedBefore
    sticky,         \* websocketFallbackTransportPreference: polling at once
    timer,          \* ephemeralTimer is set: the room is to end by itself
    adapter,        \* what each adapter is doing
    subscribed,     \* the adapters the room listens to
    connecting,     \* the adapter connectInternal awaits: connectionPromise
    loop,           \* runReconnectLoop: reconnectPromise
    losing,         \* handleTransportDisconnectedSignal, for each adapter lost
    leaving,        \* the disconnect calls
    lastCall,       \* what the user asked for last (history)
    crossed         \* did a disconnect ever meet a loss or another disconnect? (history)

fields == <<transport, unsubscribe, subscribed>>
vars == <<options, status, fields, connectedOnce, sticky, timer, adapter, connecting,
          loop, losing, leaving, lastCall, crossed>>
ends == <<sticky, timer>>

Options == [reconnect : BOOLEAN, encrypted : BOOLEAN, fallback : BOOLEAN]
Statuses == {"idle", "connecting", "connected", "reconnecting",
             "disconnected", "error"}
\* An adapter that is being opened, through WebSocket or through polling.
Opening == {"connecting", "polling"}
AdapterStates == Opening \cup {"closed", "open", "lost"}
LossStages == {"none", "queued", "emitting", "closing"}
LeaveStages == {"none", "awaitReconnect", "reconnectSettled", "awaitConnect",
                "connectSettled", "flush", "closing", "failed"}
Loop == [pc : {"none", "delay", "opening", "disposing"},
         attempt : 0..MaxAttempts,
         adapter : Adapters \cup {NoAdapter},
         aborted : BOOLEAN]

NoLoop == [pc |-> "none", attempt |-> 0, adapter |-> NoAdapter, aborted |-> FALSE]

\* Every field keeps its type, and the loop makes no more than maxAttempts.
TypeOK ==
    /\ options \in Options
    /\ status \in Statuses
    /\ transport \in Adapters \cup {NoAdapter}
    /\ unsubscribe \in Adapters \cup {NoAdapter}
    /\ connectedOnce \in BOOLEAN
    /\ sticky \in BOOLEAN
    /\ timer \in BOOLEAN
    /\ adapter \in [Adapters -> AdapterStates]
    /\ subscribed \subseteq Adapters
    /\ connecting \in Adapters \cup {NoAdapter}
    /\ loop \in Loop
    /\ losing \in [Adapters -> LossStages]
    /\ leaving \in [Calls -> LeaveStages]
    /\ lastCall \in {"none", "connect", "disconnect"}
    /\ crossed \in BOOLEAN

Init ==
    /\ options \in Options
    /\ status = "idle"
    /\ transport = NoAdapter
    /\ unsubscribe = NoAdapter
    /\ connectedOnce = FALSE
    /\ sticky = FALSE
    /\ timer \in BOOLEAN
    /\ adapter = [a \in Adapters |-> "closed"]
    /\ subscribed = {}
    /\ connecting = NoAdapter
    /\ loop = NoLoop
    /\ losing = [a \in Adapters |-> "none"]
    /\ leaving = [d \in Calls |-> "none"]
    /\ lastCall = "none"
    /\ crossed = FALSE

----------------------------------------------------------------------------
(* Who may run *)

\* A listener of 'offline' is running: the room is inside emit.
Emitting == \E a \in Adapters : losing[a] = "emitting"

NoLoss == \A a \in Adapters : losing[a] = "none"
NobodyLeaves == \A d \in Calls : leaving[d] \in {"none", "failed"}

Reconnecting == loop.pc # "none"
Connecting == connecting # NoAdapter

\* A continuation is ready.  Without encryption the outbound queue is settled.
MicrotaskReady ==
    \/ loop.pc = "delay" /\ loop.aborted
    \/ \E d \in Calls :
        \/ leaving[d] \in {"reconnectSettled", "connectSettled"}
        \/ leaving[d] = "flush" /\ ~options.encrypted

\* A promise settles: the disconnect calls that await it can go on.
Settle(stage, settled) ==
    leaving' = [d \in Calls |-> IF leaving[d] = stage THEN settled ELSE leaving[d]]

Microtask == ~Emitting
Task == ~Emitting /\ ~MicrotaskReady

\* A new adapter: one that nothing refers to.
Fresh(a) ==
    /\ adapter[a] \in {"closed", "lost"}
    /\ losing[a] = "none"
    /\ a \notin {transport, unsubscribe, connecting, loop.adapter}

\* openTransportAttempt takes a polling adapter at once if the last connection
\* was one, or if there is no WebSocket to begin with.
Open(a) ==
    /\ Fresh(a)
    /\ \/ ~sticky /\ adapter' = [adapter EXCEPT ![a] = "connecting"]
       \/ (sticky \/ options.fallback) /\ adapter' = [adapter EXCEPT ![a] = "polling"]
    /\ subscribed' = subscribed \cup {a}

\* ... and one instead of a WebSocket that was blocked or unreachable.
FallBack(a, b) ==
    /\ options.fallback /\ adapter[a] = "connecting"
    /\ Fresh(b)
    /\ adapter' = [adapter EXCEPT ![a] = "closed", ![b] = "polling"]
    /\ subscribed' = (subscribed \ {a}) \cup {b}

----------------------------------------------------------------------------
(* connect *)

\* connectInternal up to the await of the new adapter.
Connect ==
    /\ status # "connected" /\ ~Reconnecting /\ ~Connecting
    /\ \E a \in Adapters :
        /\ Open(a)
        /\ connecting' = a
    /\ status' = "connecting"
    /\ lastCall' = "connect"
    /\ UNCHANGED <<options, transport, unsubscribe, connectedOnce, ends, loop, losing, leaving,
                   crossed>>

\* The early returns of connect: connected, or already on the way.
ConnectReturns ==
    /\ status = "connected" \/ Reconnecting \/ Connecting
    /\ lastCall' = "connect"
    /\ UNCHANGED <<options, status, fields, connectedOnce, ends, adapter, connecting,
                   loop, losing, leaving, crossed>>

\* activateConnectedTransport
Activate(a) ==
    /\ adapter' = [adapter EXCEPT ![a] = "open"]
    /\ transport' = a
    /\ unsubscribe' = a
    /\ connectedOnce' = TRUE
    /\ sticky' = (adapter[a] = "polling")
    /\ status' = "connected"
    /\ UNCHANGED subscribed

ConnectSucceeds ==
    /\ Task /\ Connecting
    /\ Activate(connecting)
    /\ connecting' = NoAdapter
    /\ Settle("awaitConnect", "connectSettled")
    /\ UNCHANGED <<options, timer, loop, losing, lastCall, crossed>>

ConnectFallsBack ==
    /\ Task /\ Connecting
    /\ \E b \in Adapters : FallBack(connecting, b) /\ connecting' = b
    /\ UNCHANGED <<options, status, transport, unsubscribe, connectedOnce, ends, loop,
                   losing, leaving, lastCall, crossed>>

\* The adapter's connect rejects, then failInitialConnect.
ConnectFails ==
    /\ Task /\ Connecting
    /\ adapter' = [adapter EXCEPT ![connecting] = "closed"]
    /\ subscribed' = subscribed \ {connecting, unsubscribe}
    /\ unsubscribe' = NoAdapter
    /\ transport' = NoAdapter
    /\ connecting' = NoAdapter
    /\ status' = "error"
    /\ Settle("awaitConnect", "connectSettled")
    /\ UNCHANGED <<options, connectedOnce, ends, loop, losing, lastCall, crossed>>

----------------------------------------------------------------------------
(* The loss of a transport *)

\* The early return of handleTransportDisconnectedSignal, or the emission of
\* 'offline'.  (The room emits it once per outage; where it does not, this is
\* the stage of a listener that calls nothing.)
LossHandled ==
    IF transport = NoAdapter /\ status \in {"disconnected", "reconnecting"}
    THEN "none"
    ELSE "emitting"

\* The adapter of an open connection emits transport:disconnected.  It is
\* handled at once or, with encryption, queued.
LoseConnection(a) ==
    /\ Task
    /\ adapter[a] = "open"
    /\ crossed' = (crossed \/ ~NobodyLeaves)
    /\ adapter' = [adapter EXCEPT ![a] = "lost"]
    /\ losing' = IF a \in subscribed
                 THEN [losing EXCEPT ![a] = IF options.encrypted THEN "queued"
                                                                ELSE LossHandled]
                 ELSE losing
    /\ UNCHANGED <<options, status, fields, connectedOnce, ends, connecting, loop,
                   leaving, lastCall>>

\* The inbound queue handles one signal at a time, to the end.
HandleLoss(a) ==
    /\ Task
    /\ losing[a] = "queued"
    /\ \A b \in Adapters : losing[b] # "closing"
    /\ losing' = [losing EXCEPT ![a] = LossHandled]
    /\ UNCHANGED <<options, status, fields, connectedOnce, ends, adapter, connecting,
                   loop, leaving, lastCall, crossed>>

ShouldAutoReconnect == options.reconnect /\ connectedOnce /\ ~Reconnecting

\* A slip: the status stays when no loop starts.
EndLossInSilence ==
    IF ShouldAutoReconnect
    THEN /\ status' = "reconnecting"
         /\ loop' = [NoLoop EXCEPT !.pc = "delay", !.attempt = 1]
    ELSE UNCHANGED <<status, loop>>

\* The end of the handler: the peers are marked, and the loop starts if wanted.
EndLoss ==
    IF ShouldAutoReconnect
    THEN /\ status' = "reconnecting"
         /\ loop' = [NoLoop EXCEPT !.pc = "delay", !.attempt = 1]
    ELSE /\ status' = "disconnected"
         /\ UNCHANGED loop

\* After the emission: the fields are cleared and the adapter is closed.  With
\* no adapter to close there is no await.
DropTransport(a) ==
    /\ losing[a] = "emitting"
    /\ subscribed' = subscribed \ {unsubscribe}
    /\ unsubscribe' = NoAdapter
    /\ transport' = NoAdapter
    /\ IF transport # NoAdapter
       THEN /\ adapter' = [adapter EXCEPT ![transport] = "closed"]
            /\ losing' = [losing EXCEPT ![a] = "closing"]
            /\ UNCHANGED <<status, loop>>
       ELSE /\ losing' = [losing EXCEPT ![a] = "none"]
            /\ EndLoss
            /\ UNCHANGED adapter
    /\ UNCHANGED <<options, connectedOnce, ends, connecting, leaving, lastCall, crossed>>

LossClosed(a) ==
    /\ Task
    /\ losing[a] = "closing"
    /\ losing' = [losing EXCEPT ![a] = "none"]
    /\ EndLoss
    /\ UNCHANGED <<options, fields, connectedOnce, ends, adapter, connecting, leaving, lastCall, crossed>>

----------------------------------------------------------------------------
(* runReconnectLoop *)

\* A slip: whoever awaits reconnectPromise waits on.
EndLoopUnsettled == loop' = NoLoop /\ UNCHANGED leaving

\* The return of runReconnectLoop settles reconnectPromise.
EndLoop ==
    /\ loop' = NoLoop
    /\ Settle("awaitReconnect", "reconnectSettled")

\* The delay is over and the next attempt opens a new adapter.
LoopOpens ==
    /\ Task
    /\ loop.pc = "delay" /\ ~loop.aborted
    /\ \E a \in Adapters :
        /\ Open(a)
        /\ loop' = [loop EXCEPT !.pc = "opening", !.adapter = a]
    /\ UNCHANGED <<options, status, transport, unsubscribe, connectedOnce, ends,
                   connecting, losing, leaving, lastCall, crossed>>

\* The attempt goes on with polling, also when the loop was aborted meanwhile.
LoopFallsBack ==
    /\ Task
    /\ loop.pc = "opening"
    /\ \E b \in Adapters :
        /\ FallBack(loop.adapter, b)
        /\ loop' = [loop EXCEPT !.adapter = b]
    /\ UNCHANGED <<options, status, transport, unsubscribe, connectedOnce, ends,
                   connecting, losing, leaving, lastCall, crossed>>

\* delayWithAbort rejects.
LoopAborted ==
    /\ Microtask
    /\ loop.pc = "delay" /\ loop.aborted
    /\ EndLoop
    /\ UNCHANGED <<options, status, fields, connectedOnce, ends, adapter, connecting,
                   losing, lastCall, crossed>>

LoopSucceeds ==
    /\ Task
    /\ loop.pc = "opening" /\ ~loop.aborted
    /\ Activate(loop.adapter)
    /\ EndLoop
    /\ UNCHANGED <<options, timer, connecting, losing, lastCall, crossed>>

\* A slip: the adapter of an aborted attempt is dropped as it is.
LoopForgets ==
    /\ Task
    /\ loop.pc = "opening" /\ loop.aborted
    /\ loop' = [loop EXCEPT !.pc = "disposing"]
    /\ UNCHANGED <<options, status, fields, connectedOnce, ends, adapter, connecting,
                   losing, leaving, lastCall, crossed>>

\* disposeTransportAttempt: the attempt came through after the abort.
LoopDisposes ==
    /\ Task
    /\ loop.pc = "opening" /\ loop.aborted
    /\ adapter' = [adapter EXCEPT ![loop.adapter] = "closed"]
    /\ subscribed' = subscribed \ {loop.adapter}
    /\ loop' = [loop EXCEPT !.pc = "disposing"]
    /\ UNCHANGED <<options, status, transport, unsubscribe, connectedOnce, ends,
                   connecting, losing, leaving, lastCall, crossed>>

LoopDisposed ==
    /\ Task
    /\ loop.pc = "disposing"
    /\ EndLoop
    /\ UNCHANGED <<options, status, fields, connectedOnce, ends, adapter, connecting,
                   losing, lastCall, crossed>>

\* A slip: one attempt too many.
LastAttemptOverrun == loop.attempt > MaxAttempts
LastAttempt == loop.attempt = MaxAttempts

\* An attempt fails: the next one, or the end of an aborted or exhausted loop.
LoopFails ==
    /\ Task
    /\ loop.pc = "opening"
    /\ adapter' = [adapter EXCEPT ![loop.adapter] = "closed"]
    /\ subscribed' = subscribed \ {loop.adapter}
    /\ \/ /\ LastAttempt
          /\ EndLoop
          /\ status' = "disconnected"
       \/ /\ ~LastAttempt /\ loop.aborted
          /\ EndLoop
          /\ UNCHANGED status
       \/ /\ ~LastAttempt /\ ~loop.aborted
          /\ loop' = [loop EXCEPT !.pc = "delay", !.attempt = @ + 1, !.adapter = NoAdapter]
          /\ status' = "reconnecting"
          /\ UNCHANGED leaving
    /\ UNCHANGED <<options, transport, unsubscribe, connectedOnce, ends, connecting,
                   losing, lastCall, crossed>>

----------------------------------------------------------------------------
(* disconnect *)

\* Two slips: no look at the transport; no status without one.
GoOnBlindly(d) == leaving' = [leaving EXCEPT ![d] = "flush"] /\ UNCHANGED status
GoOnInSilence(d) ==
    /\ leaving' = [leaving EXCEPT ![d] = IF transport = NoAdapter THEN "none" ELSE "flush"]
    /\ UNCHANGED status

\* What disconnect does when neither promise is pending (any more).
GoOn(d) ==
    IF transport = NoAdapter
    THEN /\ status' = "disconnected"
         /\ leaving' = [leaving EXCEPT ![d] = "none"]
    ELSE /\ leaving' = [leaving EXCEPT ![d] = "flush"]
         /\ UNCHANGED status

\* A slip: connectionPromise is not awaited.
GoOnAtOnce(d) == GoOn(d)

GoOnOrAwaitConnect(d) ==
    IF Connecting
    THEN /\ leaving' = [leaving EXCEPT ![d] = "awaitConnect"]
         /\ UNCHANGED status
    ELSE GoOn(d)

\* cancelReconnect, no timer and no preference, then the first pending promise.
Disconnect(d) ==
    /\ leaving[d] \in {"none", "failed"}
    /\ crossed' = (crossed \/ ~NoLoss \/ ~NobodyLeaves)
    /\ lastCall' = "disconnect"
    /\ timer' = FALSE
    /\ sticky' = FALSE
    /\ IF Reconnecting
       THEN /\ loop' = [loop EXCEPT !.aborted = TRUE]
            /\ leaving' = [leaving EXCEPT ![d] = "awaitReconnect"]
            /\ UNCHANGED status
       ELSE /\ GoOnOrAwaitConnect(d)
            /\ UNCHANGED loop
    /\ UNCHANGED <<options, fields, connectedOnce, adapter, connecting, losing>>

\* The time of an ephemeral room is over.
Expire(d) == Task /\ timer /\ Disconnect(d)

ReconnectSettled(d) ==
    /\ Microtask
    /\ leaving[d] = "reconnectSettled"
    /\ GoOnOrAwaitConnect(d)
    /\ UNCHANGED <<options, fields, connectedOnce, ends, adapter, connecting, loop,
                   losing, lastCall, crossed>>

ConnectSettled(d) ==
    /\ Microtask
    /\ leaving[d] = "connectSettled"
    /\ GoOn(d)
    /\ UNCHANGED <<options, fields, connectedOnce, ends, adapter, connecting, loop,
                   losing, lastCall, crossed>>

\* After flushOutboundSignalQueue.  The field is read again: when it has become
\* null meanwhile, the call of its disconnect method throws.
Flushed(d) ==
    /\ IF options.encrypted THEN Task ELSE Microtask
    /\ leaving[d] = "flush"
    /\ subscribed' = subscribed \ {unsubscribe}
    /\ unsubscribe' = NoAdapter
    /\ IF transport = NoAdapter
       THEN /\ leaving' = [leaving EXCEPT ![d] = "failed"]
            /\ UNCHANGED adapter
       ELSE /\ leaving' = [leaving EXCEPT ![d] = "closing"]
            /\ adapter' = [adapter EXCEPT ![transport] = "closed"]
    /\ UNCHANGED <<options, status, transport, connectedOnce, ends, connecting, loop,
                   losing, lastCall, crossed>>

\* The adapter is closed: the call resolves.
Closed(d) ==
    /\ Task
    /\ leaving[d] = "closing"
    /\ transport' = NoAdapter
    /\ status' = "disconnected"
    /\ leaving' = [leaving EXCEPT ![d] = "none"]
    /\ UNCHANGED <<options, unsubscribe, subscribed, connectedOnce, ends, adapter,
                   connecting, loop, losing, lastCall, crossed>>

----------------------------------------------------------------------------
UserCalls == Connect \/ ConnectReturns \/ \E d \in Calls : Disconnect(d)

ConnectStep == ConnectSucceeds \/ ConnectFallsBack \/ ConnectFails

LossStep(a) == HandleLoss(a) \/ DropTransport(a) \/ LossClosed(a)

LoopStep ==
    \/ LoopOpens \/ LoopFallsBack \/ LoopAborted \/ LoopSucceeds \/ LoopDisposes \/ LoopDisposed
    \/ LoopFails

LeaveStep(d) == ReconnectSettled(d) \/ ConnectSettled(d) \/ Flushed(d) \/ Closed(d)

Next ==
    \/ UserCalls
    \/ ConnectStep
    \/ \E a \in Adapters : LoseConnection(a) \/ LossStep(a)
    \/ LoopStep
    \/ \E d \in Calls : Expire(d) \/ LeaveStep(d)

Spec == Init /\ [][Next]_vars

\* Timers fire and adapters answer or fail, and an await that is over goes on,
\* however often a listener or a microtask runs first.  Nothing makes a user
\* call, or a connection break.
Fairness ==
    /\ SF_vars(ConnectStep)
    /\ SF_vars(LoopStep)
    /\ \A a \in Adapters : SF_vars(LossStep(a))
    /\ \A d \in Calls : SF_vars(LeaveStep(d))

FairSpec == Spec /\ Fairness

----------------------------------------------------------------------------
(* Properties *)

AtRest == ~Reconnecting /\ ~Connecting /\ NoLoss /\ NobodyLeaves

\* The user's last word was disconnect, and every disconnect resolved.
Left == lastCall = "disconnect" /\ \A d \in Calls : leaving[d] = "none"

\* A room its user left stays left: it is disconnected, and no adapter is open
\* or being opened.  This is what disconnect() promises when it resolves.  The
\* code does not keep it: disconnect knows of no handler of a lost transport
\* that is still under way, and that handler starts the reconnect loop after it.
LeftStaysLeft ==
    Left =>
        /\ status = "disconnected"
        /\ transport = NoAdapter
        /\ ~Reconnecting
        /\ \A a \in Adapters : adapter[a] \notin Opening \cup {"open"}

\* What disconnect does give: a room stays left if no disconnect was ever made
\* during the handling of a loss or during another disconnect.  Connects, a
\* reconnect loop at any of its awaits and later losses do not bring it back.
OrderlyLeaveLasts == ~crossed => LeftStaysLeft

\* disconnect reads this.transport again after the flush; as long as it has not
\* met a loss or another disconnect the field is still set and it does not throw.
DisconnectSucceeds == ~crossed => \A d \in Calls : leaving[d] # "failed"

\* At rest, a room that says it is connected has an open transport it listens
\* to, and would hear of its loss, whatever calls and losses crossed.
ConnectedIsLive ==
    AtRest /\ status = "connected" =>
        /\ transport # NoAdapter
        /\ adapter[transport] = "open"
        /\ transport \in subscribed

\* The room keeps hold of every adapter it opens: the open one is in the
\* transport field and one being opened is awaited by connect or by the loop.
\* The rest were closed, those of failed and of aborted attempts too.
NoLeak ==
    ~crossed => \A a \in Adapters :
        /\ adapter[a] = "open" => a = transport
        /\ adapter[a] \in Opening => a \in {connecting, loop.adapter}

\* A room does not stay connecting or reconnecting: maxAttempts bounds the loop,
\* and a disconnect that aborts it sets the status itself.
AttemptsEnd ==
    status \in {"connecting", "reconnecting"} ~>
        status \in {"connected", "disconnected", "error"}

\* Every disconnect ends, though it awaits the loop, a connect, the flush and
\* the adapter one after the other, and may fail when it met a loss.
DisconnectEnds ==
    \A d \in Calls :
        leaving[d] \notin {"none", "failed"} ~> leaving[d] \in {"none", "failed"}
=============================================================================
