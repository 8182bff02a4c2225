----------------------- MODULE RoomConnection_proofs -----------------------
(***************************************************************************)
(* Proofs about RoomConnection, for every set of adapters and of calls and *)
(* every bound on attempts: the types, what a disconnect gives that met    *)
(* neither a loss nor another disconnect, and that a room which says it is *)
(* connected is, whatever it met.                                          *)
(***************************************************************************)
EXTENDS RoomConnection, TLAPS

----------------------------------------------------------------------------
(* The inductive invariant *)

Active(d) == leaving[d] \notin {"none", "failed"}

\* Nothing connects, reconnects or is lost.
Quiet == ~Reconnecting /\ ~Connecting /\ NoLoss

\* The connection of a room in use: one status, one adapter, nothing pending.
HeldTransport ==
    transport # NoAdapter => status = "connected" /\ ~Reconnecting /\ ~Connecting

OneAttempt == ~(Reconnecting /\ Connecting)

LoopAdapter ==
    /\ loop.pc \in {"none", "delay"} => loop.adapter = NoAdapter
    /\ loop.pc = "opening" => loop.adapter \in Adapters

\* What each adapter is doing, by the field that holds it.
AdaptersHeld ==
    /\ Connecting => adapter[connecting] \in Opening
    /\ loop.pc = "opening" => adapter[loop.adapter] \in Opening
    /\ \A a \in Adapters :
        /\ adapter[a] = "open" => a = transport /\ a \in subscribed
        /\ adapter[a] \in Opening =>
            /\ \/ a = connecting
               \/ a = loop.adapter /\ loop.pc = "opening"
            /\ a \in subscribed /\ a # unsubscribe

\* A loss is handled alone, and holds the room in status connected.
LossAlone ==
    \A a \in Adapters : losing[a] # "none" =>
        /\ status = "connected" /\ ~Reconnecting /\ ~Connecting
        /\ losing[a] \in {"queued", "emitting"} => transport = a /\ adapter[a] = "lost"
        /\ losing[a] = "closing" => transport = NoAdapter
        /\ \A b \in Adapters : losing[b] # "none" => b = a

\* A disconnect runs alone too, and its stage tells what is pending.
LeaveAlone ==
    \A d \in Calls :
        /\ leaving[d] # "failed"
        /\ Active(d) =>
            /\ NoLoss
            /\ \A e \in Calls : Active(e) => e = d
        /\ leaving[d] = "awaitReconnect" => Reconnecting /\ loop.aborted
        /\ Active(d) /\ leaving[d] # "awaitReconnect" => ~Reconnecting
        /\ leaving[d] = "connectSettled" /\ lastCall = "disconnect" => ~Connecting
        /\ leaving[d] \in {"flush", "closing"} => transport # NoAdapter
        /\ leaving[d] = "closing" => adapter[transport] = "closed"

\* The room was left for good.
RoomLeft ==
    lastCall = "disconnect" /\ (\A d \in Calls : ~Active(d)) =>
        status = "disconnected" /\ transport = NoAdapter /\ Quiet

Orderly ==
    HeldTransport /\ OneAttempt /\ LoopAdapter /\ AdaptersHeld /\ LossAlone /\
    LeaveAlone /\ RoomLeft

IInv == TypeOK /\ (~crossed => Orderly)

----------------------------------------------------------------------------
(* Types *)

\* The loop's record before the loop and at its first delay.
LEMMA LoopStarts ==
    /\ NoLoop \in Loop
    /\ [NoLoop EXCEPT !.pc = "delay", !.attempt = 1] \in Loop
<1>1. 0 \in 0..MaxAttempts /\ 1 \in 0..MaxAttempts
  BY AttemptsPositive
<1> QED
  BY <1>1 DEF NoLoop, Loop

\* The record as the loop goes on.
LEMMA LoopOpening ==
    ASSUME NEW l \in Loop, NEW a \in Adapters
    PROVE  [l EXCEPT !.pc = "opening", !.adapter = a] \in Loop
  BY DEF Loop

(* A loop that opens the fallback is a loop. *)
LEMMA LoopFallingBack ==
    ASSUME NEW l \in Loop, NEW b \in Adapters
    PROVE  [l EXCEPT !.adapter = b] \in Loop
  BY DEF Loop

(* So is one that is disposed of or aborted, and its adapter is one or none. *)
LEMMA LoopEnding ==
    ASSUME NEW l \in Loop
    PROVE  /\ [l EXCEPT !.pc = "disposing"] \in Loop
           /\ [l EXCEPT !.aborted = TRUE] \in Loop
           /\ l.adapter \in Adapters \cup {NoAdapter}
  BY DEF Loop

(* So is one that tries again, unless it has used its last attempt. *)
LEMMA LoopRetries ==
    ASSUME NEW l \in Loop, l.attempt # MaxAttempts
    PROVE  [l EXCEPT !.pc = "delay", !.attempt = @ + 1, !.adapter = NoAdapter] \in Loop
<1>1. l.attempt + 1 \in 0..MaxAttempts
  BY AttemptsPositive DEF Loop
<1> QED
  BY <1>1 DEF Loop

\* No step takes a field out of its type or the loop beyond maxAttempts.
LEMMA TypeStep == TypeOK /\ [Next]_vars => TypeOK'
<1> SUFFICES ASSUME TypeOK, [Next]_vars PROVE TypeOK'
  OBVIOUS
<1> USE AttemptsPositive, NoAdapterIsNone, LoopStarts DEF TypeOK, Options, Statuses, Opening, AdapterStates,
        LossStages, LeaveStages, fields, ends
<1>1. CASE Connect
  BY <1>1 DEF Connect, Open, Fresh
<1>2. CASE ConnectReturns
  BY <1>2 DEF ConnectReturns
<1>3. CASE ConnectSucceeds
  BY <1>3 DEF ConnectSucceeds, Activate, Settle
<1>4. CASE ConnectFails
  BY <1>4 DEF ConnectFails, Settle
<1>5. ASSUME NEW a \in Adapters, LoseConnection(a) PROVE TypeOK'
  BY <1>5 DEF LoseConnection, LossHandled
<1>6. ASSUME NEW a \in Adapters, HandleLoss(a) PROVE TypeOK'
  BY <1>6 DEF HandleLoss, LossHandled
<1>7. ASSUME NEW a \in Adapters, DropTransport(a) PROVE TypeOK'
  BY <1>7 DEF DropTransport, EndLoss, ShouldAutoReconnect
<1>8. ASSUME NEW a \in Adapters, LossClosed(a) PROVE TypeOK'
  BY <1>8 DEF LossClosed, EndLoss, ShouldAutoReconnect
<1>9. CASE LoopOpens
  <2>1. PICK a \in Adapters :
            Open(a) /\ loop' = [loop EXCEPT !.pc = "opening", !.adapter = a]
    BY <1>9 DEF LoopOpens
  <2>2. loop' \in Loop
    BY <2>1, LoopOpening
  <2> QED
    BY <1>9, <2>1, <2>2 DEF LoopOpens, Open
<1>10. CASE LoopAborted
  BY <1>10 DEF LoopAborted, EndLoop, Settle
<1>11. CASE LoopSucceeds
  BY <1>11, LoopEnding DEF LoopSucceeds, Activate, EndLoop, Settle
<1>12. CASE LoopDisposes
  <2>1. loop' \in Loop
    BY <1>12, LoopEnding DEF LoopDisposes
  <2>2. adapter' \in [Adapters -> AdapterStates] /\ subscribed' \subseteq Adapters
    BY <1>12 DEF LoopDisposes
  <2>3. UNCHANGED <<options, status, transport, unsubscribe, connectedOnce, ends,
                    connecting, losing, leaving, lastCall, crossed>>
    BY <1>12 DEF LoopDisposes
  <2> QED
    BY <2>1, <2>2, <2>3
<1>13. CASE LoopDisposed
  BY <1>13 DEF LoopDisposed, EndLoop, Settle
<1>14. CASE LoopFails
  <2>1. loop' \in Loop
    BY <1>14, LoopRetries DEF LoopFails, EndLoop, LastAttempt
  <2>2. leaving' \in [Calls -> LeaveStages]
    BY <1>14 DEF LoopFails, EndLoop, Settle
  <2>3. status' \in Statuses
    BY <1>14 DEF LoopFails
  <2>4. adapter' \in [Adapters -> AdapterStates] /\ subscribed' \subseteq Adapters
    BY <1>14 DEF LoopFails
  <2>5. UNCHANGED <<options, transport, unsubscribe, connectedOnce, ends, connecting,
                    losing, lastCall, crossed>>
    BY <1>14 DEF LoopFails
  <2> QED
    BY <2>1, <2>2, <2>3, <2>4, <2>5
<1>15. ASSUME NEW d \in Calls, Disconnect(d) PROVE TypeOK'
  <2>1. loop' \in Loop
    BY <1>15, LoopEnding DEF Disconnect
  <2> QED
    BY <1>15, <2>1 DEF Disconnect, GoOnOrAwaitConnect, GoOn
<1>16. ASSUME NEW d \in Calls, ReconnectSettled(d) PROVE TypeOK'
  BY <1>16 DEF ReconnectSettled, GoOnOrAwaitConnect, GoOn
<1>17. ASSUME NEW d \in Calls, ConnectSettled(d) PROVE TypeOK'
  BY <1>17 DEF ConnectSettled, GoOn
<1>18. ASSUME NEW d \in Calls, Flushed(d) PROVE TypeOK'
  BY <1>18 DEF Flushed
<1>19. ASSUME NEW d \in Calls, Closed(d) PROVE TypeOK'
  BY <1>19 DEF Closed
<1>20. ASSUME NEW d \in Calls, Expire(d) PROVE TypeOK'
  BY <1>15, <1>20 DEF Expire
<1>21. CASE ConnectFallsBack
  BY <1>21 DEF ConnectFallsBack, FallBack
<1>22. CASE LoopFallsBack
  <2>1. PICK b \in Adapters : FallBack(loop.adapter, b) /\ loop' = [loop EXCEPT !.adapter = b]
    BY <1>22 DEF LoopFallsBack
  <2>2. loop' \in Loop
    BY <2>1, LoopFallingBack
  <2> QED
    BY <1>22, <2>1, <2>2 DEF LoopFallsBack, FallBack
<1>23. CASE UNCHANGED vars
  BY <1>23 DEF vars
<1> QED
  BY <1>1, <1>2, <1>3, <1>4, <1>5, <1>6, <1>7, <1>8, <1>9, <1>10, <1>11, <1>12, <1>13, <1>14, <1>15, <1>16, <1>17, <1>18, <1>19,
     <1>20, <1>21, <1>22, <1>23 DEF Next, ConnectStep, UserCalls, LossStep, LoopStep, LeaveStep

\* Type correctness: the fields of a room keep their types, and its reconnect
\* loop makes at most maxAttempts attempts.
THEOREM TypeCorrect == Spec => []TypeOK
<1>1. Init => TypeOK
  BY LoopStarts DEF Init, TypeOK, Options, Statuses, Opening, AdapterStates, LossStages, LeaveStages
<1> QED
  BY <1>1, TypeStep, PTL DEF Spec

----------------------------------------------------------------------------
(* The orderly room *)

\* As long as no disconnect meets a loss or another disconnect, every step keeps
\* the room orderly.
LEMMA OrderlyStep ==
    TypeOK /\ Orderly /\ [Next]_vars /\ ~crossed /\ ~crossed' => Orderly'
<1> SUFFICES ASSUME TypeOK, Orderly, [Next]_vars, ~crossed, ~crossed' PROVE Orderly'
  OBVIOUS
<1> USE NoAdapterIsNone DEF TypeOK, Loop, LossStages, Opening, fields, ends, Orderly, HeldTransport, OneAttempt,
        LoopAdapter, AdaptersHeld, LossAlone, LeaveAlone, RoomLeft, Active, Quiet,
        NoLoss, Reconnecting, Connecting
<1>1. CASE Connect
  BY <1>1 DEF Connect, Open, Fresh
<1>2. CASE ConnectReturns
  BY <1>2 DEF ConnectReturns
<1>3. CASE ConnectSucceeds
  BY <1>3 DEF ConnectSucceeds, Activate, Settle
<1>4. CASE ConnectFails
  BY <1>4 DEF ConnectFails, Settle
<1>5. ASSUME NEW a \in Adapters, LoseConnection(a) PROVE Orderly'
  <2>1. AdaptersHeld'
    BY <1>5 DEF LoseConnection, LossHandled, NobodyLeaves
  <2>2. LossAlone'
    BY <1>5 DEF LoseConnection, LossHandled, NobodyLeaves
  <2>3. \A d \in Calls : leaving'[d] = "none"
    BY <1>5 DEF LoseConnection, NobodyLeaves
  <2>4. lastCall' # "disconnect"
    BY <1>5, <2>3 DEF LoseConnection
  <2> QED
    BY <1>5, <2>1, <2>2, <2>3, <2>4 DEF LoseConnection
<1>6. ASSUME NEW a \in Adapters, HandleLoss(a) PROVE Orderly'
  BY <1>6 DEF HandleLoss, LossHandled
<1>7. ASSUME NEW a \in Adapters, DropTransport(a) PROVE Orderly'
  BY <1>7 DEF DropTransport, EndLoss, ShouldAutoReconnect, NoLoop
<1>8. ASSUME NEW a \in Adapters, LossClosed(a) PROVE Orderly'
  <2>a. losing[a] = "closing" /\ transport = NoAdapter /\ ~Connecting
    BY <1>8 DEF LossClosed
  <2>b. losing' = [losing EXCEPT ![a] = "none"]
        /\ UNCHANGED <<transport, unsubscribe, subscribed, adapter, connecting, leaving, lastCall>>
    BY <1>8 DEF LossClosed
  <2>c. loop' = loop \/ loop' = [NoLoop EXCEPT !.pc = "delay", !.attempt = 1]
    BY <1>8 DEF LossClosed, EndLoss
  <2>d. loop'.pc \in {"none", "delay"} /\ loop'.adapter = NoAdapter
    BY <2>a, <2>c, <1>8 DEF LossClosed, NoLoop
  <2>1. (HeldTransport /\ OneAttempt /\ LoopAdapter)'
    BY <2>a, <2>b, <2>d
  <2>2. AdaptersHeld'
    BY <2>a, <2>b, <2>d
  <2>e. NoLoss'
    BY <2>a, <2>b
  <2>f. \A d \in Calls : ~Active(d) /\ leaving[d] # "failed"
    BY <2>a
  <2>3. (LossAlone /\ LeaveAlone)'
    BY <2>b, <2>e, <2>f
  <2>4. RoomLeft'
    BY <1>8 DEF LossClosed, EndLoss, ShouldAutoReconnect, NoLoop
  <2> QED
    BY <2>1, <2>2, <2>3, <2>4
<1>9. CASE LoopOpens
  BY <1>9 DEF LoopOpens, Open, Fresh
<1>10. CASE LoopAborted
  BY <1>10 DEF LoopAborted, EndLoop, NoLoop, Settle
<1>11. CASE LoopSucceeds
  BY <1>11 DEF LoopSucceeds, Activate, EndLoop, NoLoop, Settle
<1>12. CASE LoopDisposes
  BY <1>12 DEF LoopDisposes
<1>13. CASE LoopDisposed
  BY <1>13 DEF LoopDisposed, EndLoop, NoLoop, Settle
<1>14. CASE LoopFails
  <2>a. loop'.pc \in {"none", "delay"} /\ loop'.adapter = NoAdapter
    <3>1. CASE loop' = NoLoop
      BY <3>1 DEF NoLoop
    <3>2. CASE loop' = [loop EXCEPT !.pc = "delay", !.attempt = @ + 1, !.adapter = NoAdapter]
      BY <3>2
    <3> QED
      BY <1>14, <3>1, <3>2 DEF LoopFails, EndLoop
  <2>1. HeldTransport'
    BY <1>14 DEF LoopFails, EndLoop, NoLoop, Settle, LastAttempt
  <2>2. OneAttempt'
    BY <1>14 DEF LoopFails, EndLoop, NoLoop, Settle, LastAttempt
  <2>3. LoopAdapter'
    BY <2>a
  <2>4. AdaptersHeld'
    <3>1. adapter' = [adapter EXCEPT ![loop.adapter] = "closed"]
          /\ subscribed' = subscribed \ {loop.adapter}
          /\ UNCHANGED <<transport, unsubscribe, connecting>>
      BY <1>14 DEF LoopFails
    <3>2. loop'.pc # "opening" /\ ~Connecting /\ transport = NoAdapter
      BY <1>14, <2>a DEF LoopFails
    <3> QED
      BY <1>14, <3>1, <3>2 DEF LoopFails
  <2>5. LossAlone'
    BY <1>14 DEF LoopFails, EndLoop, NoLoop, Settle, LastAttempt
  <2>6. LeaveAlone'
    BY <1>14 DEF LoopFails, EndLoop, NoLoop, Settle, LastAttempt
  <2>7. RoomLeft'
    BY <1>14 DEF LoopFails, EndLoop, NoLoop, Settle, LastAttempt
  <2> QED
    BY <2>1, <2>2, <2>3, <2>4, <2>5, <2>6, <2>7
<1>15. ASSUME NEW d \in Calls, Disconnect(d) PROVE Orderly'
  <2> USE DEF NobodyLeaves
  <2>a. NoLoss /\ (\A e \in Calls : leaving[e] = "none") /\ lastCall' = "disconnect"
    <3>1. NoLoss /\ NobodyLeaves /\ lastCall' = "disconnect"
      BY <1>15 DEF Disconnect
    <3> QED
      BY <3>1
  <2>b. CASE Reconnecting
    <3>1. loop'.aborted /\ loop'.pc = loop.pc /\ loop'.adapter = loop.adapter
      BY <1>15, <2>b DEF Disconnect
    <3>2. leaving' = [leaving EXCEPT ![d] = "awaitReconnect"]
      BY <1>15, <2>b DEF Disconnect
    <3> QED
      BY <1>15, <2>a, <2>b, <3>1, <3>2 DEF Disconnect
  <2>c. CASE ~Reconnecting /\ Connecting
    <3>1. leaving' = [leaving EXCEPT ![d] = "awaitConnect"] /\ UNCHANGED <<status, loop>>
      BY <1>15, <2>c DEF Disconnect, GoOnOrAwaitConnect
    <3> QED
      BY <1>15, <2>a, <2>c, <3>1 DEF Disconnect
  <2>d. CASE ~Reconnecting /\ ~Connecting /\ transport = NoAdapter
    <3>1. status' = "disconnected" /\ leaving' = leaving /\ loop' = loop
      BY <1>15, <2>a, <2>d DEF Disconnect, GoOnOrAwaitConnect, GoOn
    <3> QED
      BY <1>15, <2>a, <2>d, <3>1 DEF Disconnect
  <2>e. CASE ~Reconnecting /\ ~Connecting /\ transport # NoAdapter
    <3>1. leaving' = [leaving EXCEPT ![d] = "flush"] /\ UNCHANGED <<status, loop>>
      BY <1>15, <2>e DEF Disconnect, GoOnOrAwaitConnect, GoOn
    <3> QED
      BY <1>15, <2>a, <2>e, <3>1 DEF Disconnect
  <2> QED
    BY <2>b, <2>c, <2>d, <2>e
<1>16. ASSUME NEW d \in Calls, ReconnectSettled(d) PROVE Orderly'
  BY <1>16 DEF ReconnectSettled, GoOnOrAwaitConnect, GoOn
<1>17. ASSUME NEW d \in Calls, ConnectSettled(d) PROVE Orderly'
  BY <1>17 DEF ConnectSettled, GoOn
<1>18. ASSUME NEW d \in Calls, Flushed(d) PROVE Orderly'
  BY <1>18 DEF Flushed
<1>19. ASSUME NEW d \in Calls, Closed(d) PROVE Orderly'
  BY <1>19 DEF Closed
<1>20. ASSUME NEW d \in Calls, Expire(d) PROVE Orderly'
  BY <1>15, <1>20 DEF Expire
<1>21. CASE ConnectFallsBack
  BY <1>21 DEF ConnectFallsBack, FallBack, Fresh
<1>22. CASE LoopFallsBack
  BY <1>22 DEF LoopFallsBack, FallBack, Fresh
<1>23. CASE UNCHANGED vars
  BY <1>23 DEF vars
<1> QED
  BY <1>1, <1>2, <1>3, <1>4, <1>5, <1>6, <1>7, <1>8, <1>9, <1>10, <1>11, <1>12, <1>13, <1>14, <1>15, <1>16, <1>17, <1>18, <1>19,
     <1>20, <1>21, <1>22, <1>23 DEF Next, ConnectStep, UserCalls, LossStep, LoopStep, LeaveStep

\* The invariant holds in every reachable state: crossed, once true, stays so.
LEMMA Invariance == Spec => []IInv
<1>1. Init => IInv
  <2>1. Init => TypeOK
    BY LoopStarts DEF Init, TypeOK, Options, Statuses, Opening, AdapterStates, LossStages, LeaveStages
  <2>2. Init => Orderly
    BY DEF Init, Opening, Orderly, HeldTransport, OneAttempt, LoopAdapter, AdaptersHeld, LossAlone,
           LeaveAlone, RoomLeft, Active, Quiet, NoLoss, Reconnecting, Connecting, NoLoop
  <2> QED
    BY <2>1, <2>2 DEF IInv
<1>2. IInv /\ [Next]_vars => IInv'
  <2> SUFFICES ASSUME IInv, [Next]_vars PROVE IInv'
    OBVIOUS
  <2>1. TypeOK'
    BY TypeStep DEF IInv
  <2>2. crossed => crossed'
    BY DEF Next, UserCalls, LossStep, LoopStep, LeaveStep, vars, Connect, ConnectReturns,
           ConnectSucceeds, ConnectFails, LoseConnection, HandleLoss, DropTransport,
           LossClosed, LoopOpens, LoopAborted, LoopSucceeds, LoopDisposes, LoopDisposed,
           LoopFails, Disconnect, Expire, ConnectStep, ConnectFallsBack, LoopFallsBack, ReconnectSettled, ConnectSettled, Flushed, Closed
  <2> QED
    BY <2>1, <2>2, OrderlyStep DEF IInv
<1> QED
  BY <1>1, <1>2, PTL DEF Spec

\* A room its user left stays left, if no disconnect met a loss or another
\* disconnect: no await of connect or of the reconnect loop lets it come back.
THEOREM OrderlyLeave == Spec => []OrderlyLeaveLasts
<1>1. IInv => OrderlyLeaveLasts
  <2> SUFFICES ASSUME IInv, ~crossed, Left PROVE LeftStaysLeft
    BY DEF OrderlyLeaveLasts, LeftStaysLeft
  <2>1. status = "disconnected" /\ transport = NoAdapter /\ Quiet
    BY DEF IInv, Orderly, RoomLeft, Active, Left
  <2>2. ASSUME NEW a \in Adapters PROVE adapter[a] \notin Opening \cup {"open"}
    BY <2>1, <2>2, NoAdapterIsNone
       DEF IInv, Orderly, AdaptersHeld, Quiet, Reconnecting, Connecting
  <2> QED
    BY <2>1, <2>2 DEF LeftStaysLeft, Quiet
<1> QED
  BY <1>1, Invariance, PTL

\* A disconnect that met neither a loss nor another disconnect does not throw:
\* the transport is still there after the flush.
THEOREM OrderlyDisconnect == Spec => []DisconnectSucceeds
<1>1. IInv => DisconnectSucceeds
  BY DEF IInv, Orderly, LeaveAlone, DisconnectSucceeds
<1> QED
  BY <1>1, Invariance, PTL

\* The room holds every adapter that is open or being opened.
THEOREM AdaptersKept == Spec => []NoLeak
<1>1. IInv => NoLeak
  BY DEF IInv, Orderly, AdaptersHeld, NoLeak
<1> QED
  BY <1>1, Invariance, PTL
----------------------------------------------------------------------------
(* A room that says it is connected *)

\* The fields that hold an adapter hold different ones.
FieldsDiffer ==
    /\ Connecting => connecting \notin {transport, unsubscribe, loop.adapter}
    /\ loop.adapter # NoAdapter => loop.adapter \notin {transport, unsubscribe}

\* The room listens to what it is opening.
Attempts ==
    /\ Connecting => adapter[connecting] \in Opening /\ connecting \in subscribed
    /\ loop.pc = "opening" =>
        /\ loop.adapter \in Adapters
        /\ adapter[loop.adapter] \in Opening /\ loop.adapter \in subscribed

\* An adapter whose loss is being handled is not opened again.
LossesOver ==
    \A a \in Adapters : losing[a] # "none" => adapter[a] \in {"lost", "closed"}

\* A room without a transport, or with a dead one, has somebody to change its status:
\* the handler of the loss, or the disconnect that closed the adapter.
Accounted ==
    status = "connected" =>
        IF transport = NoAdapter
        THEN \E a \in Adapters : losing[a] = "closing"
        ELSE \/ adapter[transport] = "open" /\ transport \in subscribed
             \/ ~NoLoss
             \/ \E d \in Calls : leaving[d] = "closing"

LiveInv == FieldsDiffer /\ Attempts /\ LossesOver /\ Accounted

\* Every step keeps it, whatever crosses.
LEMMA LiveStep == TypeOK /\ LiveInv /\ [Next]_vars => LiveInv'
<1> SUFFICES ASSUME TypeOK, LiveInv, [Next]_vars PROVE LiveInv'
  OBVIOUS
<1> USE NoAdapterIsNone DEF TypeOK, Loop, LossStages, Opening, fields, ends, LiveInv, FieldsDiffer,
        Attempts, LossesOver, Accounted, NoLoss, Reconnecting, Connecting
<1>1. CASE Connect
  BY <1>1 DEF Connect, Open, Fresh
<1>2. CASE ConnectReturns
  BY <1>2 DEF ConnectReturns
<1>3. CASE ConnectSucceeds
  BY <1>3 DEF ConnectSucceeds, Activate, Settle
<1>4. CASE ConnectFails
  BY <1>4 DEF ConnectFails, Settle
<1>5. ASSUME NEW a \in Adapters, LoseConnection(a) PROVE LiveInv'
  BY <1>5 DEF LoseConnection, LossHandled
<1>6. ASSUME NEW a \in Adapters, HandleLoss(a) PROVE LiveInv'
  BY <1>6 DEF HandleLoss, LossHandled
<1>7. ASSUME NEW a \in Adapters, DropTransport(a) PROVE LiveInv'
  <2>1. CASE transport # NoAdapter
    <3>1. (FieldsDiffer /\ Attempts /\ LossesOver)'
      BY <1>7, <2>1 DEF DropTransport
    <3>2. transport' = NoAdapter /\ losing'[a] = "closing"
      BY <1>7, <2>1 DEF DropTransport
    <3> QED
      BY <3>1, <3>2
  <2>2. CASE transport = NoAdapter
    <3>1. status' # "connected"
      BY <1>7, <2>2 DEF DropTransport, EndLoss
    <3>2. (FieldsDiffer /\ Attempts /\ LossesOver)'
      BY <1>7, <2>2 DEF DropTransport, EndLoss, ShouldAutoReconnect, NoLoop
    <3> QED
      BY <3>1, <3>2
  <2> QED
    BY <2>1, <2>2
<1>8. ASSUME NEW a \in Adapters, LossClosed(a) PROVE LiveInv'
  BY <1>8 DEF LossClosed, EndLoss, ShouldAutoReconnect, NoLoop
<1>9. CASE LoopOpens
  BY <1>9 DEF LoopOpens, Open, Fresh
<1>10. CASE LoopFallsBack
  BY <1>10 DEF LoopFallsBack, FallBack, Fresh
<1>11. CASE LoopAborted
  BY <1>11 DEF LoopAborted, EndLoop, Settle, NoLoop
<1>12. CASE LoopSucceeds
  <2>1. loop'.pc = "none" /\ loop'.adapter = NoAdapter
    BY <1>12 DEF LoopSucceeds, EndLoop, NoLoop
  <2>2. (FieldsDiffer /\ Attempts)'
    BY <1>12, <2>1 DEF LoopSucceeds, Activate
  <2>3. LossesOver'
    BY <1>12 DEF LoopSucceeds, Activate
  <2>4. Accounted'
    <3>1. /\ transport' = loop.adapter /\ loop.adapter \in Adapters
          /\ adapter' = [adapter EXCEPT ![loop.adapter] = "open"]
          /\ subscribed' = subscribed /\ loop.adapter \in subscribed
      BY <1>12 DEF LoopSucceeds, Activate
    <3> QED
      BY <3>1
  <2> QED
    BY <2>2, <2>3, <2>4
<1>13. CASE LoopDisposes
  BY <1>13 DEF LoopDisposes
<1>14. CASE LoopDisposed
  BY <1>14 DEF LoopDisposed, EndLoop, Settle, NoLoop
<1>15. CASE LoopFails
  <2>1. /\ adapter' = [adapter EXCEPT ![loop.adapter] = "closed"]
        /\ subscribed' = subscribed \ {loop.adapter} /\ loop.pc = "opening"
        /\ UNCHANGED <<transport, unsubscribe, connecting, losing>>
    BY <1>15 DEF LoopFails
  <2>2. loop'.pc # "opening" /\ loop'.adapter = NoAdapter
    <3>1. CASE loop' = NoLoop
      BY <3>1 DEF NoLoop
    <3>2. CASE loop' = [loop EXCEPT !.pc = "delay", !.attempt = @ + 1, !.adapter = NoAdapter]
      BY <3>2
    <3> QED
      BY <1>15, <3>1, <3>2 DEF LoopFails, EndLoop
  <2>3. (FieldsDiffer /\ Attempts /\ LossesOver)'
    BY <2>1, <2>2
  <2>4. Accounted'
    <3>1. status' = status \/ status' # "connected"
      BY <1>15 DEF LoopFails
    <3>2. \A d \in Calls : leaving[d] = "closing" => leaving'[d] = "closing"
      BY <1>15 DEF LoopFails, EndLoop, Settle
    <3> QED
      BY <2>1, <3>1, <3>2
  <2> QED
    BY <2>3, <2>4
<1>16. ASSUME NEW d \in Calls, Disconnect(d) PROVE LiveInv'
  BY <1>16 DEF Disconnect, GoOnOrAwaitConnect, GoOn
<1>17. ASSUME NEW d \in Calls, ReconnectSettled(d) PROVE LiveInv'
  BY <1>17 DEF ReconnectSettled, GoOnOrAwaitConnect, GoOn
<1>18. ASSUME NEW d \in Calls, ConnectSettled(d) PROVE LiveInv'
  BY <1>18 DEF ConnectSettled, GoOn
<1>19. ASSUME NEW d \in Calls, Flushed(d) PROVE LiveInv'
  BY <1>19 DEF Flushed
<1>20. ASSUME NEW d \in Calls, Closed(d) PROVE LiveInv'
  BY <1>20 DEF Closed
<1>21. CASE ConnectFallsBack
  BY <1>21 DEF ConnectFallsBack, FallBack, Fresh
<1>22. CASE UNCHANGED vars
  BY <1>22 DEF vars
<1> QED
  BY <1>1, <1>2, <1>3, <1>4, <1>5, <1>6, <1>7, <1>8, <1>9, <1>10, <1>11, <1>12, <1>13, <1>14,
     <1>15, <1>16, <1>17, <1>18, <1>19, <1>20, <1>21, <1>22
  DEF Next, ConnectStep, UserCalls, LossStep, LoopStep, LeaveStep, Expire

\* At rest, a room that says it is connected has an open transport and listens to it,
\* whatever connects, disconnects, losses and reconnect loops crossed before.
THEOREM ConnectedLive == Spec => []ConnectedIsLive
<1>1. Init => LiveInv
  BY DEF Init, LiveInv, FieldsDiffer, Attempts, LossesOver, Accounted, Connecting, NoLoop, NoLoss
<1>2. TypeOK /\ LiveInv => ConnectedIsLive
  <2> SUFFICES ASSUME TypeOK, LiveInv, AtRest, status = "connected"
               PROVE  /\ transport # NoAdapter
                      /\ adapter[transport] = "open" /\ transport \in subscribed
    BY DEF ConnectedIsLive
  <2> QED
    BY DEF AtRest, NoLoss, NobodyLeaves, LiveInv, Accounted
<1> QED
  BY <1>1, <1>2, LiveStep, TypeCorrect, PTL DEF Spec
=============================================================================
