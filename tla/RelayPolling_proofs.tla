-------------------------- MODULE RelayPolling_proofs --------------------------
(***************************************************************************)
(* Proofs about RelayPolling, for every set of adapters, peers and frames, *)
(* every bound on faults and every choice of timeouts in which a poll and  *)
(* its two ways over the wire are shorter than the idle timeout.           *)
(***************************************************************************)
EXTENDS RelayPolling, SequenceTheorems, TLAPS

Calls == [op : {"join", "leave"}, adapter : Adapters]
Events == {<<>>} \cup {<<m>> : m \in Messages}

Sent == \A f \in Frames : post[f] \in {"sent", "reading", "refused"} => sender[f] \in Adapters

(* The types of TypeOK, and that a frame under way has a sender. *)
Typed ==
  /\ client \in [Adapters -> {"idle", "joining", "polling", "leaving", "gone"}]
  /\ roster \in [Adapters -> SUBSET Peers]
  /\ join \in [Adapters -> {"none", "sent", "asked", "answered", "refused"}]
  /\ poll \in [Adapters -> {"none", "sent", "pending", "answered", "empty", "refused"}]
  /\ event \in [Adapters -> Events]
  /\ delete \in [Adapters -> {"none", "sent", "removing", "answered"}]
  /\ post \in [Frames -> {"new", "sent", "reading", "refused", "done"}]
  /\ sender \in [Frames -> Adapters \cup {NoAdapter}]
  /\ Sent
  /\ session \in [Adapters -> {"none", "open", "removing", "removed"}]
  /\ seat \in [Peers -> Adapters \cup {NoAdapter}]
  /\ queue \in [Adapters -> Seq(Messages)]
  /\ idle \in [Adapters -> Nat]
  /\ sweepIn \in 0..SweepPeriod
  /\ doomed \subseteq Adapters
  /\ registry \subseteq Peers
  /\ awaiting \in Seq(Calls)
  /\ wait \in [Adapters -> Nat]
  /\ faults \in 0..MaxFaults
  /\ owed \in [Adapters -> Seq(Messages)]
  /\ misled \subseteq Peers

(* The messages the relay makes are typed. *)
LEMMA MessageTyped ==
  ASSUME NEW p \in Peers, NEW t \in {"peer-joined", "peer-left", "hello"}
  PROVE  Message(t, p) \in Messages /\ Message(t, p).peer = p /\ Message(t, p).type = t
BY DEF Message, Messages

(* A broadcast leaves sequences of messages behind it. *)
LEMMA BroadcastTyped ==
  ASSUME Typed, NEW m \in Messages, Broadcast(m)
  PROVE  /\ poll' \in [Adapters -> {"none", "sent", "pending", "answered", "empty", "refused"}]
         /\ event' \in [Adapters -> Events]
         /\ wait' \in [Adapters -> Nat]
         /\ idle' \in [Adapters -> Nat]
         /\ queue' \in [Adapters -> Seq(Messages)]
         /\ owed' \in [Adapters -> Seq(Messages)]
<1> DEFINE hearers == Hearers(m.peer)
           polled == {a \in hearers : poll[a] = "pending"}
<1>1. poll' = [a \in Adapters |-> IF a \in polled THEN PollAnswer(a, "answered") ELSE poll[a]]
  BY DEF Broadcast, Queue
<1>2. event' = [a \in Adapters |-> IF a \in polled /\ client[a] = "polling" THEN <<m>> ELSE event[a]]
  BY DEF Broadcast, Queue
<1>3. /\ wait' = [a \in Adapters |-> IF a \in polled THEN 0 ELSE wait[a]]
      /\ idle' = [a \in Adapters |-> IF a \in hearers THEN 0 ELSE idle[a]]
  BY DEF Broadcast, Queue
<1>4. queue' = [a \in Adapters |-> IF a \in hearers \ polled THEN Append(queue[a], m) ELSE queue[a]]
  BY DEF Broadcast, Queue
<1>5. owed' = [a \in Adapters |->
        IF a \in Open /\ Owner[a] # m.peer THEN Append(owed[a], m) ELSE owed[a]]
  BY DEF Broadcast
<1>6. ASSUME NEW a \in Adapters PROVE Append(queue[a], m) \in Seq(Messages) /\ Append(owed[a], m) \in Seq(Messages)
  BY AppendProperties DEF Typed
<1> HIDE DEF hearers, polled
<1>7. poll' \in [Adapters -> {"none", "sent", "pending", "answered", "empty", "refused"}]
  BY <1>1 DEF Typed, PollAnswer
<1>8. event' \in [Adapters -> Events]
  <2>1. <<m>> \in Events
    BY DEF Events
  <2> QED BY <1>2, <2>1 DEF Typed
<1>9. wait' \in [Adapters -> Nat] /\ idle' \in [Adapters -> Nat]
  BY <1>3 DEF Typed
<1>10. queue' \in [Adapters -> Seq(Messages)] /\ owed' \in [Adapters -> Seq(Messages)]
  BY <1>4, <1>5, <1>6 DEF Typed
<1> QED BY <1>7, <1>8, <1>9, <1>10

(* A session removed leaves its types behind. *)
LEMMA RemoveTyped ==
  ASSUME Typed, NEW a \in Adapters, RemoveSession(a)
  PROVE  /\ session' \in [Adapters -> {"none", "open", "removing", "removed"}]
         /\ seat' \in [Peers -> Adapters \cup {NoAdapter}]
         /\ poll' \in [Adapters -> {"none", "sent", "pending", "answered", "empty", "refused"}]
         /\ wait' \in [Adapters -> Nat]
         /\ registry' \subseteq Peers
         /\ awaiting' \in Seq(Calls)
         /\ queue' \in [Adapters -> Seq(Messages)]
         /\ idle' \in [Adapters -> Nat]
         /\ owed' \in [Adapters -> Seq(Messages)]
<1>1. awaiting' \in Seq(Calls)
  <2>1. Call("leave", a) \in Calls
    BY DEF Call, Calls
  <2> QED BY <2>1, AppendProperties DEF RemoveSession, Typed
<1>2. queue' \in [Adapters -> Seq(Messages)] /\ owed' \in [Adapters -> Seq(Messages)]
  <2>1. <<>> \in Seq(Messages)
    BY EmptySeq
  <2> QED BY <2>1 DEF RemoveSession, Typed
<1>3. /\ session' \in [Adapters -> {"none", "open", "removing", "removed"}]
      /\ seat' \in [Peers -> Adapters \cup {NoAdapter}]
      /\ poll' \in [Adapters -> {"none", "sent", "pending", "answered", "empty", "refused"}]
      /\ wait' \in [Adapters -> Nat] /\ idle' \in [Adapters -> Nat] /\ registry' \subseteq Peers
  BY AdaptersOfPeers DEF RemoveSession, Typed, EndedPoll, PollAnswer
<1> QED BY <1>1, <1>2, <1>3

(* Sequences of calls and messages stay what they are when one goes. *)
LEMMA TailTyped ==
  ASSUME NEW S, NEW s \in Seq(S), s # <<>>
  PROVE  Head(s) \in S /\ Tail(s) \in Seq(S)
BY HeadTailProperties

(* Likewise when one in the middle goes. *)
LEMMA RemovalTyped ==
  ASSUME NEW S, NEW s \in Seq(S), NEW i \in DOMAIN s
  PROVE  SubSeq(s, 1, i - 1) \o SubSeq(s, i + 1, Len(s)) \in Seq(S)
<1>1. Len(s) \in Nat /\ i \in 1..Len(s)
  BY LenProperties
<1>2. \A n \in 1..Len(s) : s[n] \in S
  BY ElementOfSeq
<1>3. SubSeq(s, 1, i - 1) \in Seq(S) /\ SubSeq(s, i + 1, Len(s)) \in Seq(S)
  BY <1>1, <1>2, SubSeqProperties
<1> QED BY <1>3, ConcatProperties

(* A frame done with. *)
LEMMA DoneTyped ==
  ASSUME Typed, NEW f \in Frames, Done(f)
  PROVE  /\ post' \in [Frames -> {"new", "sent", "reading", "refused", "done"}]
         /\ sender' \in [Frames -> Adapters \cup {NoAdapter}] /\ Sent'
<1>1. /\ post' \in [Frames -> {"new", "sent", "reading", "refused", "done"}]
      /\ sender' \in [Frames -> Adapters \cup {NoAdapter}]
  BY DEF Done, Typed
<1>2. ASSUME NEW g \in Frames, post'[g] \in {"sent", "reading", "refused"} PROVE sender'[g] \in Adapters
  BY <1>2 DEF Done, Typed, Sent
<1> QED BY <1>1, <1>2 DEF Sent

(* An adapter closed. *)
LEMMA ClosedTyped ==
  ASSUME Typed, NEW a \in Adapters, Close(a),
         post' \in [Frames -> {"new", "sent", "reading", "refused", "done"}],
         sender' \in [Frames -> Adapters \cup {NoAdapter}], Sent', faults' \in 0..MaxFaults
  PROVE  Typed'
<1>1. event' \in [Adapters -> Events]
  BY DEF Close, Typed, Events
<1>2. /\ client' \in [Adapters -> {"idle", "joining", "polling", "leaving", "gone"}]
      /\ roster' \in [Adapters -> SUBSET Peers]
      /\ poll' \in [Adapters -> {"none", "sent", "pending", "answered", "empty", "refused"}]
      /\ delete' \in [Adapters -> {"none", "sent", "removing", "answered"}]
      /\ wait' \in [Adapters -> Nat]
  BY DEF Close, Typed
<1>3. UNCHANGED <<join, session, seat, registry, awaiting, queue, idle, owed, sweepIn, doomed, misled>>
  BY DEF Close, sessionVars, mailVars, sweepVars
<1> QED BY <1>1, <1>2, <1>3 DEF Typed

(* A fault is one of those allowed. *)
LEMMA FaultsBounded ==
  ASSUME faults \in 0..MaxFaults, Fault \/ faults' = faults
  PROVE  faults' \in 0..MaxFaults
<1>1. MaxFaults \in Nat
  BY PollsOutrunTheSweep
<1> QED BY <1>1 DEF Fault

(* No step leaves the types. *)
LEMMA TypedStep == Typed /\ [Next]_vars => Typed'
<1> SUFFICES ASSUME Typed, [Next]_vars PROVE Typed'
  OBVIOUS
<1> USE DEF clientVars, httpVars, postVars, sessionVars, mailVars, sweepVars
<1>1. ASSUME NEW a \in Adapters, Connect(a) PROVE Typed'
  BY <1>1 DEF Connect, Typed, Sent
<1>2. ASSUME NEW a \in Adapters, Disconnect(a) PROVE Typed'
  <2>1. Close(a) /\ UNCHANGED <<postVars, faults>>
    BY <1>2 DEF Disconnect
  <2> QED BY <2>1, ClosedTyped DEF Typed, Sent
<1>3. ASSUME NEW a \in Adapters, Vanish(a) \/ JoinFails(a) \/ Closed(a) PROVE Typed'
  <2>0. Forget(a) /\ (Fault \/ faults' = faults)
    BY <1>3 DEF Vanish, JoinFails, Closed
  <2>1. Forget(a) /\ faults' \in 0..MaxFaults
    <3>1. faults \in 0..MaxFaults
      BY DEF Typed
    <3> QED BY <2>0, <3>1, FaultsBounded
  <2>2. /\ client' \in [Adapters -> {"idle", "joining", "polling", "leaving", "gone"}]
        /\ roster' \in [Adapters -> SUBSET Peers]
        /\ join' \in [Adapters -> {"none", "sent", "asked", "answered", "refused"}]
        /\ poll' \in [Adapters -> {"none", "sent", "pending", "answered", "empty", "refused"}]
        /\ delete' \in [Adapters -> {"none", "sent", "removing", "answered"}]
        /\ wait' \in [Adapters -> Nat]
    BY <2>1 DEF Forget, Typed
  <2>3. event' \in [Adapters -> Events]
    BY <2>1 DEF Forget, Typed, Events
  <2>4. UNCHANGED <<postVars, sessionVars, mailVars, sweepVars, misled>>
    BY <1>3 DEF Vanish, JoinFails, Closed
  <2> QED BY <2>1, <2>2, <2>3, <2>4 DEF Typed, Sent
<1>4. ASSUME NEW a \in Adapters, JoinArrives(a) PROVE Typed'
  <2>1. awaiting' \in Seq(Calls)
    <3>1. Call("join", a) \in Calls
      BY DEF Call, Calls
    <3>2. Append(awaiting, Call("join", a)) \in Seq(Calls)
      BY <3>1, AppendProperties DEF Typed
    <3>3. awaiting' = awaiting \/ awaiting' = Append(awaiting, Call("join", a))
      BY <1>4 DEF JoinArrives
    <3> QED BY <3>2, <3>3 DEF Typed
  <2>2. /\ join' \in [Adapters -> {"none", "sent", "asked", "answered", "refused"}]
        /\ roster' \in [Adapters -> SUBSET Peers] /\ registry' \subseteq Peers
    <3>1. Owner[a] \in Peers
      BY AdaptersOfPeers
    <3>2. CASE Owner[a] \in registry
      BY <1>4, <3>2 DEF JoinArrives, Typed
    <3>3. CASE Owner[a] \notin registry
      <4>1. /\ join' = [join EXCEPT ![a] = "asked"] /\ roster' = [roster EXCEPT ![a] = registry]
            /\ registry' = registry \cup {Owner[a]}
        BY <1>4, <3>3 DEF JoinArrives
      <4> QED BY <3>1, <4>1 DEF Typed
    <3> QED BY <3>2, <3>3
  <2>3. UNCHANGED <<client, poll, event, delete, postVars, session, seat, mailVars,
                    sweepVars, wait, faults, misled>>
    BY <1>4 DEF JoinArrives
  <2> QED BY <2>1, <2>2, <2>3 DEF Typed, Sent
<1>5. ASSUME NEW a \in Adapters, JoinResumes(a) PROVE Typed'
  <2>1. Broadcast(Message("peer-joined", Owner[a]))
    BY <1>5 DEF JoinResumes
  <2>2. Message("peer-joined", Owner[a]) \in Messages
    BY AdaptersOfPeers, MessageTyped
  <2>3. awaiting' \in Seq(Calls)
    BY <1>5, RemovalTyped DEF JoinResumes, Typed
  <2>4. /\ session' = [session EXCEPT ![a] = "open"]
        /\ seat' = [seat EXCEPT ![Owner[a]] = a]
        /\ join' = [join EXCEPT ![a] = Answer(a, "answered")]
        /\ UNCHANGED <<clientVars, delete, postVars, registry, sweepVars, faults, misled>>
    BY <1>5 DEF JoinResumes
  <2> QED BY <2>1, <2>2, <2>3, <2>4, BroadcastTyped DEF Typed, Sent, Answer
<1>6. ASSUME NEW a \in Adapters, Joined(a) PROVE Typed'
  BY <1>6 DEF Joined, Typed, Sent
<1>7. ASSUME NEW a \in Adapters, PollArrives(a) PROVE Typed'
  <2>1. /\ queue' \in [Adapters -> Seq(Messages)] /\ event' \in [Adapters -> Events]
    <3>1. CASE queue' = queue /\ event' = event
      BY <3>1 DEF Typed
    <3>2. CASE ~(queue' = queue /\ event' = event)
      <4>1. /\ queue[a] # <<>> /\ event' = [event EXCEPT ![a] = <<Oldest(queue[a])>>]
            /\ queue' = [queue EXCEPT ![a] = Tail(@)]
        BY <1>7, <3>2 DEF PollArrives
      <4>2. Oldest(queue[a]) \in Messages /\ Tail(queue[a]) \in Seq(Messages)
        BY <4>1, TailTyped DEF Oldest, Typed
      <4> QED BY <4>1, <4>2 DEF Typed, Events
    <3> QED BY <3>1, <3>2
  <2>2. /\ poll' \in [Adapters -> {"none", "sent", "pending", "answered", "empty", "refused"}]
        /\ idle' \in [Adapters -> Nat] /\ wait' \in [Adapters -> Nat]
    <3>1. CASE a \in Open
      <4>1. /\ poll' = [poll EXCEPT ![a] = "answered"] \/ poll' = [poll EXCEPT ![a] = "pending"]
            /\ idle' = [idle EXCEPT ![a] = 0] /\ wait' = [wait EXCEPT ![a] = 0]
        BY <1>7, <3>1 DEF PollArrives
      <4> QED BY <4>1 DEF Typed
    <3>2. CASE a \notin Open
      BY <1>7, <3>2 DEF PollArrives, Typed
    <3> QED BY <3>1, <3>2
  <2>3. UNCHANGED <<clientVars, join, delete, postVars, sessionVars, owed, sweepVars, faults, misled>>
    BY <1>7 DEF PollArrives
  <2> QED BY <2>1, <2>2, <2>3 DEF Typed, Sent
<1>8. ASSUME NEW a \in Adapters, PollTimesOut(a) PROVE Typed'
  BY <1>8 DEF PollTimesOut, PollAnswer, Typed, Sent
<1>9. ASSUME NEW a \in Adapters, PollCloses(a) PROVE Typed'
  BY <1>9 DEF PollCloses, Typed, Sent
<1>10. ASSUME NEW a \in Adapters, HandleAnswer(a) PROVE Typed'
  <2>1. owed' \in [Adapters -> Seq(Messages)]
    BY <1>10, TailTyped DEF HandleAnswer, Typed
  <2>2. roster' \in [Adapters -> SUBSET Peers]
    <3>1. event[a] = <<>> \/ \E m \in Messages : event[a] = <<m>>
      BY DEF Typed, Events
    <3>2. event[a] = <<>> \/ Known(roster[a], Head(event[a])) \in SUBSET Peers
      BY <3>1 DEF Known, Messages, Typed
    <3> QED BY <1>10, <3>2 DEF HandleAnswer, Typed
  <2>3. event' \in [Adapters -> Events]
    BY <1>10 DEF HandleAnswer, Typed, Events
  <2> QED BY <1>10, <2>1, <2>2, <2>3 DEF HandleAnswer, Typed, Sent
<1>11. ASSUME NEW a \in Adapters, PollFails(a) PROVE Typed'
  <2>0. Close(a) /\ UNCHANGED postVars /\ (Fault \/ faults' = faults)
    BY <1>11 DEF PollFails
  <2>1. Close(a) /\ UNCHANGED postVars /\ faults' \in 0..MaxFaults
    <3>1. faults \in 0..MaxFaults
      BY DEF Typed
    <3> QED BY <2>0, <3>1, FaultsBounded
  <2> QED BY <2>1, ClosedTyped DEF Typed, Sent
<1>12. ASSUME NEW a \in Adapters, NEW f \in Frames, Send(f, a) PROVE Typed'
  <2>1. /\ post' \in [Frames -> {"new", "sent", "reading", "refused", "done"}]
        /\ sender' \in [Frames -> Adapters \cup {NoAdapter}]
    BY <1>12 DEF Send, Typed
  <2>2. ASSUME NEW g \in Frames, post'[g] \in {"sent", "reading", "refused"} PROVE sender'[g] \in Adapters
    BY <1>12, <2>2 DEF Send, Typed, Sent
  <2>3. UNCHANGED <<clientVars, httpVars, sessionVars, mailVars, sweepVars, wait, faults, misled>>
    BY <1>12 DEF Send
  <2> QED BY <2>1, <2>2, <2>3 DEF Typed, Sent
<1>13. ASSUME NEW f \in Frames, PostArrives(f) PROVE Typed'
  <2>1. post[f] = "sent" /\ sender[f] \in Adapters /\ sender' = sender
    BY <1>13 DEF PostArrives, Typed, Sent
  <2>2. post' = [post EXCEPT ![f] = "reading"] \/ post' = [post EXCEPT ![f] = "refused"]
    BY <1>13 DEF PostArrives
  <2>3. Sent' /\ post' \in [Frames -> {"new", "sent", "reading", "refused", "done"}]
    BY <2>1, <2>2 DEF Typed, Sent
  <2>4. idle' \in [Adapters -> Nat]
    <3>1. idle' = idle \/ idle' = [idle EXCEPT ![sender[f]] = 0]
      BY <1>13 DEF PostArrives
    <3> QED BY <3>1 DEF Typed
  <2>5. UNCHANGED <<clientVars, httpVars, sender, sessionVars, queue, owed, sweepVars, wait,
                    faults, misled>>
    BY <1>13 DEF PostArrives
  <2> QED BY <2>3, <2>4, <2>5 DEF Typed
<1>14. ASSUME NEW f \in Frames, PostRead(f) PROVE Typed'
  <2>1. sender[f] \in Adapters /\ Owner[sender[f]] \in Peers
    BY <1>14, AdaptersOfPeers DEF PostRead, Typed, Sent
  <2>2. Broadcast(Message("hello", Owner[sender[f]])) /\ Message("hello", Owner[sender[f]]) \in Messages
    BY <1>14, <2>1, MessageTyped DEF PostRead
  <2>3. /\ Done(f) /\ misled' \subseteq Peers
        /\ UNCHANGED <<clientVars, join, delete, sessionVars, sweepVars, faults>>
    BY <1>14, <2>1 DEF PostRead, Typed
  <2>4. /\ post' \in [Frames -> {"new", "sent", "reading", "refused", "done"}]
        /\ sender' \in [Frames -> Adapters \cup {NoAdapter}] /\ Sent'
    BY <2>3, DoneTyped
  <2> QED BY <2>2, <2>3, <2>4, BroadcastTyped DEF Typed
<1>15. ASSUME NEW f \in Frames, PostRefused(f) PROVE Typed'
  <2>1. sender[f] \in Adapters /\ <<>> \in Events
    BY <1>15 DEF PostRefused, Typed, Sent, Events
  <2>2. /\ post' \in [Frames -> {"new", "sent", "reading", "refused", "done"}]
        /\ sender' \in [Frames -> Adapters \cup {NoAdapter}] /\ Sent'
    BY <1>15, DoneTyped DEF PostRefused
  <2>3. CASE client[sender[f]] = "polling"
    <3>1. Close(sender[f]) /\ faults' = faults
      BY <1>15, <2>3 DEF PostRefused
    <3>2. faults' \in 0..MaxFaults
      BY <3>1 DEF Typed
    <3> QED BY <2>1, <2>2, <3>1, <3>2, ClosedTyped
  <2>4. CASE client[sender[f]] # "polling"
    <3>1. UNCHANGED <<clientVars, httpVars, sessionVars, mailVars, sweepVars, wait, misled, faults>>
      BY <1>15, <2>4 DEF PostRefused
    <3> QED BY <2>2, <3>1 DEF Typed
  <2> QED BY <2>3, <2>4
<1>16. ASSUME NEW f \in Frames, PostLost(f) PROVE Typed'
  <2>1. /\ post' \in [Frames -> {"new", "sent", "reading", "refused", "done"}]
        /\ sender' \in [Frames -> Adapters \cup {NoAdapter}] /\ Sent'
    BY <1>16, DoneTyped DEF PostLost
  <2>2. faults' \in 0..MaxFaults
    BY <1>16, PollsOutrunTheSweep DEF PostLost, Fault, Typed
  <2>3. UNCHANGED <<clientVars, httpVars, sessionVars, mailVars, sweepVars, wait, misled>>
    BY <1>16 DEF PostLost
  <2> QED BY <2>1, <2>2, <2>3 DEF Typed
<1>17. ASSUME NEW a \in Adapters, DeleteArrives(a) PROVE Typed'
  <2>1. CASE a \in Open
    <3>1. RemoveSession(a) /\ delete' = [delete EXCEPT ![a] = "removing"]
      BY <1>17, <2>1 DEF DeleteArrives
    <3>2. delete' \in [Adapters -> {"none", "sent", "removing", "answered"}]
      BY <3>1 DEF Typed
    <3>3. UNCHANGED <<clientVars, join, event, postVars, sweepVars, faults, misled>>
      BY <1>17 DEF DeleteArrives
    <3> QED BY <3>1, <3>2, <3>3, RemoveTyped DEF Typed, Sent
  <2>2. CASE a \notin Open
    <3>1. /\ delete' = [delete EXCEPT ![a] = "answered"]
          /\ UNCHANGED <<sessionVars, mailVars, poll, wait>>
          /\ UNCHANGED <<clientVars, join, event, postVars, sweepVars, faults, misled>>
      BY <1>17, <2>2 DEF DeleteArrives
    <3>2. delete' \in [Adapters -> {"none", "sent", "removing", "answered"}]
      BY <3>1 DEF Typed
    <3> QED BY <3>1, <3>2 DEF Typed, Sent
  <2> QED BY <2>1, <2>2
<1>18. ASSUME NEW a \in Adapters, LeaveResumes(a) PROVE Typed'
  <2>1. /\ Broadcast(Message("peer-left", Owner[a])) /\ Message("peer-left", Owner[a]) \in Messages
    BY <1>18, AdaptersOfPeers, MessageTyped DEF LeaveResumes
  <2>2. awaiting' \in Seq(Calls)
    BY <1>18, TailTyped DEF LeaveResumes, Typed
  <2>3. /\ session' = [session EXCEPT ![a] = "removed"]
        /\ delete' = [delete EXCEPT ![a] = IF @ = "removing" THEN Answer(a, "answered") ELSE @]
        /\ UNCHANGED <<clientVars, join, postVars, seat, registry, sweepVars, faults, misled>>
    BY <1>18 DEF LeaveResumes
  <2> QED BY <2>1, <2>2, <2>3, BroadcastTyped DEF Typed, Sent, Answer
<1>19. ASSUME NEW a \in Adapters, SweepRemoves(a) PROVE Typed'
  <2>1. CASE a \in Open
    <3>1. RemoveSession(a) /\ doomed' \subseteq Adapters
      BY <1>19, <2>1 DEF SweepRemoves, Typed
    <3>2. UNCHANGED <<clientVars, join, event, delete, postVars, sweepIn, faults, misled>>
      BY <1>19 DEF SweepRemoves
    <3> QED BY <3>1, <3>2, RemoveTyped DEF Typed, Sent
  <2>2. CASE a \notin Open
    BY <1>19, <2>2 DEF SweepRemoves, Typed, Sent
  <2> QED BY <2>1, <2>2
<1>20. ASSUME Sweep PROVE Typed'
  BY <1>20, PollsOutrunTheSweep DEF Sweep, Expired, Open, Typed, Sent
<1>21. ASSUME Tick PROVE Typed'
  <2>1. wait' \in [Adapters -> Nat] /\ idle' \in [Adapters -> Nat]
    BY <1>21 DEF Tick, Typed
  <2>2. sweepIn' \in 0..SweepPeriod
    BY <1>21, PollsOutrunTheSweep DEF Tick, Typed
  <2>3. UNCHANGED <<clientVars, httpVars, postVars, sessionVars, queue, owed, doomed, faults,
                    misled>>
    BY <1>21 DEF Tick
  <2> QED BY <2>1, <2>2, <2>3 DEF Typed, Sent
<1>22. ASSUME UNCHANGED vars PROVE Typed'
  BY <1>22 DEF vars, Typed, Sent
<1> QED
  BY <1>1, <1>2, <1>3, <1>4, <1>5, <1>6, <1>7, <1>8, <1>9, <1>10, <1>11, <1>12, <1>13, <1>14, <1>15,
     <1>16, <1>17, <1>18, <1>19, <1>20, <1>21, <1>22
  DEF Next, JoinStep, PollStep, LeaveStep, PostStep
-----------------------------------------------------------------------------
Listening(a) == join[a] = "asked" \/ (a \in Open /\ client[a] \in {"joining", "polling"})

(* An adapter through its life: what its client is at, its requests on their
   way and its session fit together.                                       *)
Life(a) ==
  /\ client[a] = "idle" => join[a] = "none" /\ session[a] = "none" /\ poll[a] = "none"
  /\ client[a] = "joining" => join[a] # "none" /\ poll[a] = "none"
  /\ client[a] = "polling" => poll[a] # "none" /\ session[a] # "none"
  /\ join[a] \in {"sent", "refused", "answered"} => client[a] = "joining"
  /\ join[a] \in {"sent", "refused", "asked"} => session[a] = "none"
  /\ join[a] = "asked" => client[a] \in {"joining", "gone"}
  /\ join[a] = "answered" => session[a] # "none"
  /\ poll[a] \notin {"none", "pending"} => client[a] = "polling"
  /\ poll[a] = "pending" => session[a] = "open" /\ queue[a] = <<>>
  /\ poll[a] = "refused" => session[a] # "open"
  /\ event[a] # <<>> => poll[a] = "answered"
  /\ session[a] # "open" => queue[a] = <<>> /\ owed[a] = <<>> /\ idle[a] = 0

(* How long a client that polls, or is about to, may have been silent. *)
Timed(a) ==
  /\ client[a] \in {"idle", "joining"} /\ join[a] # "answered" => wait[a] = 0
  /\ join[a] = "answered" => wait[a] <= Latency /\ idle[a] <= wait[a]
  /\ poll[a] = "pending" => wait[a] <= PollTimeout /\ idle[a] <= wait[a]
  /\ client[a] = "polling" =>
       /\ poll[a] # "pending" => wait[a] <= Latency
       /\ poll[a] \in {"answered", "empty"} => idle[a] <= wait[a] + PollTimeout
       /\ poll[a] = "sent" => idle[a] <= wait[a] + PollTimeout + Latency

(* What the client has yet to handle is the answer on its way and the queue. *)
Heard(a) ==
  client[a] \in {"joining", "polling"} /\ session[a] = "open" => owed[a] = event[a] \o queue[a]

(* Nobody is told of itself. *)
Own(a) ==
  Listening(a) => /\ Owner[a] \notin roster[a]
                  /\ \A n \in 1..Len(owed[a]) : owed[a][n].peer # Owner[a]

Local(a) == Life(a) /\ Timed(a) /\ Heard(a) /\ Own(a)

In(a) == join[a] = "asked" \/ session[a] = "open"

(* The seats are the open sessions', and the coordinator has the peers of the
   sessions that are open or about to be.                                  *)
Seats ==
  /\ \A p \in Peers, a \in Adapters : seat[p] = a <=> session[a] = "open" /\ Owner[a] = p
  /\ registry = {p \in Peers : \E a \in Adapters : In(a) /\ Owner[a] = p}
  /\ \A a, b \in Adapters : In(a) /\ In(b) /\ Owner[a] = Owner[b] => a = b

(* The calls that wait to resume: one per join asked and per session that is
   being removed.                                                          *)
Queued ==
  /\ \A n \in 1..Len(awaiting) :
       /\ awaiting[n].op = "join" => join[awaiting[n].adapter] = "asked"
       /\ awaiting[n].op = "leave" => session[awaiting[n].adapter] = "removing"
  /\ \A m, n \in 1..Len(awaiting) : awaiting[m] = awaiting[n] => m = n
  /\ \A a \in Adapters : join[a] = "asked" => \E n \in 1..Len(awaiting) : awaiting[n] = Call("join", a)

(* The sweep lists clients that are gone or leave, and lists them in time. *)
Doomed == \A a \in doomed : client[a] \in {"leaving", "gone"}

SweptSoon ==
  \A a \in Adapters : session[a] = "open" =>
    /\ idle[a] < IdleTimeout + SweepPeriod
    /\ a \notin doomed => idle[a] + sweepIn < IdleTimeout + SweepPeriod

(* The inductive invariant. *)
PollingInv ==
  Typed /\ (\A a \in Adapters : Local(a)) /\ Seats /\ Queued /\ Doomed /\ SweptSoon
-----------------------------------------------------------------------------
(* What a broadcast does to a session that hears it, and to the rest. *)
LocalSame(b) ==
  /\ client'[b] = client[b] /\ roster'[b] = roster[b] /\ join'[b] = join[b]
  /\ poll'[b] = poll[b] /\ event'[b] = event[b] /\ session'[b] = session[b]
  /\ queue'[b] = queue[b] /\ idle'[b] = idle[b] /\ owed'[b] = owed[b] /\ wait'[b] = wait[b]

MailSame(b) ==
  /\ poll'[b] = poll[b] /\ event'[b] = event[b] /\ queue'[b] = queue[b]
  /\ idle'[b] = idle[b] /\ owed'[b] = owed[b] /\ wait'[b] = wait[b]

Hears(b, m) ==
  /\ idle'[b] = 0
  /\ owed'[b] = Append(owed[b], m)
  /\ \/ /\ poll[b] = "pending" /\ client[b] = "polling"
        /\ poll'[b] = "answered" /\ event'[b] = <<m>> /\ wait'[b] = 0 /\ queue'[b] = queue[b]
     \/ /\ poll[b] = "pending" /\ client[b] # "polling"
        /\ poll'[b] = "none" /\ event'[b] = event[b] /\ wait'[b] = 0 /\ queue'[b] = queue[b]
     \/ /\ poll[b] # "pending"
        /\ poll'[b] = poll[b] /\ event'[b] = event[b] /\ wait'[b] = wait[b]
        /\ queue'[b] = Append(queue[b], m)

(* The sessions a message goes to are the open ones of other peers. *)
LEMMA HearersAre ==
  ASSUME Typed, Seats, NEW p \in Peers
  PROVE  Hearers(p) = {a \in Adapters : session[a] = "open" /\ Owner[a] # p}
<1>1. ASSUME NEW a, a \in Hearers(p) PROVE a \in Adapters /\ session[a] = "open" /\ Owner[a] # p
  <2>1. PICK q \in Peers \ {p} : seat[q] = a /\ a # NoAdapter
    BY <1>1 DEF Hearers
  <2>2. a \in Adapters
    BY <2>1 DEF Typed
  <2> QED BY <2>1, <2>2 DEF Seats
<1>2. ASSUME NEW a \in Adapters, session[a] = "open", Owner[a] # p PROVE a \in Hearers(p)
  <2>1. Owner[a] \in Peers \ {p} /\ seat[Owner[a]] = a /\ a # NoAdapter
    BY <1>2, AdaptersOfPeers DEF Seats
  <2> QED BY <2>1 DEF Hearers
<1> QED BY <1>1, <1>2

(* A broadcast reaches each of them once, and no one else. *)
LEMMA BroadcastReaches ==
  ASSUME Typed, Seats, NEW m \in Messages, m.peer \in Peers, Broadcast(m), NEW b \in Adapters
  PROVE  /\ session[b] = "open" /\ Owner[b] # m.peer => Hears(b, m)
         /\ ~(session[b] = "open" /\ Owner[b] # m.peer) => MailSame(b)
<1> DEFINE hearers == Hearers(m.peer)
           polled == {a \in hearers : poll[a] = "pending"}
<1>0. hearers = {a \in Adapters : session[a] = "open" /\ Owner[a] # m.peer}
  BY HearersAre
<1>1. poll' = [a \in Adapters |-> IF a \in polled THEN PollAnswer(a, "answered") ELSE poll[a]]
  BY DEF Broadcast, Queue
<1>2. event' = [a \in Adapters |-> IF a \in polled /\ client[a] = "polling" THEN <<m>> ELSE event[a]]
  BY DEF Broadcast, Queue
<1>3. /\ wait' = [a \in Adapters |-> IF a \in polled THEN 0 ELSE wait[a]]
      /\ idle' = [a \in Adapters |-> IF a \in hearers THEN 0 ELSE idle[a]]
  BY DEF Broadcast, Queue
<1>4. queue' = [a \in Adapters |-> IF a \in hearers \ polled THEN Append(queue[a], m) ELSE queue[a]]
  BY DEF Broadcast, Queue
<1>5. owed' = [a \in Adapters |->
        IF a \in Open /\ Owner[a] # m.peer THEN Append(owed[a], m) ELSE owed[a]]
  BY DEF Broadcast
<1>6. b \in polled <=> b \in hearers /\ poll[b] = "pending"
  OBVIOUS
<1> HIDE DEF hearers, polled
<1>7. /\ poll'[b] = IF b \in polled THEN PollAnswer(b, "answered") ELSE poll[b]
      /\ event'[b] = IF b \in polled /\ client[b] = "polling" THEN <<m>> ELSE event[b]
      /\ wait'[b] = IF b \in polled THEN 0 ELSE wait[b]
      /\ idle'[b] = IF b \in hearers THEN 0 ELSE idle[b]
      /\ queue'[b] = IF b \in hearers \ polled THEN Append(queue[b], m) ELSE queue[b]
      /\ owed'[b] = IF b \in Open /\ Owner[b] # m.peer THEN Append(owed[b], m) ELSE owed[b]
  BY <1>1, <1>2, <1>3, <1>4, <1>5
<1>8. b \in Open <=> session[b] = "open"
  BY DEF Open
<1>9. b \in hearers <=> session[b] = "open" /\ Owner[b] # m.peer
  BY <1>0
<1>10. CASE session[b] = "open" /\ Owner[b] # m.peer
  BY <1>6, <1>7, <1>8, <1>9, <1>10 DEF Hears, PollAnswer
<1>11. CASE ~(session[b] = "open" /\ Owner[b] # m.peer)
  BY <1>6, <1>7, <1>8, <1>9, <1>11 DEF MailSame
<1> QED BY <1>10, <1>11

(* A message at the end of the queue is a message at the end of what is owed. *)
LEMMA AppendAfter ==
  \A s, t \in Seq(Messages), x \in Messages : Append(s \o t, x) = s \o Append(t, x)
<1> TAKE s, t \in Seq(Messages), x \in Messages
<1>1. Append(s \o t, x) \in Seq(Messages) /\ s \o Append(t, x) \in Seq(Messages)
  BY AppendProperties, ConcatProperties
<1>2. Len(Append(s \o t, x)) = Len(s \o Append(t, x))
  BY AppendProperties, ConcatProperties, LenProperties
<1>3. ASSUME NEW n \in 1..Len(Append(s \o t, x)) PROVE Append(s \o t, x)[n] = (s \o Append(t, x))[n]
  BY <1>3, AppendProperties, ConcatProperties, LenProperties
<1> QED BY <1>1, <1>2, <1>3, SeqEqual

(* The oldest message and the rest are the whole. *)
LEMMA HeadFirst ==
  ASSUME NEW S, NEW s \in Seq(S), s # <<>>
  PROVE  <<Head(s)>> \o Tail(s) = s
BY HeadTailProperties, ConcatProperties

(* An adapter nothing happens to stays as it was. *)
LEMMA LocalKept ==
  ASSUME NEW b \in Adapters, Local(b), LocalSame(b)
  PROVE  Local(b)'
<1>1. Life(b)' BY DEF Local, LocalSame, Life
<1>2. Timed(b)' BY DEF Local, LocalSame, Timed
<1>3. Heard(b)' BY DEF Local, LocalSame, Heard
<1>4. Own(b)' BY DEF Local, LocalSame, Own, Listening, Open
<1> QED BY <1>1, <1>2, <1>3, <1>4 DEF Local

(* So does one that hears of another. *)
LEMMA HearingKeeps ==
  ASSUME NEW b \in Adapters, Typed, Local(b), NEW m \in Messages, session[b] = "open", Owner[b] # m.peer, Hears(b, m),
         client'[b] = client[b], roster'[b] = roster[b], join'[b] = join[b], session'[b] = session[b]
  PROVE  Local(b)'
<1>1. event[b] \in Seq(Messages) /\ queue[b] \in Seq(Messages) /\ owed[b] \in Seq(Messages) /\ idle[b] \in Nat /\ wait[b] \in Nat
  <2>1. event[b] \in Events /\ \A x \in Messages : <<x>> \in Seq(Messages)
    BY DEF Typed
  <2> QED BY <2>1, EmptySeq DEF Typed, Events
<1>2. Life(b)' BY PollsOutrunTheSweep DEF Local, Hears, Life
<1>3. Timed(b)'
  <2>1. /\ idle'[b] = 0
        /\ \/ poll[b] = "pending" /\ client[b] = "polling" /\ poll'[b] = "answered" /\ wait'[b] = 0
           \/ poll[b] = "pending" /\ client[b] # "polling" /\ poll'[b] = "none" /\ wait'[b] = 0
           \/ poll[b] # "pending" /\ poll'[b] = poll[b] /\ wait'[b] = wait[b]
    BY DEF Hears
  <2>2. Life(b) /\ Timed(b)
    BY DEF Local
  <2>3. 0 <= wait[b] /\ 0 <= wait[b] + PollTimeout /\ 0 <= wait[b] + PollTimeout + Latency
        /\ PollTimeout \in Nat /\ Latency \in Nat
    BY <1>1, PollsOutrunTheSweep
  <2>4. CASE poll[b] = "pending"
    BY <2>1, <2>2, <2>3, <2>4 DEF Life, Timed
  <2>5. CASE poll[b] # "pending"
    BY <2>1, <2>2, <2>3, <2>5 DEF Life, Timed
  <2> QED BY <2>4, <2>5
<1>4. Heard(b)'
  <2>1. CASE poll[b] = "pending"
    <3>1. event[b] = <<>> /\ queue[b] = <<>>
      BY <2>1 DEF Local, Life
    <3>2. client[b] = "joining" => poll[b] = "none"
      BY DEF Local, Life
    <3>3. client[b] = "polling" => /\ owed[b] = <<>> \o <<>>
                                   /\ owed'[b] = Append(owed[b], m) /\ event'[b] = <<m>> /\ queue'[b] = <<>>
      BY <2>1, <3>1 DEF Local, Hears, Heard
    <3>4. <<>> \o <<>> = <<>> /\ Append(<<>>, m) = <<m>> /\ <<m>> \o <<>> = <<m>>
      <4>1. <<>> \in Seq(Messages) /\ <<m>> \in Seq(Messages)
        OBVIOUS
      <4>2. <<>> \o <<>> = <<>> /\ <<m>> \o <<>> = <<m>>
        BY <4>1, ConcatEmptySeq
      <4> QED BY <4>2
    <3> QED BY <2>1, <3>2, <3>3, <3>4 DEF Heard
  <2>2. CASE poll[b] # "pending"
    <3>1. Append(event[b] \o queue[b], m) = event[b] \o Append(queue[b], m)
      BY <1>1, AppendAfter
    <3>2. event'[b] = event[b] /\ queue'[b] = Append(queue[b], m) /\ owed'[b] = Append(owed[b], m)
      BY <2>2 DEF Hears
    <3>3. client[b] \in {"joining", "polling"} => owed[b] = event[b] \o queue[b]
      BY DEF Local, Heard
    <3> QED BY <3>1, <3>2, <3>3 DEF Heard
  <2> QED BY <2>1, <2>2
<1>5. Own(b)'
  <2>1. \A n \in 1..Len(owed'[b]) : owed'[b][n] = m \/ (n \in 1..Len(owed[b]) /\ owed'[b][n] = owed[b][n])
    BY <1>1, AppendProperties DEF Hears
  <2> QED BY <2>1 DEF Local, Own, Listening, Open
<1> QED BY <1>2, <1>3, <1>4, <1>5 DEF Local

(* The types, adapter by adapter. *)
LEMMA LocalTyped ==
  ASSUME Typed, NEW a \in Adapters
  PROVE  /\ client[a] \in {"idle", "joining", "polling", "leaving", "gone"}
         /\ roster[a] \in SUBSET Peers
         /\ join[a] \in {"none", "sent", "asked", "answered", "refused"}
         /\ poll[a] \in {"none", "sent", "pending", "answered", "empty", "refused"}
         /\ event[a] = <<>> \/ \E m \in Messages : event[a] = <<m>>
         /\ event[a] \in Seq(Messages)
         /\ session[a] \in {"none", "open", "removing", "removed"}
         /\ queue[a] \in Seq(Messages) /\ owed[a] \in Seq(Messages)
         /\ idle[a] \in Nat /\ wait[a] \in Nat
         /\ Owner[a] \in Peers
         /\ a \in Open <=> session[a] = "open"
<1>1. event[a] \in Events /\ \A x \in Messages : <<x>> \in Seq(Messages)
  BY DEF Typed
<1>2. event[a] \in Seq(Messages) /\ (event[a] = <<>> \/ \E m \in Messages : event[a] = <<m>>)
  BY <1>1, EmptySeq DEF Events
<1> QED BY <1>2, AdaptersOfPeers DEF Typed, Open

(* The timeouts in numbers. *)
LEMMA Timeouts ==
  /\ PollTimeout \in Nat /\ IdleTimeout \in Nat /\ SweepPeriod \in Nat /\ Latency \in Nat
  /\ PollTimeout > 0 /\ IdleTimeout > 0 /\ SweepPeriod > 0
  /\ PollTimeout + 2 * Latency < IdleTimeout
BY PollsOutrunTheSweep

(* An adapter forgotten leaves every adapter sound... *)
LEMMA ForgetKeeps ==
  ASSUME Typed, \A b \in Adapters : Local(b), NEW a \in Adapters, Forget(a), client[a] # "idle",
         UNCHANGED sessionVars, UNCHANGED mailVars
  PROVE  \A b \in Adapters : Local(b)'
<1>1. ASSUME NEW b \in Adapters, b # a PROVE Local(b)'
  <2>1. LocalSame(b)
    BY <1>1 DEF Forget, LocalSame, Typed, sessionVars, mailVars
  <2> QED BY <2>1, LocalKept
<1>2. Local(a)'
  <2>1. /\ client'[a] = "gone" /\ roster'[a] = {}
        /\ join'[a] = IF join[a] = "asked" THEN "asked" ELSE "none"
        /\ poll'[a] = IF poll[a] = "pending" THEN "pending" ELSE "none"
        /\ event'[a] = <<>>
        /\ wait'[a] = IF poll[a] = "pending" THEN wait[a] ELSE 0
        /\ session'[a] = session[a] /\ queue'[a] = queue[a] /\ idle'[a] = idle[a] /\ owed'[a] = owed[a]
    BY DEF Forget, Typed, sessionVars, mailVars
  <2>2. Life(a) /\ Timed(a)
    BY DEF Local
  <2>3. Life(a)' /\ Heard(a)'
    BY <2>1, <2>2 DEF Life, Heard
  <2>4. Timed(a)'
    BY <2>1, <2>2, LocalTyped DEF Life, Timed
  <2>5. Own(a)'
    <3>1. join[a] = "asked" => owed[a] = <<>>
      BY <2>2 DEF Life
    <3>2. Listening(a)' => join[a] = "asked"
      BY <2>1 DEF Listening
    <3> QED BY <2>1, <3>1, <3>2 DEF Own
  <2> QED BY <2>3, <2>4, <2>5 DEF Local
<1> QED BY <1>1, <1>2

(* ...so does one closed... *)
LEMMA CloseKeeps ==
  ASSUME Typed, \A b \in Adapters : Local(b), NEW a \in Adapters, Close(a), client[a] = "polling"
  PROVE  \A b \in Adapters : Local(b)'
<1>0. UNCHANGED <<join, session, queue, idle, owed>>
  BY DEF Close, sessionVars, mailVars
<1>1. ASSUME NEW b \in Adapters, b # a PROVE Local(b)'
  <2>1. LocalSame(b)
    BY <1>0, <1>1 DEF Close, LocalSame, Typed
  <2> QED BY <2>1, LocalKept
<1>2. Local(a)'
  <2>1. /\ client'[a] = "leaving"
        /\ poll'[a] = IF poll[a] = "pending" THEN "pending" ELSE "none"
        /\ event'[a] = <<>>
        /\ wait'[a] = IF poll[a] = "pending" THEN wait[a] ELSE 0
        /\ session'[a] = session[a] /\ queue'[a] = queue[a] /\ idle'[a] = idle[a] /\ owed'[a] = owed[a]
        /\ join'[a] = join[a]
    BY <1>0 DEF Close, Typed
  <2>2. Life(a) /\ Timed(a)
    BY DEF Local
  <2>3. Life(a)' /\ Heard(a)'
    BY <2>1, <2>2 DEF Life, Heard
  <2>4. Timed(a)'
    BY <2>1, <2>2, LocalTyped DEF Life, Timed
  <2>5. Own(a)'
    BY <2>1, <2>2 DEF Own, Listening, Life
  <2> QED BY <2>3, <2>4, <2>5 DEF Local
<1> QED BY <1>1, <1>2

(* ...and one whose session is removed. *)
LEMMA RemoveKeeps ==
  ASSUME Typed, \A b \in Adapters : Local(b), NEW a \in Adapters, RemoveSession(a), session[a] = "open",
         UNCHANGED <<clientVars, join, event>>
  PROVE  \A b \in Adapters : Local(b)'
<1>0. UNCHANGED <<client, roster, join, event>>
  BY DEF clientVars
<1>1. ASSUME NEW b \in Adapters, b # a PROVE Local(b)'
  <2>1. LocalSame(b)
    BY <1>0, <1>1 DEF RemoveSession, LocalSame, Typed
  <2> QED BY <2>1, LocalKept
<1>2. Local(a)'
  <2>1. /\ session'[a] = "removing"
        /\ poll'[a] = IF poll[a] = "pending" THEN (IF client[a] = "polling" THEN "refused" ELSE "none") ELSE poll[a]
        /\ wait'[a] = IF poll[a] = "pending" THEN 0 ELSE wait[a]
        /\ queue'[a] = <<>> /\ idle'[a] = 0 /\ owed'[a] = <<>>
        /\ client'[a] = client[a] /\ join'[a] = join[a] /\ event'[a] = event[a]
    BY <1>0 DEF RemoveSession, EndedPoll, PollAnswer, Typed
  <2>2. Life(a) /\ Timed(a)
    BY DEF Local
  <2>3. Life(a)' /\ Heard(a)'
    BY <2>1, <2>2 DEF Life, Heard
  <2>4. Timed(a)'
    BY <2>1, <2>2, LocalTyped, Timeouts DEF Life, Timed
  <2>5. Own(a)'
    BY <2>1, <2>2 DEF Own, Listening, Open, Life
  <2> QED BY <2>3, <2>4, <2>5 DEF Local
<1> QED BY <1>1, <1>2

(* A broadcast leaves sound whoever it is not about. *)
LEMMA BroadcastKeeps ==
  ASSUME Typed, Seats, \A b \in Adapters : Local(b), NEW m \in Messages, m.peer \in Peers, Broadcast(m),
         NEW b \in Adapters, client'[b] = client[b], roster'[b] = roster[b], join'[b] = join[b],
         session'[b] = session[b]
  PROVE  Local(b)'
<1>1. CASE session[b] = "open" /\ Owner[b] # m.peer
  BY <1>1, BroadcastReaches, HearingKeeps
<1>2. CASE ~(session[b] = "open" /\ Owner[b] # m.peer)
  <2>1. LocalSame(b)
    BY <1>2, BroadcastReaches DEF LocalSame, MailSame
  <2> QED BY <2>1, LocalKept
<1> QED BY <1>1, <1>2

(* A join that resumes opens the session of a client that joins, or is gone. *)
LEMMA JoinResumesKeeps ==
  ASSUME PollingInv, NEW a \in Adapters, JoinResumes(a)
  PROVE  \A b \in Adapters : Local(b)'
<1> DEFINE m == Message("peer-joined", Owner[a])
<1>0. /\ Typed /\ Seats /\ \A b \in Adapters : Local(b)
  BY DEF PollingInv
<1>1. m \in Messages /\ m.peer = Owner[a] /\ Owner[a] \in Peers /\ Broadcast(m)
  BY AdaptersOfPeers, MessageTyped DEF JoinResumes
<1>2. /\ session' = [session EXCEPT ![a] = "open"]
      /\ join' = [join EXCEPT ![a] = Answer(a, "answered")]
      /\ UNCHANGED <<client, roster>> /\ join[a] = "asked"
  BY DEF JoinResumes, clientVars
<1> HIDE DEF m
<1>3. ASSUME NEW b \in Adapters, b # a PROVE Local(b)'
  <2>1. client'[b] = client[b] /\ roster'[b] = roster[b] /\ join'[b] = join[b] /\ session'[b] = session[b]
    BY <1>0, <1>2, <1>3 DEF Typed
  <2> QED BY <1>0, <1>1, <2>1, BroadcastKeeps
<1>4. Local(a)'
  <2>1. Life(a) /\ Timed(a) /\ Own(a) /\ session[a] = "none"
    BY <1>0, <1>2 DEF Local, Life
  <2>2. MailSame(a)
    BY <1>0, <1>1, <2>1, BroadcastReaches
  <2>3. /\ session'[a] = "open" /\ client'[a] = client[a] /\ roster'[a] = roster[a]
        /\ join'[a] = IF client[a] = "gone" THEN "none" ELSE "answered"
        /\ poll'[a] = poll[a] /\ event'[a] = event[a] /\ queue'[a] = queue[a]
        /\ idle'[a] = idle[a] /\ owed'[a] = owed[a] /\ wait'[a] = wait[a]
    BY <1>0, <1>2, <2>2 DEF Answer, MailSame, Typed
  <2>4. client[a] \in {"joining", "gone"} /\ queue[a] = <<>> /\ owed[a] = <<>> /\ idle[a] = 0
        /\ poll[a] = "none" /\ event[a] = <<>>
    BY <1>0, <1>2, <2>1, LocalTyped DEF Life
  <2>5. Life(a)'
    BY <1>2, <2>1, <2>3, <2>4 DEF Life
  <2>6. Timed(a)'
    BY <1>0, <1>2, <2>1, <2>3, <2>4, LocalTyped, Timeouts DEF Timed
  <2>7. Heard(a)'
    <3>1. <<>> \o <<>> = <<>>
      BY EmptySeq, ConcatEmptySeq
    <3> QED BY <2>3, <2>4, <3>1 DEF Heard
  <2>8. Own(a)'
    BY <1>2, <2>1, <2>3, <2>4 DEF Own, Listening, Open
  <2> QED BY <2>5, <2>6, <2>7, <2>8 DEF Local
<1> QED BY <1>3, <1>4

(* A leave that resumes ends a session that nobody hears any more. *)
LEMMA LeaveResumesKeeps ==
  ASSUME PollingInv, NEW a \in Adapters, LeaveResumes(a)
  PROVE  /\ session[a] = "removing"
         /\ \A b \in Adapters : Local(b)'
<1> DEFINE m == Message("peer-left", Owner[a])
<1>0. /\ Typed /\ Seats /\ Queued /\ \A b \in Adapters : Local(b)
  BY DEF PollingInv
<1>1. m \in Messages /\ m.peer = Owner[a] /\ Owner[a] \in Peers /\ Broadcast(m)
  BY AdaptersOfPeers, MessageTyped DEF LeaveResumes
<1>2. /\ session' = [session EXCEPT ![a] = "removed"]
      /\ UNCHANGED <<client, roster, join>>
  BY DEF LeaveResumes, clientVars
<1>3. session[a] = "removing"
  <2>1. awaiting # <<>> /\ Head(awaiting) = Call("leave", a) /\ awaiting \in Seq(Calls)
    BY <1>0 DEF LeaveResumes, Typed
  <2>2. 1 \in 1..Len(awaiting) /\ awaiting[1] = Call("leave", a)
    BY <2>1, EmptySeq, LenProperties
  <2> QED BY <1>0, <2>2 DEF Queued, Call
<1> HIDE DEF m
<1>4. ASSUME NEW b \in Adapters, b # a PROVE Local(b)'
  <2>1. client'[b] = client[b] /\ roster'[b] = roster[b] /\ join'[b] = join[b] /\ session'[b] = session[b]
    BY <1>0, <1>2, <1>4 DEF Typed
  <2> QED BY <1>0, <1>1, <2>1, BroadcastKeeps
<1>5. Local(a)'
  <2>1. Life(a) /\ Timed(a)
    BY <1>0 DEF Local
  <2>2. MailSame(a)
    BY <1>0, <1>1, <1>3, BroadcastReaches
  <2>3. /\ session'[a] = "removed" /\ client'[a] = client[a] /\ roster'[a] = roster[a] /\ join'[a] = join[a]
        /\ poll'[a] = poll[a] /\ event'[a] = event[a] /\ queue'[a] = queue[a]
        /\ idle'[a] = idle[a] /\ owed'[a] = owed[a] /\ wait'[a] = wait[a]
    BY <1>0, <1>2, <2>2 DEF MailSame, Typed
  <2>4. Life(a)' /\ Heard(a)'
    BY <1>3, <2>1, <2>3 DEF Life, Heard
  <2>5. Timed(a)'
    BY <2>1, <2>3 DEF Timed
  <2>6. Own(a)'
    BY <1>3, <2>1, <2>3 DEF Own, Listening, Open, Life
  <2> QED BY <2>4, <2>5, <2>6 DEF Local
<1> QED BY <1>3, <1>4, <1>5

(* A client that handles an answer is owed one message less, if there was one
   in it.                                                                  *)
LEMMA HandleAnswerKeeps ==
  ASSUME Typed, NEW a \in Adapters, Local(a), HandleAnswer(a)
  PROVE  Local(a)'
<1>1. /\ client'[a] = client[a] /\ join'[a] = join[a] /\ session'[a] = session[a]
      /\ queue'[a] = queue[a] /\ idle'[a] = idle[a]
      /\ event'[a] = <<>> /\ poll'[a] = "sent" /\ wait'[a] = 0
      /\ owed'[a] = IF event[a] = <<>> \/ owed[a] = <<>> THEN owed[a] ELSE Tail(owed[a])
      /\ roster'[a] = IF event[a] = <<>> THEN roster[a] ELSE Known(roster[a], Head(event[a]))
      /\ client[a] = "polling" /\ poll[a] \in {"answered", "empty"}
  BY DEF HandleAnswer, sessionVars, Typed
<1>2. Life(a) /\ Timed(a) /\ Heard(a) /\ Own(a)
  BY DEF Local
<1>3. Life(a)'
  BY <1>1, <1>2 DEF Life
<1>4. Timed(a)'
  BY <1>1, <1>2, LocalTyped, Timeouts DEF Timed, Life
<1>5. CASE event[a] = <<>> \/ session[a] # "open"
  <2>1. Heard(a)'
    <3>1. session[a] = "open" => owed[a] = <<>> \o queue[a] /\ owed'[a] = owed[a]
      BY <1>1, <1>2, <1>5 DEF Heard
    <3> QED BY <1>1, <3>1 DEF Heard
  <2>2. Own(a)'
    BY <1>1, <1>2, <1>5 DEF Own, Listening, Open, Life
  <2> QED BY <1>3, <1>4, <2>1, <2>2 DEF Local
<1>6. CASE event[a] # <<>> /\ session[a] = "open"
  <2>1. PICK m \in Messages : event[a] = <<m>>
    BY <1>6, LocalTyped
  <2>2. owed[a] = <<m>> \o queue[a]
    BY <1>1, <1>2, <1>6, <2>1 DEF Heard
  <2>3. queue[a] \in Seq(Messages) /\ <<m>> \in Seq(Messages) /\ <<m>>[1] = m /\ Len(<<m>>) = 1
    BY LocalTyped
  <2>4. /\ owed[a] \in Seq(Messages) /\ Len(owed[a]) = Len(queue[a]) + 1
        /\ owed[a][1] = m /\ \A n \in 1..Len(queue[a]) : owed[a][n + 1] = queue[a][n]
    BY <2>2, <2>3, ConcatProperties, LenProperties
  <2>5. owed[a] # <<>>
    BY <2>3, <2>4, LenProperties, EmptySeq
  <2>6. owed'[a] = Tail(owed[a]) /\ Tail(owed[a]) = queue[a]
    <3>1. /\ Tail(owed[a]) \in Seq(Messages) /\ Len(Tail(owed[a])) = Len(queue[a])
          /\ \A n \in 1..Len(queue[a]) : Tail(owed[a])[n] = queue[a][n]
      BY <2>3, <2>4, <2>5, HeadTailProperties, LenProperties
    <3> QED BY <1>1, <1>6, <2>3, <2>5, <3>1, SeqEqual
  <2>7. Heard(a)'
    <3>1. <<>> \o queue[a] = queue[a]
      BY <2>3, ConcatEmptySeq
    <3> QED BY <1>1, <2>6, <3>1 DEF Heard
  <2>8. Own(a)'
    <3>1. Head(event[a]) = m /\ roster'[a] = Known(roster[a], m)
      BY <1>1, <1>6, <2>1
    <3>2. Owner[a] \notin roster[a] /\ \A n \in 1..Len(owed[a]) : owed[a][n].peer # Owner[a]
      BY <1>1, <1>2, <1>6 DEF Own, Listening, Open
    <3>3. m.peer # Owner[a] /\ \A n \in 1..Len(queue[a]) : queue[a][n].peer # Owner[a]
      <4>1. Len(queue[a]) \in Nat
        BY <2>3, LenProperties
      <4> QED BY <2>4, <3>2, <4>1
    <3>4. Owner[a] \notin roster'[a]
      BY <3>1, <3>2, <3>3 DEF Known
    <3> QED BY <2>6, <3>3, <3>4 DEF Own
  <2> QED BY <1>3, <1>4, <2>7, <2>8 DEF Local
<1> QED BY <1>5, <1>6

(* A poll that arrives takes the oldest message with it. *)
LEMMA PollArrivesKeeps ==
  ASSUME Typed, NEW a \in Adapters, Local(a), PollArrives(a)
  PROVE  Local(a)'
<1>1. /\ client'[a] = client[a] /\ roster'[a] = roster[a] /\ join'[a] = join[a] /\ session'[a] = session[a]
      /\ owed'[a] = owed[a] /\ wait'[a] = 0 /\ poll[a] = "sent"
      /\ \/ /\ session[a] # "open" /\ poll'[a] = "refused"
            /\ event'[a] = event[a] /\ queue'[a] = queue[a] /\ idle'[a] = idle[a]
         \/ /\ session[a] = "open" /\ idle'[a] = 0 /\ queue[a] # <<>>
            /\ poll'[a] = "answered" /\ event'[a] = <<Oldest(queue[a])>> /\ queue'[a] = Tail(queue[a])
         \/ /\ session[a] = "open" /\ idle'[a] = 0 /\ queue[a] = <<>>
            /\ poll'[a] = "pending" /\ event'[a] = event[a] /\ queue'[a] = queue[a]
  BY DEF PollArrives, Open, clientVars, sessionVars, Typed
<1>2. Life(a) /\ Timed(a) /\ Heard(a) /\ Own(a)
  BY DEF Local
<1>3. client[a] = "polling" /\ event[a] = <<>>
  BY <1>1, <1>2 DEF Life
<1>4. Life(a)'
  BY <1>1, <1>2, <1>3 DEF Life
<1>5. Timed(a)'
  BY <1>1, <1>2, <1>3, LocalTyped, Timeouts DEF Timed, Life
<1>6. Own(a)'
  BY <1>1, <1>2 DEF Own, Listening, Open
<1>7. Heard(a)'
  <2>1. CASE event'[a] = event[a] /\ queue'[a] = queue[a]
    BY <1>1, <1>2, <2>1 DEF Heard
  <2>2. CASE ~(event'[a] = event[a] /\ queue'[a] = queue[a])
    <3>1. /\ session[a] = "open" /\ queue[a] # <<>>
          /\ event'[a] = <<Head(queue[a])>> /\ queue'[a] = Tail(queue[a])
      BY <1>1, <2>2 DEF Oldest
    <3>2. queue[a] \in Seq(Messages)
      BY LocalTyped
    <3>3. owed[a] = queue[a]
      <4>1. <<>> \o queue[a] = queue[a]
        BY <3>2, ConcatEmptySeq
      <4> QED BY <1>2, <1>3, <3>1, <4>1 DEF Heard
    <3>4. <<Head(queue[a])>> \o Tail(queue[a]) = queue[a]
      BY <3>1, <3>2, HeadFirst
    <3> QED BY <1>1, <3>1, <3>3, <3>4 DEF Heard
  <2> QED BY <2>1, <2>2
<1> QED BY <1>4, <1>5, <1>6, <1>7 DEF Local

(* Time passes for all at once. *)
LEMMA TickKeeps ==
  ASSUME Typed, NEW b \in Adapters, Local(b), Tick
  PROVE  Local(b)'
<1>1. /\ client'[b] = client[b] /\ roster'[b] = roster[b] /\ join'[b] = join[b] /\ session'[b] = session[b]
      /\ poll'[b] = poll[b] /\ event'[b] = event[b] /\ queue'[b] = queue[b] /\ owed'[b] = owed[b]
      /\ wait'[b] = IF Waits(b) THEN wait[b] + 1 ELSE wait[b]
      /\ idle'[b] = IF session[b] = "open" THEN idle[b] + 1 ELSE idle[b]
      /\ OnTime(b)
  BY DEF Tick, Open, clientVars, httpVars, sessionVars
<1>2. Life(b) /\ Timed(b) /\ Heard(b) /\ Own(b)
  BY DEF Local
<1>3. Life(b)' /\ Heard(b)' /\ Own(b)'
  BY <1>1, <1>2 DEF Life, Heard, Own, Listening, Open
<1>4. Timed(b)'
  <2>1. idle[b] \in Nat /\ wait[b] \in Nat
    BY LocalTyped
  <2>2. CASE (client[b] = "joining" /\ join[b] = "answered") \/ client[b] = "polling" \/ poll[b] = "pending"
    <3>1. wait'[b] = wait[b] + 1 /\ (idle'[b] = idle[b] \/ idle'[b] = idle[b] + 1)
      BY <1>1, <2>2 DEF Waits
    <3>2. PollTimeout \in Nat /\ Latency \in Nat
      BY Timeouts
    <3>3. CASE client[b] = "joining" /\ join[b] = "answered"
      BY <1>1, <1>2, <2>1, <3>1, <3>2, <3>3 DEF Timed, Life, OnTime
    <3>4. CASE poll[b] = "pending"
      BY <1>1, <1>2, <2>1, <3>1, <3>2, <3>4 DEF Timed, Life, OnTime
    <3>5. CASE client[b] = "polling" /\ poll[b] # "pending"
      <4>1. wait'[b] <= Latency
        BY <1>1, <2>1, <3>1, <3>2, <3>5 DEF OnTime
      <4>2. join[b] # "answered" /\ client'[b] = "polling" /\ poll'[b] = poll[b] /\ join'[b] = join[b]
        BY <1>1, <1>2, <3>5 DEF Life
      <4>3. /\ poll[b] \in {"answered", "empty"} => idle'[b] <= wait'[b] + PollTimeout
            /\ poll[b] = "sent" => idle'[b] <= wait'[b] + PollTimeout + Latency
        BY <1>2, <2>1, <3>1, <3>2, <3>5 DEF Timed
      <4> QED BY <3>5, <4>1, <4>2, <4>3 DEF Timed
    <3> QED BY <2>2, <3>3, <3>4, <3>5
  <2>3. CASE ~((client[b] = "joining" /\ join[b] = "answered") \/ client[b] = "polling" \/ poll[b] = "pending")
    <3>1. wait'[b] = wait[b]
      BY <1>1, <2>3 DEF Waits
    <3> QED BY <1>1, <1>2, <2>1, <2>3, <3>1 DEF Timed, Life
  <2> QED BY <2>2, <2>3
<1> QED BY <1>3, <1>4 DEF Local

(* Every step leaves every adapter sound. *)
LEMMA LocalStep ==
  ASSUME PollingInv, [Next]_vars
  PROVE  \A b \in Adapters : Local(b)'
<1> USE DEF clientVars, httpVars, postVars, sessionVars, mailVars, sweepVars
<1>0. Typed /\ Seats /\ \A b \in Adapters : Local(b)
  BY DEF PollingInv
<1>s. ASSUME UNCHANGED <<clientVars, join, poll, event, session, mailVars, wait>> PROVE \A b \in Adapters : Local(b)'
  <2>1. \A b \in Adapters : LocalSame(b)
    BY <1>s DEF LocalSame
  <2> QED BY <1>0, <2>1, LocalKept
<1>1. ASSUME NEW a \in Adapters, Connect(a) PROVE \A b \in Adapters : Local(b)'
  <2>1. ASSUME NEW b \in Adapters, b # a PROVE Local(b)'
    <3>1. LocalSame(b)
      BY <1>0, <1>1, <2>1 DEF Connect, LocalSame, Typed
    <3> QED BY <1>0, <3>1, LocalKept
  <2>2. Local(a)'
    <3>1. /\ client[a] = "idle" /\ client'[a] = "joining" /\ join'[a] = "sent"
          /\ roster'[a] = roster[a] /\ poll'[a] = poll[a] /\ event'[a] = event[a] /\ session'[a] = session[a]
          /\ queue'[a] = queue[a] /\ idle'[a] = idle[a] /\ owed'[a] = owed[a] /\ wait'[a] = wait[a]
      BY <1>0, <1>1 DEF Connect, Typed
    <3>2. Life(a) /\ Timed(a)
      BY <1>0 DEF Local
    <3>3. Life(a)' /\ Timed(a)' /\ Heard(a)' /\ Own(a)'
      BY <3>1, <3>2 DEF Life, Timed, Heard, Own, Listening, Open
    <3> QED BY <3>3 DEF Local
  <2> QED BY <2>1, <2>2
<1>2. ASSUME NEW a \in Adapters, Disconnect(a) \/ PollFails(a) PROVE \A b \in Adapters : Local(b)'
  <2>1. client[a] = "polling" /\ Close(a)
    BY <1>2 DEF Disconnect, PollFails
  <2> QED BY <1>0, <2>1, CloseKeeps
<1>3. ASSUME NEW a \in Adapters, Vanish(a) \/ JoinFails(a) \/ Closed(a) PROVE \A b \in Adapters : Local(b)'
  <2>1. client[a] # "idle" /\ Forget(a) /\ UNCHANGED sessionVars /\ UNCHANGED mailVars
    BY <1>3 DEF Vanish, JoinFails, Closed
  <2> QED BY <1>0, <2>1, ForgetKeeps
<1>4. ASSUME NEW a \in Adapters, JoinArrives(a) PROVE \A b \in Adapters : Local(b)'
  <2>1. ASSUME NEW b \in Adapters, b # a PROVE Local(b)'
    <3>1. LocalSame(b)
      BY <1>0, <1>4, <2>1 DEF JoinArrives, LocalSame, Typed
    <3> QED BY <1>0, <3>1, LocalKept
  <2>2. Local(a)'
    <3>1. /\ join[a] = "sent" /\ client'[a] = client[a]
          /\ poll'[a] = poll[a] /\ event'[a] = event[a] /\ session'[a] = session[a]
          /\ queue'[a] = queue[a] /\ idle'[a] = idle[a] /\ owed'[a] = owed[a] /\ wait'[a] = wait[a]
          /\ \/ join'[a] = "refused"
             \/ join'[a] = "asked" /\ roster'[a] = registry /\ Owner[a] \notin registry
      BY <1>0, <1>4 DEF JoinArrives, Typed
    <3>2. Life(a) /\ Timed(a)
      BY <1>0 DEF Local
    <3>3. Life(a)' /\ Timed(a)' /\ Heard(a)'
      BY <3>1, <3>2 DEF Life, Timed, Heard
    <3>4. Own(a)'
      BY <3>1, <3>2 DEF Own, Listening, Open, Life
    <3> QED BY <3>3, <3>4 DEF Local
  <2> QED BY <2>1, <2>2
<1>5. ASSUME NEW a \in Adapters, JoinResumes(a) PROVE \A b \in Adapters : Local(b)'
  BY <1>5, JoinResumesKeeps
<1>6. ASSUME NEW a \in Adapters, Joined(a) PROVE \A b \in Adapters : Local(b)'
  <2>1. ASSUME NEW b \in Adapters, b # a PROVE Local(b)'
    <3>1. LocalSame(b)
      BY <1>0, <1>6, <2>1 DEF Joined, LocalSame, Typed
    <3> QED BY <1>0, <3>1, LocalKept
  <2>2. Local(a)'
    <3>1. /\ client[a] = "joining" /\ join[a] = "answered" /\ client'[a] = "polling" /\ join'[a] = "none"
          /\ poll'[a] = "sent" /\ wait'[a] = 0
          /\ roster'[a] = roster[a] /\ event'[a] = event[a] /\ session'[a] = session[a]
          /\ queue'[a] = queue[a] /\ idle'[a] = idle[a] /\ owed'[a] = owed[a]
      BY <1>0, <1>6 DEF Joined, Typed
    <3>2. Life(a) /\ Timed(a) /\ Heard(a) /\ Own(a)
      BY <1>0 DEF Local
    <3>3. Life(a)' /\ Heard(a)' /\ Own(a)'
      BY <3>1, <3>2 DEF Life, Heard, Own, Listening, Open
    <3>4. Timed(a)'
      BY <1>0, <3>1, <3>2, LocalTyped, Timeouts DEF Timed
    <3> QED BY <3>3, <3>4 DEF Local
  <2> QED BY <2>1, <2>2
<1>7. ASSUME NEW a \in Adapters, PollArrives(a) PROVE \A b \in Adapters : Local(b)'
  <2>1. ASSUME NEW b \in Adapters, b # a PROVE Local(b)'
    <3>1. LocalSame(b)
      BY <1>0, <1>7, <2>1 DEF PollArrives, LocalSame, Typed
    <3> QED BY <1>0, <3>1, LocalKept
  <2> QED BY <1>0, <1>7, <2>1, PollArrivesKeeps
<1>8. ASSUME NEW a \in Adapters, PollTimesOut(a) \/ PollCloses(a) PROVE \A b \in Adapters : Local(b)'
  <2>1. ASSUME NEW b \in Adapters, b # a PROVE Local(b)'
    <3>1. LocalSame(b)
      BY <1>0, <1>8, <2>1 DEF PollTimesOut, PollCloses, LocalSame, Typed
    <3> QED BY <1>0, <3>1, LocalKept
  <2>2. Local(a)'
    <3>1. /\ poll[a] = "pending" /\ wait'[a] = 0
          /\ \/ client[a] = "polling" /\ poll'[a] = "empty"
             \/ client[a] # "polling" /\ poll'[a] = "none"
          /\ client'[a] = client[a] /\ join'[a] = join[a] /\ roster'[a] = roster[a]
          /\ event'[a] = event[a] /\ session'[a] = session[a]
          /\ queue'[a] = queue[a] /\ idle'[a] = idle[a] /\ owed'[a] = owed[a]
      BY <1>0, <1>8 DEF PollTimesOut, PollCloses, PollAnswer, Typed
    <3>2. Life(a) /\ Timed(a) /\ Heard(a) /\ Own(a)
      BY <1>0 DEF Local
    <3>3. Life(a)' /\ Heard(a)' /\ Own(a)'
      BY <3>1, <3>2 DEF Life, Heard, Own, Listening, Open
    <3>4. Timed(a)'
      BY <1>0, <3>1, <3>2, LocalTyped, Timeouts DEF Timed, Life
    <3> QED BY <3>3, <3>4 DEF Local
  <2> QED BY <2>1, <2>2
<1>9. ASSUME NEW a \in Adapters, HandleAnswer(a) PROVE \A b \in Adapters : Local(b)'
  <2>1. ASSUME NEW b \in Adapters, b # a PROVE Local(b)'
    <3>1. LocalSame(b)
      BY <1>0, <1>9, <2>1 DEF HandleAnswer, LocalSame, Typed
    <3> QED BY <1>0, <3>1, LocalKept
  <2> QED BY <1>0, <1>9, <2>1, HandleAnswerKeeps
<1>10. ASSUME NEW a \in Adapters, NEW f \in Frames, Send(f, a) PROVE \A b \in Adapters : Local(b)'
  BY <1>10, <1>s DEF Send
<1>11. ASSUME NEW f \in Frames, PostArrives(f) PROVE \A b \in Adapters : Local(b)'
  <2>0. UNCHANGED <<client, roster, join, poll, event, session, queue, owed, wait>>
    BY <1>11 DEF PostArrives
  <2>1. CASE idle' = idle
    BY <1>s, <2>0, <2>1
  <2>2. CASE idle' # idle
    <3>1. idle' = [idle EXCEPT ![sender[f]] = 0]
      BY <1>11, <2>2 DEF PostArrives
    <3>2. ASSUME NEW b \in Adapters PROVE Local(b)'
      <4>1. idle'[b] = idle[b] \/ idle'[b] = 0
        BY <1>0, <3>1 DEF Typed
      <4>2. /\ client'[b] = client[b] /\ roster'[b] = roster[b] /\ join'[b] = join[b] /\ poll'[b] = poll[b]
            /\ event'[b] = event[b] /\ session'[b] = session[b] /\ queue'[b] = queue[b]
            /\ owed'[b] = owed[b] /\ wait'[b] = wait[b]
        BY <2>0
      <4>3. Life(b) /\ Timed(b) /\ Heard(b) /\ Own(b)
        BY <1>0 DEF Local
      <4>4. Life(b)' /\ Heard(b)' /\ Own(b)'
        BY <4>1, <4>2, <4>3 DEF Life, Heard, Own, Listening, Open
      <4>5. Timed(b)'
        BY <1>0, <4>1, <4>2, <4>3, LocalTyped, Timeouts DEF Timed
      <4> QED BY <4>4, <4>5 DEF Local
    <3> QED BY <3>2
  <2> QED BY <2>1, <2>2
<1>12. ASSUME NEW f \in Frames, PostRead(f) PROVE \A b \in Adapters : Local(b)'
  <2>1. sender[f] \in Adapters /\ Owner[sender[f]] \in Peers
    BY <1>0, <1>12, AdaptersOfPeers DEF PostRead, Typed, Sent
  <2>2. PICK m \in Messages : m.peer \in Peers /\ Broadcast(m)
    BY <1>12, <2>1, MessageTyped DEF PostRead
  <2>3. UNCHANGED <<client, roster, join, session>>
    BY <1>12 DEF PostRead
  <2> QED BY <1>0, <2>2, <2>3, BroadcastKeeps
<1>13. ASSUME NEW f \in Frames, PostRefused(f) PROVE \A b \in Adapters : Local(b)'
  <2>1. sender[f] \in Adapters
    BY <1>0, <1>13 DEF PostRefused, Typed, Sent
  <2>2. CASE client[sender[f]] = "polling"
    <3>1. Close(sender[f])
      BY <1>13, <2>2 DEF PostRefused
    <3> QED BY <1>0, <2>1, <2>2, <3>1, CloseKeeps
  <2>3. CASE client[sender[f]] # "polling"
    BY <1>s, <1>13, <2>3 DEF PostRefused
  <2> QED BY <2>2, <2>3
<1>14. ASSUME NEW f \in Frames, PostLost(f) PROVE \A b \in Adapters : Local(b)'
  BY <1>s, <1>14 DEF PostLost
<1>15. ASSUME NEW a \in Adapters, DeleteArrives(a) \/ SweepRemoves(a) PROVE \A b \in Adapters : Local(b)'
  <2>1. CASE a \in Open
    <3>1. RemoveSession(a) /\ UNCHANGED <<clientVars, join, event>>
      BY <1>15, <2>1 DEF DeleteArrives, SweepRemoves
    <3>2. session[a] = "open"
      BY <2>1 DEF Open
    <3> QED BY <1>0, <3>1, <3>2, RemoveKeeps
  <2>2. CASE a \notin Open
    BY <1>s, <1>15, <2>2 DEF DeleteArrives, SweepRemoves
  <2> QED BY <2>1, <2>2
<1>16. ASSUME NEW a \in Adapters, LeaveResumes(a) PROVE \A b \in Adapters : Local(b)'
  BY <1>16, LeaveResumesKeeps
<1>17. CASE Sweep \/ UNCHANGED vars
  BY <1>s, <1>17 DEF Sweep, vars
<1>18. CASE Tick
  BY <1>0, <1>18, TickKeeps
<1> QED
  BY <1>1, <1>2, <1>3, <1>4, <1>5, <1>6, <1>7, <1>8, <1>9, <1>10, <1>11, <1>12, <1>13, <1>14, <1>15,
     <1>16, <1>17, <1>18
  DEF Next, JoinStep, PollStep, LeaveStep, PostStep
-----------------------------------------------------------------------------
(* The calls that wait: t is s without its i-th. *)
Without(s, i, t) ==
  /\ Len(t) = Len(s) - 1
  /\ \A n \in 1..Len(t) : t[n] = IF n < i THEN s[n] ELSE s[n + 1]

(* That is what is left when one in the middle is cut out. *)
LEMMA CutOut ==
  ASSUME NEW S, NEW s \in Seq(S), NEW i \in 1..Len(s)
  PROVE  Without(s, i, SubSeq(s, 1, i - 1) \o SubSeq(s, i + 1, Len(s)))
<1> DEFINE l == SubSeq(s, 1, i - 1)
           r == SubSeq(s, i + 1, Len(s))
<1>1. Len(s) \in Nat /\ \A n \in 1..Len(s) : s[n] \in S
  BY LenProperties, ElementOfSeq
<1>2. /\ l \in Seq(S) /\ Len(l) = i - 1 /\ \A n \in 1..i - 1 : l[n] = s[n]
      /\ r \in Seq(S) /\ Len(r) = Len(s) - i /\ \A n \in 1..Len(s) - i : r[n] = s[i + n]
  <2>1. /\ SubSeq(s, 1, i - 1) \in Seq(S) /\ Len(SubSeq(s, 1, i - 1)) = i - 1
        /\ \A n \in 1..i - 1 : SubSeq(s, 1, i - 1)[n] = s[n]
    BY <1>1, SubSeqProperties
  <2>2. /\ SubSeq(s, i + 1, Len(s)) \in Seq(S) /\ Len(SubSeq(s, i + 1, Len(s))) = Len(s) - i
        /\ \A n \in 1..Len(s) - i : SubSeq(s, i + 1, Len(s))[n] = s[i + n]
    BY <1>1, SubSeqProperties
  <2> QED BY <2>1, <2>2
<1> HIDE DEF l, r
<1>3. Len(l \o r) = Len(s) - 1
  <2>1. Len(l \o r) = Len(l) + Len(r)
    BY <1>2, ConcatProperties
  <2> QED BY <1>1, <1>2, <2>1
<1>4. ASSUME NEW n \in 1..Len(l \o r) PROVE (l \o r)[n] = IF n < i THEN s[n] ELSE s[n + 1]
  <2>1. n \in 1..Len(l) + Len(r) /\ (l \o r)[n] = IF n <= Len(l) THEN l[n] ELSE r[n - Len(l)]
    BY <1>1, <1>2, <1>3, ConcatProperties
  <2>0. Len(l) = i - 1 /\ Len(l) + Len(r) = Len(s) - 1
    BY <1>1, <1>2
  <2>2. CASE n < i
    <3>1. n <= Len(l) /\ n \in 1..i - 1
      BY <1>1, <2>0, <2>1, <2>2
    <3>2. (l \o r)[n] = l[n] /\ l[n] = s[n]
      BY <1>2, <2>1, <3>1
    <3> QED BY <2>2, <3>2
  <2>3. CASE ~(n < i)
    <3>1. ~(n <= Len(l)) /\ n - Len(l) \in 1..Len(s) - i /\ i + (n - Len(l)) = n + 1
      BY <1>1, <2>0, <2>1, <2>3
    <3>2. (l \o r)[n] = r[n - Len(l)] /\ r[n - Len(l)] = s[n + 1]
      BY <1>2, <2>1, <3>1
    <3> QED BY <2>3, <3>2
  <2> QED BY <2>2, <2>3
<1>5. Without(s, i, l \o r)
  BY <1>3, <1>4 DEF Without
<1> QED BY <1>5 DEF l, r

(* A join that resumes leaves the queue of calls. *)
LEMMA JoinLeavesQueue ==
  ASSUME Typed, NEW a \in Adapters, JoinResumes(a)
  PROVE  /\ join[a] = "asked"
         /\ \E i \in 1..Len(awaiting) :
                awaiting[i] = Call("join", a) /\ Without(awaiting, i, awaiting')
<1>1. awaiting \in Seq(Calls) /\ DOMAIN awaiting = 1..Len(awaiting)
  BY LenProperties DEF Typed
<1>2. PICK i \in DOMAIN awaiting :
        /\ awaiting[i] = Call("join", a)
        /\ awaiting' = SubSeq(awaiting, 1, i - 1) \o SubSeq(awaiting, i + 1, Len(awaiting))
  BY DEF JoinResumes
<1>3. Without(awaiting, i, awaiting')
  BY <1>1, <1>2, CutOut
<1> QED BY <1>1, <1>2, <1>3 DEF JoinResumes

(* A leave resumes when it is the first. *)
LEMMA LeaveLeavesQueue ==
  ASSUME Typed, NEW a \in Adapters, LeaveResumes(a)
  PROVE  /\ 1 \in 1..Len(awaiting) /\ awaiting[1] = Call("leave", a)
         /\ Without(awaiting, 1, awaiting')
<1>1. awaiting \in Seq(Calls) /\ awaiting # <<>> /\ Head(awaiting) = Call("leave", a)
      /\ awaiting' = Tail(awaiting)
  BY DEF LeaveResumes, Typed
<1>2. 1 \in 1..Len(awaiting) /\ awaiting[1] = Call("leave", a)
  BY <1>1, EmptySeq, LenProperties
<1>3. Without(awaiting, 1, awaiting')
  BY <1>1, HeadTailProperties, LenProperties DEF Without
<1> QED BY <1>2, <1>3

(* Calls are told apart by what they are of and whose. *)
LEMMA CallsDiffer ==
  /\ \A c \in Calls : c = Call(c.op, c.adapter) /\ c.op \in {"join", "leave"} /\ c.adapter \in Adapters
  /\ \A a : Call("join", a).op = "join" /\ Call("join", a).adapter = a
  /\ \A a : Call("leave", a).op = "leave" /\ Call("leave", a).adapter = a
BY DEF Calls, Call

(* A call more at the end. *)
LEMMA CallAdded ==
  ASSUME Typed, NEW c \in Calls, awaiting' = Append(awaiting, c)
  PROVE  /\ Len(awaiting) \in Nat /\ Len(awaiting') = Len(awaiting) + 1
         /\ awaiting'[Len(awaiting) + 1] = c
         /\ \A n \in 1..Len(awaiting) : awaiting'[n] = awaiting[n] /\ awaiting[n] \in Calls
<1>1. awaiting \in Seq(Calls)
  BY DEF Typed
<1> QED BY <1>1, AppendProperties, LenProperties, ElementOfSeq

(* What a step may do to the sessions and the seats. *)
Still ==
  /\ UNCHANGED <<session, seat, registry, awaiting>>
  /\ \A b \in Adapters : join'[b] = "asked" <=> join[b] = "asked"

JoinAsked(a) == JoinArrives(a) /\ Owner[a] \notin registry

Removal(a) == RemoveSession(a) /\ session[a] = "open" /\ UNCHANGED <<client, roster, join, event, misled>>

(* It is a join asked for or resumed, a removal begun or ended, or nothing. *)
LEMMA SessionSteps ==
  ASSUME PollingInv, [Next]_vars
  PROVE  \/ Still
         \/ \E a \in Adapters : JoinAsked(a) \/ JoinResumes(a) \/ Removal(a) \/ LeaveResumes(a)
<1> USE DEF clientVars, httpVars, postVars, sessionVars, mailVars, sweepVars
<1>0. Typed
  BY DEF PollingInv
<1>1. ASSUME UNCHANGED <<session, seat, registry, awaiting, join>> PROVE Still
  BY <1>1 DEF Still
<1>2. ASSUME NEW a \in Adapters, Connect(a) PROVE Still
  <2>1. /\ join' = [join EXCEPT ![a] = "sent"] /\ client[a] = "idle"
        /\ UNCHANGED <<session, seat, registry, awaiting>>
    BY <1>2 DEF Connect
  <2>2. join[a] = "none"
    BY <2>1 DEF PollingInv, Local, Life
  <2> QED BY <1>0, <2>1, <2>2 DEF Still, Typed
<1>3. ASSUME NEW a \in Adapters, Vanish(a) \/ JoinFails(a) \/ Closed(a) PROVE Still
  <2>1. Forget(a) /\ UNCHANGED <<session, seat, registry, awaiting>>
    BY <1>3 DEF Vanish, JoinFails, Closed
  <2>2. \A b \in Adapters : join'[b] = "asked" <=> join[b] = "asked"
    BY <1>0, <2>1 DEF Forget, Typed
  <2> QED BY <2>1, <2>2 DEF Still
<1>4. ASSUME NEW a \in Adapters, Joined(a) PROVE Still
  BY <1>0, <1>4 DEF Joined, Still, Typed
<1>5. ASSUME NEW a \in Adapters, JoinArrives(a) PROVE JoinAsked(a) \/ Still
  <2>1. CASE Owner[a] \in registry
    <3>1. join' = [join EXCEPT ![a] = "refused"] /\ join[a] = "sent" /\ UNCHANGED <<session, seat, registry, awaiting>>
      BY <1>5, <2>1 DEF JoinArrives
    <3> QED BY <1>0, <3>1 DEF Still, Typed
  <2>2. CASE Owner[a] \notin registry
    BY <1>5, <2>2 DEF JoinAsked
  <2> QED BY <2>1, <2>2
<1>6. ASSUME NEW a \in Adapters, Disconnect(a) \/ PollFails(a) PROVE Still
  BY <1>1, <1>6 DEF Disconnect, PollFails, Close
<1>7. ASSUME NEW a \in Adapters, PollArrives(a) \/ PollTimesOut(a) \/ PollCloses(a) \/ HandleAnswer(a) PROVE Still
  BY <1>1, <1>7 DEF PollArrives, PollTimesOut, PollCloses, HandleAnswer
<1>8. ASSUME NEW f \in Frames, PostStep(f) PROVE Still
  <2>1. CASE PostArrives(f) \/ PostRead(f) \/ PostLost(f)
    BY <1>1, <2>1 DEF PostArrives, PostRead, PostLost
  <2>2. CASE PostRefused(f)
    BY <1>1, <2>2 DEF PostRefused, Close
  <2> QED BY <1>8, <2>1, <2>2 DEF PostStep
<1>9. ASSUME NEW a \in Adapters, DeleteArrives(a) \/ SweepRemoves(a) PROVE Removal(a) \/ Still
  <2>1. CASE a \in Open
    BY <1>9, <2>1 DEF DeleteArrives, SweepRemoves, Removal, Open
  <2>2. CASE a \notin Open
    BY <1>1, <1>9, <2>2 DEF DeleteArrives, SweepRemoves
  <2> QED BY <2>1, <2>2
<1>10. ASSUME NEW a \in Adapters, NEW f \in Frames, Send(f, a) PROVE Still
  BY <1>1, <1>10 DEF Send
<1>11. CASE Sweep \/ Tick \/ UNCHANGED vars
  BY <1>1, <1>11 DEF Sweep, Tick, vars
<1> QED
  BY <1>2, <1>3, <1>4, <1>5, <1>6, <1>7, <1>8, <1>9, <1>10, <1>11
  DEF Next, JoinStep, PollStep, LeaveStep

(* Each of them keeps the seats... *)
LEMMA SeatsStep ==
  ASSUME PollingInv, [Next]_vars
  PROVE  Seats'
<1>0. Typed /\ Seats /\ \A b \in Adapters : Life(b)
  BY DEF PollingInv, Local
<1>t. \A b \in Adapters : Owner[b] \in Peers
  BY AdaptersOfPeers
<1>1. CASE Still
  <2>1. \A b \in Adapters : In(b)' <=> In(b)
    BY <1>1 DEF Still, In
  <2>2. UNCHANGED <<session, seat, registry>>
    BY <1>1 DEF Still
  <2>3. registry' = {p \in Peers : \E a \in Adapters : In(a)' /\ Owner[a] = p}
    BY <1>0, <2>1, <2>2 DEF Seats
  <2>4. \A a, b \in Adapters : In(a)' /\ In(b)' /\ Owner[a] = Owner[b] => a = b
    BY <1>0, <2>1 DEF Seats
  <2> QED BY <1>0, <2>2, <2>3, <2>4 DEF Seats
<1>2. ASSUME NEW a \in Adapters, JoinAsked(a) PROVE Seats'
  <2>1. /\ session' = session /\ seat' = seat /\ join' = [join EXCEPT ![a] = "asked"]
        /\ registry' = registry \cup {Owner[a]} /\ Owner[a] \notin registry
    BY <1>2 DEF JoinAsked, JoinArrives
  <2>2. \A b \in Adapters : In(b)' <=> In(b) \/ b = a
    BY <1>0, <2>1 DEF In, Typed
  <2>3. registry' = {p \in Peers : \E b \in Adapters : In(b)' /\ Owner[b] = p}
    BY <1>0, <1>t, <2>1, <2>2 DEF Seats
  <2>4. \A b, c \in Adapters : In(b)' /\ In(c)' /\ Owner[b] = Owner[c] => b = c
    BY <1>0, <1>t, <2>1, <2>2 DEF Seats
  <2> QED BY <1>0, <2>1, <2>3, <2>4 DEF Seats
<1>3. ASSUME NEW a \in Adapters, JoinResumes(a) PROVE Seats'
  <2>1. /\ session' = [session EXCEPT ![a] = "open"] /\ seat' = [seat EXCEPT ![Owner[a]] = a]
        /\ join' = [join EXCEPT ![a] = Answer(a, "answered")] /\ join[a] = "asked"
        /\ registry' = registry
    BY <1>3 DEF JoinResumes
  <2>2. \A b \in Adapters : In(b)' <=> In(b)
    BY <1>0, <2>1 DEF In, Typed, Answer
  <2>3. registry' = {p \in Peers : \E b \in Adapters : In(b)' /\ Owner[b] = p}
    BY <1>0, <2>1, <2>2 DEF Seats
  <2>4. \A b, c \in Adapters : In(b)' /\ In(c)' /\ Owner[b] = Owner[c] => b = c
    BY <1>0, <2>2 DEF Seats
  <2>5. ASSUME NEW p \in Peers, NEW b \in Adapters
        PROVE  seat'[p] = b <=> session'[b] = "open" /\ Owner[b] = p
    <3>1. In(a) /\ session[a] # "open"
      BY <1>0, <2>1 DEF In, Life
    <3>2. CASE p = Owner[a]
      BY <1>0, <2>1, <3>1, <3>2 DEF Seats, Typed, In
    <3>3. CASE p # Owner[a]
      BY <1>0, <2>1, <3>1, <3>3 DEF Seats, Typed
    <3> QED BY <3>2, <3>3
  <2> QED BY <2>3, <2>4, <2>5 DEF Seats
<1>4. ASSUME NEW a \in Adapters, Removal(a) PROVE Seats'
  <2>1. /\ session' = [session EXCEPT ![a] = "removing"] /\ seat' = [seat EXCEPT ![Owner[a]] = NoAdapter]
        /\ join' = join /\ session[a] = "open"
        /\ registry' = registry \ {Owner[a]}
    BY <1>4 DEF Removal, RemoveSession
  <2>2. \A b \in Adapters : In(b)' <=> In(b) /\ b # a
    BY <1>0, <2>1 DEF In, Typed, Life
  <2>3. In(a)
    BY <2>1 DEF In
  <2>4. registry' = {p \in Peers : \E b \in Adapters : In(b)' /\ Owner[b] = p}
    BY <1>0, <2>1, <2>2, <2>3 DEF Seats
  <2>5. \A b, c \in Adapters : In(b)' /\ In(c)' /\ Owner[b] = Owner[c] => b = c
    BY <1>0, <2>2 DEF Seats
  <2>6. ASSUME NEW p \in Peers, NEW b \in Adapters
        PROVE  seat'[p] = b <=> session'[b] = "open" /\ Owner[b] = p
    <3>1. CASE p = Owner[a]
      BY <1>0, <2>1, <2>3, <3>1, AdaptersOfPeers DEF Seats, Typed, In
    <3>2. CASE p # Owner[a]
      BY <1>0, <2>1, <3>2 DEF Seats, Typed
    <3> QED BY <3>1, <3>2
  <2> QED BY <2>4, <2>5, <2>6 DEF Seats
<1>5. ASSUME NEW a \in Adapters, LeaveResumes(a) PROVE Seats'
  <2>1. /\ session' = [session EXCEPT ![a] = "removed"] /\ seat' = seat /\ join' = join
        /\ registry' = registry /\ session[a] = "removing"
    BY <1>5, LeaveResumesKeeps DEF LeaveResumes
  <2>2. \A b \in Adapters : (session'[b] = "open" <=> session[b] = "open") /\ (In(b)' <=> In(b))
    BY <1>0, <2>1 DEF In, Typed
  <2>3. registry' = {p \in Peers : \E b \in Adapters : In(b)' /\ Owner[b] = p}
    BY <1>0, <2>1, <2>2 DEF Seats
  <2>4. \A b, c \in Adapters : In(b)' /\ In(c)' /\ Owner[b] = Owner[c] => b = c
    BY <1>0, <2>2 DEF Seats
  <2> QED BY <1>0, <2>1, <2>2, <2>3, <2>4 DEF Seats
<1> QED BY <1>1, <1>2, <1>3, <1>4, <1>5, SessionSteps

(* ...and the calls that wait. *)
LEMMA QueuedStep ==
  ASSUME PollingInv, [Next]_vars
  PROVE  Queued'
<1>0. Typed /\ Seats /\ Queued /\ \A b \in Adapters : Life(b)
  BY DEF PollingInv, Local
<1>t. Len(awaiting) \in Nat /\ \A n \in 1..Len(awaiting) : awaiting[n] \in Calls
  BY <1>0, LenProperties, ElementOfSeq DEF Typed
<1>c. \A n \in 1..Len(awaiting) :
        /\ awaiting[n].adapter \in Adapters /\ awaiting[n].op \in {"join", "leave"}
        /\ awaiting[n] = Call(awaiting[n].op, awaiting[n].adapter)
  BY <1>t, CallsDiffer
<1>1. CASE Still
  <2>1. session' = session /\ awaiting' = awaiting /\ \A b \in Adapters : join'[b] = "asked" <=> join[b] = "asked"
    BY <1>1 DEF Still
  <2> QED BY <1>0, <1>c, <2>1 DEF Queued
<1>2. ASSUME NEW a \in Adapters, JoinAsked(a) PROVE Queued'
  <2>1. /\ session' = session /\ join' = [join EXCEPT ![a] = "asked"] /\ join[a] = "sent"
        /\ awaiting' = Append(awaiting, Call("join", a))
    BY <1>2 DEF JoinAsked, JoinArrives
  <2>2. /\ Len(awaiting') = Len(awaiting) + 1 /\ awaiting'[Len(awaiting) + 1] = Call("join", a)
        /\ \A n \in 1..Len(awaiting) : awaiting'[n] = awaiting[n]
    <3>1. Call("join", a) \in Calls
      BY DEF Call, Calls
    <3> QED BY <1>0, <2>1, <3>1, CallAdded
  <2>3. \A n \in 1..Len(awaiting) : awaiting[n] # Call("join", a)
    BY <1>0, <2>1, CallsDiffer DEF Queued
  <2>4. \A b \in Adapters : join'[b] = "asked" <=> join[b] = "asked" \/ b = a
    BY <1>0, <2>1 DEF Typed
  <2>5. ASSUME NEW n \in 1..Len(awaiting')
        PROVE  /\ awaiting'[n].op = "join" => join'[awaiting'[n].adapter] = "asked"
               /\ awaiting'[n].op = "leave" => session'[awaiting'[n].adapter] = "removing"
    <3>1. CASE n \in 1..Len(awaiting)
      BY <1>0, <1>c, <2>1, <2>2, <2>4, <3>1 DEF Queued
    <3>2. CASE n = Len(awaiting) + 1
      BY <2>2, <2>4, <3>2, CallsDiffer
    <3> QED BY <1>t, <2>2, <3>1, <3>2
  <2>6. ASSUME NEW m \in 1..Len(awaiting'), NEW n \in 1..Len(awaiting'), awaiting'[m] = awaiting'[n] PROVE m = n
    BY <1>0, <1>t, <2>2, <2>3, <2>6 DEF Queued
  <2>7. ASSUME NEW b \in Adapters, join'[b] = "asked"
        PROVE  \E n \in 1..Len(awaiting') : awaiting'[n] = Call("join", b)
    <3>1. CASE b = a
      BY <1>t, <2>2, <3>1
    <3>2. CASE b # a
      <4>1. PICK n \in 1..Len(awaiting) : awaiting[n] = Call("join", b)
        BY <1>0, <2>4, <2>7, <3>2 DEF Queued
      <4> QED BY <1>t, <2>2, <4>1
    <3> QED BY <3>1, <3>2
  <2> QED BY <2>5, <2>6, <2>7 DEF Queued
<1>3. ASSUME NEW a \in Adapters, NEW i \in 1..Len(awaiting), Without(awaiting, i, awaiting'),
             \A b \in Adapters : (join'[b] = "asked" <=> join[b] = "asked" /\ awaiting[i] # Call("join", b)),
             \A b \in Adapters : session[b] = "removing" /\ awaiting[i] # Call("leave", b) => session'[b] = "removing"
      PROVE  Queued'
  <2>1. /\ Len(awaiting') = Len(awaiting) - 1
        /\ \A n \in 1..Len(awaiting') :
             (n < i => awaiting'[n] = awaiting[n]) /\ (~(n < i) => awaiting'[n] = awaiting[n + 1])
    BY <1>3 DEF Without
  <2>i. i \in Nat /\ Len(awaiting') \in Int
    BY <1>t, <2>1
  <2>2. \A n \in 1..Len(awaiting') : \E k \in 1..Len(awaiting) : awaiting'[n] = awaiting[k] /\ k # i
    <3> TAKE n \in 1..Len(awaiting')
    <3>1. n \in 1..Len(awaiting) /\ n + 1 \in 1..Len(awaiting)
      BY <1>t, <2>1
    <3>2. CASE n < i
      <4>1. awaiting'[n] = awaiting[n] /\ n # i
        BY <2>1, <2>i, <3>2
      <4> QED BY <3>1, <4>1
    <3>3. CASE ~(n < i)
      <4>1. awaiting'[n] = awaiting[n + 1] /\ n + 1 # i
        BY <2>1, <2>i, <3>3
      <4> QED BY <3>1, <4>1
    <3> QED BY <3>2, <3>3
  <2>3. ASSUME NEW n \in 1..Len(awaiting')
        PROVE  /\ awaiting'[n].op = "join" => join'[awaiting'[n].adapter] = "asked"
               /\ awaiting'[n].op = "leave" => session'[awaiting'[n].adapter] = "removing"
    <3>1. PICK k \in 1..Len(awaiting) : awaiting'[n] = awaiting[k] /\ k # i
      BY <2>2
    <3>2. awaiting[k] # awaiting[i]
      BY <1>0, <3>1 DEF Queued
    <3> QED BY <1>0, <1>c, <1>3, <3>1, <3>2 DEF Queued
  <2>4. ASSUME NEW m \in 1..Len(awaiting'), NEW n \in 1..Len(awaiting'), awaiting'[m] = awaiting'[n] PROVE m = n
    <3>1. m \in 1..Len(awaiting) /\ m + 1 \in 1..Len(awaiting) /\ n \in 1..Len(awaiting) /\ n + 1 \in 1..Len(awaiting)
      BY <1>t, <2>1
    <3>2. \A k, l \in 1..Len(awaiting) : awaiting[k] = awaiting[l] => k = l
      BY <1>0 DEF Queued
    <3>3. CASE m < i /\ n < i
      BY <2>1, <2>i, <2>4, <3>1, <3>2, <3>3
    <3>4. CASE m < i /\ ~(n < i)
      <4>1. m = n + 1
        BY <2>1, <2>i, <2>4, <3>1, <3>2, <3>4
      <4> QED BY <3>4, <4>1
    <3>5. CASE ~(m < i) /\ n < i
      <4>1. n = m + 1
        BY <2>1, <2>i, <2>4, <3>1, <3>2, <3>5
      <4> QED BY <3>5, <4>1
    <3>6. CASE ~(m < i) /\ ~(n < i)
      <4>1. m + 1 = n + 1
        BY <2>1, <2>i, <2>4, <3>1, <3>2, <3>6
      <4> QED BY <4>1
    <3> QED BY <3>3, <3>4, <3>5, <3>6
  <2>5. ASSUME NEW b \in Adapters, join'[b] = "asked"
        PROVE  \E n \in 1..Len(awaiting') : awaiting'[n] = Call("join", b)
    <3>1. PICK k \in 1..Len(awaiting) : awaiting[k] = Call("join", b)
      BY <1>0, <1>3, <2>5 DEF Queued
    <3>2. k # i
      BY <1>3, <2>5, <3>1
    <3>3. CASE k < i
      <4>1. k \in 1..Len(awaiting')
        BY <1>t, <2>1, <3>3
      <4>2. awaiting'[k] = awaiting[k]
        BY <2>1, <2>i, <3>3, <4>1
      <4> QED BY <3>1, <4>1, <4>2
    <3>4. CASE k > i
      <4>1. k - 1 \in 1..Len(awaiting') /\ ~(k - 1 < i) /\ (k - 1) + 1 = k
        BY <1>t, <2>1, <3>4
      <4>2. awaiting'[k - 1] = awaiting[k]
        BY <2>1, <4>1
      <4> QED BY <3>1, <4>1, <4>2
    <3> QED BY <3>2, <3>3, <3>4
  <2> QED BY <2>3, <2>4, <2>5 DEF Queued
<1>4. ASSUME NEW a \in Adapters, JoinResumes(a) PROVE Queued'
  <2>1. PICK i \in 1..Len(awaiting) : awaiting[i] = Call("join", a) /\ Without(awaiting, i, awaiting')
    BY <1>0, <1>4, JoinLeavesQueue
  <2>2. /\ session' = [session EXCEPT ![a] = "open"] /\ join[a] = "asked"
        /\ join' = [join EXCEPT ![a] = Answer(a, "answered")]
    BY <1>4 DEF JoinResumes
  <2>3. session[a] = "none"
    BY <1>0, <2>2 DEF Life
  <2>4. \A b \in Adapters : Call("join", b) = awaiting[i] <=> b = a
    BY <2>1, CallsDiffer
  <2>5. \A b \in Adapters : join'[b] = "asked" <=> join[b] = "asked" /\ awaiting[i] # Call("join", b)
    BY <1>0, <2>2, <2>4 DEF Typed, Answer
  <2>6. \A b \in Adapters : session[b] = "removing" /\ awaiting[i] # Call("leave", b) => session'[b] = "removing"
    BY <1>0, <2>2, <2>3 DEF Typed
  <2> QED BY <1>3, <2>1, <2>5, <2>6
<1>5. ASSUME NEW a \in Adapters, Removal(a) PROVE Queued'
  <2>1. /\ session' = [session EXCEPT ![a] = "removing"] /\ join' = join /\ session[a] = "open"
        /\ awaiting' = Append(awaiting, Call("leave", a))
    BY <1>5 DEF Removal, RemoveSession
  <2>2. /\ Len(awaiting') = Len(awaiting) + 1 /\ awaiting'[Len(awaiting) + 1] = Call("leave", a)
        /\ \A n \in 1..Len(awaiting) : awaiting'[n] = awaiting[n]
    <3>1. Call("leave", a) \in Calls
      BY DEF Call, Calls
    <3> QED BY <1>0, <2>1, <3>1, CallAdded
  <2>3. \A n \in 1..Len(awaiting) : awaiting[n] # Call("leave", a)
    BY <1>0, <2>1, CallsDiffer DEF Queued
  <2>4. \A b \in Adapters : session'[b] = "removing" <=> session[b] = "removing" \/ b = a
    BY <1>0, <2>1 DEF Typed
  <2>5. ASSUME NEW n \in 1..Len(awaiting')
        PROVE  /\ awaiting'[n].op = "join" => join'[awaiting'[n].adapter] = "asked"
               /\ awaiting'[n].op = "leave" => session'[awaiting'[n].adapter] = "removing"
    <3>1. CASE n \in 1..Len(awaiting)
      BY <1>0, <1>c, <2>1, <2>2, <2>4, <3>1 DEF Queued
    <3>2. CASE n = Len(awaiting) + 1
      BY <2>2, <2>4, <3>2, CallsDiffer
    <3> QED BY <1>t, <2>2, <3>1, <3>2
  <2>6. ASSUME NEW m \in 1..Len(awaiting'), NEW n \in 1..Len(awaiting'), awaiting'[m] = awaiting'[n] PROVE m = n
    BY <1>0, <1>t, <2>2, <2>3, <2>6 DEF Queued
  <2>7. ASSUME NEW b \in Adapters, join'[b] = "asked"
        PROVE  \E n \in 1..Len(awaiting') : awaiting'[n] = Call("join", b)
    <3>1. PICK n \in 1..Len(awaiting) : awaiting[n] = Call("join", b)
      BY <1>0, <2>1, <2>7 DEF Queued
    <3> QED BY <1>t, <2>2, <3>1
  <2> QED BY <2>5, <2>6, <2>7 DEF Queued
<1>6. ASSUME NEW a \in Adapters, LeaveResumes(a) PROVE Queued'
  <2>1. 1 \in 1..Len(awaiting) /\ awaiting[1] = Call("leave", a) /\ Without(awaiting, 1, awaiting')
    BY <1>0, <1>6, LeaveLeavesQueue
  <2>2. session' = [session EXCEPT ![a] = "removed"] /\ join' = join
    BY <1>6 DEF LeaveResumes
  <2>3. \A b \in Adapters : join'[b] = "asked" <=> join[b] = "asked" /\ awaiting[1] # Call("join", b)
    BY <2>1, <2>2, CallsDiffer
  <2>4. \A b \in Adapters : session[b] = "removing" /\ awaiting[1] # Call("leave", b) => session'[b] = "removing"
    BY <1>0, <2>1, <2>2 DEF Typed
  <2> QED BY <1>3, <2>1, <2>3, <2>4
<1> QED BY <1>1, <1>2, <1>4, <1>5, <1>6, SessionSteps

(* A client that polls, or is about to, has been heard of in time. *)
LEMMA PollersHeardOf ==
  ASSUME Typed, NEW a \in Adapters, Local(a), session[a] = "open", idle[a] >= IdleTimeout
  PROVE  client[a] \in {"leaving", "gone"}
<1>1. Life(a) /\ Timed(a)
  BY DEF Local
<1>2. client[a] \in {"joining", "polling"} => idle[a] <= PollTimeout + 2 * Latency
  <2>1. /\ idle[a] \in Nat /\ wait[a] \in Nat /\ PollTimeout \in Nat /\ Latency \in Nat
        /\ poll[a] \in {"none", "sent", "pending", "answered", "empty", "refused"}
        /\ join[a] \in {"none", "sent", "asked", "answered", "refused"}
    BY LocalTyped, Timeouts
  <2>2. CASE client[a] = "joining"
    <3>1. wait[a] <= Latency /\ idle[a] <= wait[a]
      BY <1>1, <2>1, <2>2 DEF Life, Timed
    <3> QED BY <2>1, <3>1
  <2>3. CASE client[a] = "polling"
    <3>1. poll[a] \in {"sent", "pending", "answered", "empty"}
      BY <1>1, <2>1, <2>3 DEF Life
    <3>2. CASE poll[a] = "sent"
      <4>1. wait[a] <= Latency /\ idle[a] <= wait[a] + PollTimeout + Latency
        BY <1>1, <2>3, <3>2 DEF Timed
      <4> QED BY <2>1, <4>1
    <3>3. CASE poll[a] = "pending"
      <4>1. wait[a] <= PollTimeout /\ idle[a] <= wait[a]
        BY <1>1, <2>3, <3>3 DEF Timed
      <4> QED BY <2>1, <4>1
    <3>4. CASE poll[a] \in {"answered", "empty"}
      <4>1. wait[a] <= Latency /\ idle[a] <= wait[a] + PollTimeout
        BY <1>1, <2>3, <3>4 DEF Timed
      <4> QED BY <2>1, <4>1
    <3> QED BY <3>1, <3>2, <3>3, <3>4
  <2> QED BY <2>2, <2>3
<1>3. client[a] # "idle"
  BY <1>1 DEF Life
<1>4. client[a] \notin {"joining", "polling"}
  BY <1>2, LocalTyped, Timeouts
<1> QED BY <1>3, <1>4, LocalTyped

(* A client done with its session never takes it up again. *)
LEMMA ClientsEnd ==
  ASSUME PollingInv, [Next]_vars, NEW b \in Adapters, client[b] \in {"leaving", "gone"}
  PROVE  client'[b] \in {"leaving", "gone"}
<1> USE DEF clientVars, httpVars, postVars, sessionVars, mailVars, sweepVars
<1>0. Typed
  BY DEF PollingInv
<1>1. ASSUME NEW a \in Adapters, Connect(a) PROVE client'[b] \in {"leaving", "gone"}
  BY <1>0, <1>1 DEF Connect, Typed
<1>2. ASSUME NEW a \in Adapters, Forget(a) PROVE client'[b] \in {"leaving", "gone"}
  BY <1>0, <1>2 DEF Forget, Typed
<1>3. ASSUME NEW a \in Adapters, Close(a) PROVE client'[b] \in {"leaving", "gone"}
  BY <1>0, <1>3 DEF Close, Typed
<1>4. ASSUME NEW a \in Adapters, Joined(a) PROVE client'[b] \in {"leaving", "gone"}
  BY <1>0, <1>4 DEF Joined, Typed
<1>5. ASSUME NEW f \in Frames, PostRefused(f) PROVE client'[b] \in {"leaving", "gone"}
  <2>1. sender[f] \in Adapters
    BY <1>0, <1>5 DEF PostRefused, Typed, Sent
  <2> QED BY <1>3, <1>5, <2>1 DEF PostRefused
<1>6. CASE client' = client
  BY <1>6
<1>7. CASE client' # client
  <2>1. \/ \E a \in Adapters : Connect(a) \/ Forget(a) \/ Close(a) \/ Joined(a)
        \/ \E f \in Frames : PostRefused(f)
    BY <1>7 DEF Next, JoinStep, PollStep, LeaveStep, PostStep, vars,
       Disconnect, Vanish, JoinArrives, JoinResumes, JoinFails, PollArrives, PollTimesOut, PollCloses, HandleAnswer,
       PollFails, DeleteArrives, LeaveResumes, Closed, SweepRemoves, Send, PostArrives, PostRead, PostLost, Sweep, Tick
  <2> QED BY <1>1, <1>2, <1>3, <1>4, <1>5, <2>1
<1> QED BY <1>6, <1>7

(* What the sweep lists. *)
LEMMA DoomedStep ==
  ASSUME PollingInv, [Next]_vars
  PROVE  Doomed'
<1>0. Typed /\ Doomed /\ \A b \in Adapters : Local(b)
  BY DEF PollingInv
<1>1. ASSUME NEW b \in doomed PROVE client'[b] \in {"leaving", "gone"}
  BY <1>0, ClientsEnd DEF Doomed, Typed
<1>2. CASE doomed' \subseteq doomed
  BY <1>1, <1>2 DEF Doomed
<1>3. CASE Sweep
  <2>1. doomed' = doomed \cup {a \in Adapters : session[a] = "open" /\ idle[a] >= IdleTimeout} /\ client' = client
    BY <1>3 DEF Sweep, Expired, Open, clientVars
  <2>2. \A a \in Adapters : session[a] = "open" /\ idle[a] >= IdleTimeout => client[a] \in {"leaving", "gone"}
    BY <1>0, PollersHeardOf
  <2> QED BY <1>0, <2>1, <2>2 DEF Doomed
<1>4. doomed' \subseteq doomed \/ Sweep
  <2> USE DEF clientVars, httpVars, postVars, sessionVars, mailVars, sweepVars
  <2>1. ASSUME NEW a \in Adapters, Close(a) PROVE doomed' \subseteq doomed
    BY <2>1 DEF Close
  <2>2. ASSUME NEW f \in Frames, PostRefused(f) PROVE doomed' \subseteq doomed
    BY <2>2 DEF PostRefused, Close
  <2>3. CASE \E a \in Adapters : Close(a)
    BY <2>1, <2>3
  <2>4. CASE \E f \in Frames : PostRefused(f)
    BY <2>2, <2>4
  <2>5. CASE ~ (\E a \in Adapters : Close(a)) /\ ~ (\E f \in Frames : PostRefused(f))
    BY <2>5 DEF Next, JoinStep, PollStep, LeaveStep, PostStep, vars, Connect, Joined,
       Disconnect, Vanish, JoinArrives, JoinResumes, JoinFails, PollArrives, PollTimesOut, PollCloses, HandleAnswer,
       PollFails, DeleteArrives, LeaveResumes, Closed, SweepRemoves, Send, PostArrives, PostRead, PostLost, Tick
  <2> QED BY <2>3, <2>4, <2>5
<1> QED BY <1>2, <1>3, <1>4

(* A session not listed has been heard of recently enough for the next sweep to
   be in time: what Sweep and Tick make of that...                         *)
LEMMA ClockKeepsSwept ==
  ASSUME PollingInv, Sweep \/ Tick
  PROVE  SweptSoon'
<1>0. Typed /\ SweptSoon
  BY DEF PollingInv
<1>t. /\ IdleTimeout \in Nat /\ SweepPeriod \in Nat /\ sweepIn \in Nat /\ \A b \in Adapters : idle[b] \in Nat
  BY <1>0, Timeouts DEF Typed
<1>1. CASE Sweep
  <2>1. /\ session' = session /\ idle' = idle /\ sweepIn' = SweepPeriod
        /\ doomed' = doomed \cup {a \in Adapters : session[a] = "open" /\ idle[a] >= IdleTimeout}
    BY <1>1 DEF Sweep, Expired, Open, sessionVars, mailVars
  <2>2. ASSUME NEW a \in Adapters, session[a] = "open", a \notin doomed' PROVE idle[a] + SweepPeriod < IdleTimeout + SweepPeriod
    BY <1>t, <2>1, <2>2
  <2> QED BY <1>0, <2>1, <2>2 DEF SweptSoon
<1>2. CASE Tick
  <2>1. /\ session' = session /\ doomed = {} /\ doomed' = {} /\ sweepIn > 0 /\ sweepIn' = sweepIn - 1
        /\ \A a \in Adapters : idle'[a] = IF session[a] = "open" THEN idle[a] + 1 ELSE idle[a]
    BY <1>2 DEF Tick, Open, sessionVars
  <2>2. ASSUME NEW a \in Adapters, session[a] = "open"
        PROVE  idle'[a] < IdleTimeout + SweepPeriod /\ idle'[a] + sweepIn' < IdleTimeout + SweepPeriod
    <3>1. idle[a] + sweepIn < IdleTimeout + SweepPeriod
      BY <1>0, <2>1, <2>2 DEF SweptSoon
    <3>2. idle'[a] = idle[a] + 1
      BY <2>1, <2>2
    <3> QED BY <1>t, <2>1, <3>1, <3>2
  <2> QED BY <2>1, <2>2 DEF SweptSoon
<1> QED BY <1>1, <1>2

(* ...and that any other step at most shortens a silence, and unlists a session
   only when it removes it.                                                *)
LEMMA SilenceEnds ==
  ASSUME PollingInv, [Next]_vars, ~Sweep, ~Tick
  PROVE  /\ sweepIn' = sweepIn
         /\ \A b \in Adapters : /\ idle'[b] = idle[b] \/ idle'[b] = 0
                                /\ session'[b] = "open" => session[b] = "open" \/ idle'[b] = 0
                                /\ session'[b] = "open" /\ b \in doomed => b \in doomed'
<1> USE DEF clientVars, httpVars, postVars, sessionVars, mailVars, sweepVars
<1> DEFINE P(b) ==
       /\ idle'[b] = idle[b] \/ idle'[b] = 0
       /\ session'[b] = "open" => session[b] = "open" \/ idle'[b] = 0
       /\ session'[b] = "open" /\ b \in doomed => b \in doomed'
<1>0. Typed /\ Seats /\ \A b \in Adapters : Life(b)
  BY DEF PollingInv, Local
<1>s. ASSUME UNCHANGED <<session, idle, sweepIn, doomed>> PROVE sweepIn' = sweepIn /\ \A b \in Adapters : P(b)
  BY <1>s
<1>b. ASSUME NEW m \in Messages, m.peer \in Peers, Broadcast(m), NEW b \in Adapters PROVE idle'[b] = idle[b] \/ idle'[b] = 0
  BY <1>0, <1>b, BroadcastReaches DEF Hears, MailSame
<1>1. ASSUME NEW a \in Adapters, Connect(a) \/ Disconnect(a) \/ Vanish(a) \/ JoinArrives(a) \/ Joined(a) \/ JoinFails(a)
      PROVE  sweepIn' = sweepIn /\ \A b \in Adapters : P(b)
  BY <1>1, <1>s DEF Connect, Disconnect, Vanish, JoinArrives, Joined, JoinFails, Close
<1>2. ASSUME NEW a \in Adapters, JoinResumes(a) PROVE sweepIn' = sweepIn /\ \A b \in Adapters : P(b)
  <2>1. /\ session' = [session EXCEPT ![a] = "open"] /\ UNCHANGED <<sweepIn, doomed>> /\ join[a] = "asked"
    BY <1>2 DEF JoinResumes
  <2>2. PICK m \in Messages : m.peer \in Peers /\ Broadcast(m)
    <3>1. Broadcast(Message("peer-joined", Owner[a])) /\ Owner[a] \in Peers
      BY <1>2, AdaptersOfPeers DEF JoinResumes
    <3> QED BY <3>1, MessageTyped
  <2>3. idle[a] = 0 /\ session[a] = "none"
    BY <1>0, <2>1 DEF Life
  <2>4. \A b \in Adapters : idle'[b] = idle[b] \/ idle'[b] = 0
    BY <1>b, <2>2
  <2>5. \A b \in Adapters : P(b)
    BY <1>0, <2>1, <2>3, <2>4 DEF Typed
  <2> QED BY <2>1, <2>5
<1>3. ASSUME NEW a \in Adapters, PollArrives(a) PROVE sweepIn' = sweepIn /\ \A b \in Adapters : P(b)
  <2>1. idle' = idle \/ idle' = [idle EXCEPT ![a] = 0]
    BY <1>3 DEF PollArrives
  <2>2. UNCHANGED <<session, sweepIn, doomed>>
    BY <1>3 DEF PollArrives
  <2> QED BY <1>0, <2>1, <2>2 DEF Typed
<1>4. ASSUME NEW a \in Adapters, PollTimesOut(a) \/ PollCloses(a) \/ HandleAnswer(a) \/ PollFails(a) \/ Closed(a)
      PROVE  sweepIn' = sweepIn /\ \A b \in Adapters : P(b)
  BY <1>4, <1>s DEF PollTimesOut, PollCloses, HandleAnswer, PollFails, Closed, Close
<1>5. ASSUME NEW a \in Adapters, DeleteArrives(a) \/ SweepRemoves(a) PROVE sweepIn' = sweepIn /\ \A b \in Adapters : P(b)
  <2>1. sweepIn' = sweepIn /\ (doomed' = doomed \/ doomed' = doomed \ {a})
    BY <1>5 DEF DeleteArrives, SweepRemoves
  <2>2. CASE a \in Open
    <3>1. session' = [session EXCEPT ![a] = "removing"] /\ idle' = [idle EXCEPT ![a] = 0]
      BY <1>5, <2>2 DEF DeleteArrives, SweepRemoves, RemoveSession
    <3> QED BY <1>0, <2>1, <3>1 DEF Typed
  <2>3. CASE a \notin Open
    <3>1. session' = session /\ idle' = idle
      BY <1>5, <2>3 DEF DeleteArrives, SweepRemoves
    <3> QED BY <2>1, <2>3, <3>1 DEF Open
  <2> QED BY <2>2, <2>3
<1>6. ASSUME NEW a \in Adapters, LeaveResumes(a) PROVE sweepIn' = sweepIn /\ \A b \in Adapters : P(b)
  <2>1. /\ session' = [session EXCEPT ![a] = "removed"] /\ UNCHANGED <<sweepIn, doomed>>
    BY <1>6 DEF LeaveResumes
  <2>2. PICK m \in Messages : m.peer \in Peers /\ Broadcast(m)
    BY <1>6, AdaptersOfPeers, MessageTyped DEF LeaveResumes
  <2>3. \A b \in Adapters : idle'[b] = idle[b] \/ idle'[b] = 0
    BY <1>b, <2>2
  <2> QED BY <1>0, <2>1, <2>3 DEF Typed
<1>7. ASSUME NEW a \in Adapters, NEW f \in Frames, Send(f, a) PROVE sweepIn' = sweepIn /\ \A b \in Adapters : P(b)
  BY <1>7, <1>s DEF Send
<1>8. ASSUME NEW f \in Frames, PostArrives(f) PROVE sweepIn' = sweepIn /\ \A b \in Adapters : P(b)
  <2>1. idle' = idle \/ idle' = [idle EXCEPT ![sender[f]] = 0]
    BY <1>8 DEF PostArrives
  <2>2. UNCHANGED <<session, sweepIn, doomed>>
    BY <1>8 DEF PostArrives
  <2> QED BY <1>0, <2>1, <2>2 DEF Typed
<1>9. ASSUME NEW f \in Frames, PostRead(f) PROVE sweepIn' = sweepIn /\ \A b \in Adapters : P(b)
  <2>1. UNCHANGED <<session, sweepIn, doomed>>
    BY <1>9 DEF PostRead
  <2>2. sender[f] \in Adapters
    BY <1>0, <1>9 DEF PostRead, Typed, Sent
  <2>3. PICK m \in Messages : m.peer \in Peers /\ Broadcast(m)
    BY <1>9, <2>2, AdaptersOfPeers, MessageTyped DEF PostRead
  <2>4. \A b \in Adapters : idle'[b] = idle[b] \/ idle'[b] = 0
    BY <1>b, <2>3
  <2> QED BY <2>1, <2>4
<1>10. ASSUME NEW f \in Frames, PostRefused(f) \/ PostLost(f) PROVE sweepIn' = sweepIn /\ \A b \in Adapters : P(b)
  BY <1>10, <1>s DEF PostRefused, PostLost, Close
<1>11. CASE UNCHANGED vars
  BY <1>11, <1>s DEF vars
<1> QED
  BY <1>1, <1>2, <1>3, <1>4, <1>5, <1>6, <1>7, <1>8, <1>9, <1>10, <1>11
  DEF Next, JoinStep, PollStep, LeaveStep, PostStep

(* Together: the sweep is in time. *)
LEMMA SweptStep ==
  ASSUME PollingInv, [Next]_vars
  PROVE  SweptSoon'
<1>1. CASE Sweep \/ Tick
  BY <1>1, ClockKeepsSwept
<1>2. CASE ~Sweep /\ ~Tick
  <2>1. /\ sweepIn' = sweepIn
        /\ \A b \in Adapters : /\ idle'[b] = idle[b] \/ idle'[b] = 0
                               /\ session'[b] = "open" => session[b] = "open" \/ idle'[b] = 0
                               /\ session'[b] = "open" /\ b \in doomed => b \in doomed'
    BY <1>2, SilenceEnds
  <2>2. /\ IdleTimeout \in Nat /\ SweepPeriod \in Nat /\ sweepIn \in 0..SweepPeriod /\ IdleTimeout > 0
        /\ \A b \in Adapters : idle[b] \in Nat
    BY Timeouts DEF PollingInv, Typed
  <2>3. ASSUME NEW b \in Adapters, session'[b] = "open"
        PROVE  /\ idle'[b] < IdleTimeout + SweepPeriod
               /\ b \notin doomed' => idle'[b] + sweepIn' < IdleTimeout + SweepPeriod
    <3>1. CASE idle'[b] = 0
      BY <2>1, <2>2, <3>1
    <3>2. CASE idle'[b] # 0
      <4>1. idle'[b] = idle[b] /\ session[b] = "open" /\ (b \notin doomed' => b \notin doomed)
        BY <2>1, <2>3, <3>2
      <4> QED BY <2>1, <4>1 DEF PollingInv, SweptSoon
    <3> QED BY <3>1, <3>2
  <2> QED BY <2>3 DEF SweptSoon
<1> QED BY <1>1, <1>2

(* The invariant holds at first... *)
LEMMA PollingInit == Init => PollingInv
<1> SUFFICES ASSUME Init PROVE PollingInv
  OBVIOUS
<1>1. <<>> \in Seq(Messages) /\ <<>> \in Seq(Calls) /\ Len(<<>>) = 0 /\ <<>> \o <<>> = <<>>
  BY EmptySeq, ConcatEmptySeq
<1>2. Typed
  BY <1>1, PollsOutrunTheSweep DEF Init, Typed, Sent, Events
<1>3. \A a \in Adapters : Life(a) /\ Timed(a) /\ Heard(a) /\ Own(a)
  BY DEF Init, Life, Timed, Heard, Own, Listening, Open
<1>4. Seats
  BY AdaptersOfPeers DEF Init, Seats, In
<1>5. Queued
  BY <1>1 DEF Init, Queued
<1>6. Doomed /\ SweptSoon
  BY DEF Init, Doomed, SweptSoon
<1> QED BY <1>2, <1>3, <1>4, <1>5, <1>6 DEF PollingInv, Local

(* ...and after every step. *)
LEMMA PollingHolds == Spec => []PollingInv
<1>1. PollingInv /\ [Next]_vars => PollingInv'
  <2> SUFFICES ASSUME PollingInv, [Next]_vars PROVE PollingInv'
    OBVIOUS
  <2>1. Typed'
    BY TypedStep DEF PollingInv
  <2> QED BY <2>1, LocalStep, SeatsStep, QueuedStep, DoomedStep, SweptStep DEF PollingInv
<1> QED BY <1>1, PollingInit, PTL DEF Spec

(* Types, and that a pending poll is an open session's that has nothing to say. *)
THEOREM TypeOKCorrect == Spec => []TypeOK
<1>1. PollingInv => TypeOK
  <2> SUFFICES ASSUME PollingInv PROVE TypeOK
    OBVIOUS
  <2>1. Typed /\ \A a \in Adapters : Life(a)
    BY DEF PollingInv, Local
  <2>2. \A a \in Adapters : poll[a] = "pending" => a \in Open /\ queue[a] = <<>>
    BY <2>1 DEF Life, Open
  <2> QED BY <2>1, <2>2 DEF Typed, TypeOK, Events, Calls
<1> QED BY <1>1, PollingHolds, PTL

(* HeardInOrder: a client that polls hears every message meant for its session
   once and in the order in which the relay queued them, whatever requests and
   answers are lost, for a lost one ends the session's client.             *)
THEOREM HeardInOrderCorrect == Spec => []HeardInOrder
<1>1. PollingInv => HeardInOrder
  BY DEF PollingInv, Local, Heard, HeardInOrder, Open
<1> QED BY <1>1, PollingHolds, PTL

(* PollersKept: cleanupExpiredPollingSessions never lists the session of a client
   that polls, as long as a poll and its two ways are shorter than the idle
   timeout.                                                                *)
THEOREM PollersKeptCorrect == Spec => []PollersKept
<1>1. PollingInv => PollersKept
  BY DEF PollingInv, Doomed, PollersKept
<1> QED BY <1>1, PollingHolds, PTL

(* LockoutBounded: a peer id in the room is that of a join about to be answered
   or of a session the relay heard from less than the idle timeout and one
   sweep ago, so that no lost page or answer keeps a peer out for longer.  *)
THEOREM LockoutBoundedCorrect == Spec => []LockoutBounded
<1>1. PollingInv => LockoutBounded
  <2> SUFFICES ASSUME PollingInv, NEW p \in registry
               PROVE  \E a \in Adapters :
                        /\ Owner[a] = p
                        /\ \/ join[a] = "asked"
                           \/ seat[p] = a /\ a \in Open /\ idle[a] < IdleTimeout + SweepPeriod
    BY DEF LockoutBounded
  <2>1. PICK a \in Adapters : In(a) /\ Owner[a] = p /\ p \in Peers
    BY DEF PollingInv, Seats
  <2>2. session[a] = "open" => seat[p] = a /\ idle[a] < IdleTimeout + SweepPeriod
    BY <2>1 DEF PollingInv, Seats, SweptSoon
  <2> QED BY <2>1, <2>2 DEF In, Open
<1> QED BY <1>1, PollingHolds, PTL
-----------------------------------------------------------------------------
(* Who a client that listens will know once it has handled all it is owed... *)
InView(a, p) ==
  \/ p \in roster[a] /\ \A n \in 1..Len(owed[a]) : owed[a][n] # Message("peer-left", p)
  \/ \E n \in 1..Len(owed[a]) :
       /\ owed[a][n].peer = p /\ owed[a][n].type # "peer-left"
       /\ \A m \in 1..Len(owed[a]) : m > n => owed[a][m] # Message("peer-left", p)

(* ...is in the room, or misled it, or is about to be said to have left, which
   the client will hear: its own join, if it waits, is before that leave.  *)
Accounted(a, p) ==
  \/ p \in registry \cup misled
  \/ \E n \in 1..Len(awaiting) :
       /\ awaiting[n].op = "leave" /\ Owner[awaiting[n].adapter] = p
       /\ \A m \in 1..Len(awaiting) : awaiting[m] = Call("join", a) => m < n

Views == \A a \in Adapters : Listening(a) => \A p \in Peers : InView(a, p) => Accounted(a, p)

(* The view of an adapter that nothing is said to. *)
ViewKept(b) ==
  Listening(b)' => /\ Listening(b)
                   /\ \/ roster'[b] = roster[b] /\ owed'[b] = owed[b]
                      \/ roster'[b] = {} /\ owed'[b] = <<>>

(* Who is in a view that nothing is said to was in it before. *)
LEMMA ViewSame ==
  ASSUME NEW b \in Adapters, NEW p \in Peers, ViewKept(b), Listening(b)', InView(b, p)'
  PROVE  Listening(b) /\ InView(b, p)
<1>1. CASE roster'[b] = roster[b] /\ owed'[b] = owed[b]
  BY <1>1 DEF ViewKept, InView
<1>2. CASE roster'[b] = {} /\ owed'[b] = <<>>
  <2>1. Len(owed'[b]) = 0
    BY <1>2
  <2> QED BY <1>2, <2>1 DEF InView
<1> QED BY <1>1, <1>2 DEF ViewKept

(* The view of one that hears a message. *)
LEMMA ViewHeard ==
  ASSUME NEW b \in Adapters, NEW p \in Peers, NEW m \in Messages, owed[b] \in Seq(Messages),
         owed'[b] = Append(owed[b], m), roster'[b] = roster[b], InView(b, p)'
  PROVE  m # Message("peer-left", p) /\ (InView(b, p) \/ m.peer = p)
<1>1. /\ Len(owed[b]) \in Nat /\ Len(owed'[b]) = Len(owed[b]) + 1 /\ owed'[b][Len(owed[b]) + 1] = m
      /\ \A n \in 1..Len(owed[b]) : owed'[b][n] = owed[b][n]
  BY AppendProperties, LenProperties
<1>2. CASE p \in roster'[b] /\ \A n \in 1..Len(owed'[b]) : owed'[b][n] # Message("peer-left", p)
  <2>1. m # Message("peer-left", p) /\ \A n \in 1..Len(owed[b]) : owed[b][n] # Message("peer-left", p)
    BY <1>1, <1>2
  <2> QED BY <1>2, <2>1 DEF InView
<1>3. ASSUME NEW n \in 1..Len(owed'[b]), owed'[b][n].peer = p, owed'[b][n].type # "peer-left",
             \A k \in 1..Len(owed'[b]) : k > n => owed'[b][k] # Message("peer-left", p)
      PROVE  m # Message("peer-left", p) /\ (InView(b, p) \/ m.peer = p)
  <2>1. CASE n = Len(owed[b]) + 1
    BY <1>1, <1>3, <2>1 DEF Message
  <2>2. CASE n # Len(owed[b]) + 1
    <3>1. n \in 1..Len(owed[b]) /\ Len(owed[b]) + 1 > n
      BY <1>1, <2>2
    <3>2. m # Message("peer-left", p)
      BY <1>1, <1>3, <3>1
    <3>3. owed[b][n].peer = p /\ owed[b][n].type # "peer-left"
      BY <1>1, <1>3, <3>1
    <3>4. \A k \in 1..Len(owed[b]) : k > n => owed[b][k] # Message("peer-left", p)
      BY <1>1, <1>3
    <3> QED BY <3>1, <3>2, <3>3, <3>4 DEF InView
  <2> QED BY <2>1, <2>2
<1> QED BY <1>2, <1>3 DEF InView

(* A message handled shows nobody who was not in view before. *)
LEMMA ViewHandled ==
  ASSUME PollingInv, NEW a \in Adapters, HandleAnswer(a), NEW p \in Peers, Listening(a), InView(a, p)'
  PROVE  InView(a, p)
<1>1. Typed /\ Life(a) /\ Heard(a)
  BY DEF PollingInv, Local
<1>2. /\ client[a] = "polling"
      /\ owed'[a] = IF event[a] = <<>> \/ owed[a] = <<>> THEN owed[a] ELSE Tail(owed[a])
      /\ roster'[a] = IF event[a] = <<>> THEN roster[a] ELSE Known(roster[a], Head(event[a]))
  BY <1>1 DEF HandleAnswer, Typed
<1>3. owed[a] = event[a] \o queue[a]
  BY <1>1, <1>2 DEF Listening, Life, Heard, Open
<1>4. CASE event[a] = <<>>
  BY <1>2, <1>4 DEF InView
<1>5. CASE event[a] # <<>>
  <2>1. PICK m \in Messages : event[a] = <<m>>
    BY <1>1, <1>5, LocalTyped
  <2>2. queue[a] \in Seq(Messages) /\ <<m>> \in Seq(Messages) /\ <<m>>[1] = m /\ Len(<<m>>) = 1 /\ Head(<<m>>) = m
    BY <1>1, LocalTyped
  <2>3. /\ owed[a] \in Seq(Messages) /\ Len(owed[a]) = Len(queue[a]) + 1 /\ Len(queue[a]) \in Nat
        /\ owed[a][1] = m
    BY <1>3, <2>1, <2>2, ConcatProperties, LenProperties
  <2>4. owed[a] # <<>>
    BY <2>2, <2>3, LenProperties, EmptySeq
  <2>5. /\ Len(owed'[a]) = Len(owed[a]) - 1 /\ \A n \in 1..Len(owed'[a]) : owed'[a][n] = owed[a][n + 1]
    BY <1>2, <1>5, <2>3, <2>4, HeadTailProperties
  <2>6. roster'[a] = Known(roster[a], m)
    BY <1>2, <1>5, <2>1, <2>2
  <2>7. Len(owed[a]) \in Nat /\ 1 \in 1..Len(owed[a]) /\ \A n \in 1..Len(owed'[a]) : n + 1 \in 1..Len(owed[a])
    BY <2>3, <2>5
  <2>8. \A n \in 1..Len(owed[a]) : n = 1 \/ (n - 1 \in 1..Len(owed'[a]) /\ owed'[a][n - 1] = owed[a][n])
    <3> TAKE n \in 1..Len(owed[a])
    <3>1. CASE n # 1
      <4>1. n - 1 \in 1..Len(owed'[a]) /\ (n - 1) + 1 = n
        BY <2>5, <2>7, <3>1
      <4> QED BY <2>5, <4>1
    <3> QED BY <3>1
  <2>9. CASE p \in roster'[a] /\ \A n \in 1..Len(owed'[a]) : owed'[a][n] # Message("peer-left", p)
    <3>1. \A n \in 1..Len(owed[a]) : n > 1 => owed[a][n] # Message("peer-left", p)
      BY <2>8, <2>9
    <3>2. CASE m.type = "peer-left"
      <4>1. p \in roster[a] /\ m.peer # p
        BY <2>6, <2>9, <3>2 DEF Known
      <4>2. m # Message("peer-left", p)
        BY <4>1 DEF Message
      <4>3. \A n \in 1..Len(owed[a]) : owed[a][n] # Message("peer-left", p)
        BY <2>3, <2>8, <2>9, <4>2
      <4> QED BY <4>1, <4>3 DEF InView
    <3>3. CASE m.type # "peer-left"
      <4>1. p \in roster[a] \/ p = m.peer
        BY <2>6, <2>9, <3>3 DEF Known
      <4>2. CASE p = m.peer
        BY <2>3, <2>7, <3>1, <3>3, <4>2 DEF InView
      <4>3. CASE p \in roster[a]
        <5>1. m # Message("peer-left", p)
          BY <3>3 DEF Message
        <5>2. \A n \in 1..Len(owed[a]) : owed[a][n] # Message("peer-left", p)
          BY <2>3, <2>8, <2>9, <5>1
        <5> QED BY <4>3, <5>2 DEF InView
      <4> QED BY <4>1, <4>2, <4>3
    <3> QED BY <3>2, <3>3
  <2>10. ASSUME NEW n \in 1..Len(owed'[a]), owed'[a][n].peer = p, owed'[a][n].type # "peer-left",
                \A k \in 1..Len(owed'[a]) : k > n => owed'[a][k] # Message("peer-left", p)
         PROVE  InView(a, p)
    <3>1. n + 1 \in 1..Len(owed[a]) /\ owed[a][n + 1].peer = p /\ owed[a][n + 1].type # "peer-left"
      BY <2>5, <2>7, <2>10
    <3>2. ASSUME NEW k \in 1..Len(owed[a]), k > n + 1 PROVE owed[a][k] # Message("peer-left", p)
      <4>1. k - 1 \in 1..Len(owed'[a]) /\ owed'[a][k - 1] = owed[a][k] /\ k - 1 > n
        BY <2>7, <2>8, <3>1, <3>2
      <4> QED BY <2>10, <4>1
    <3> QED BY <3>1, <3>2 DEF InView
  <2> QED BY <2>9, <2>10 DEF InView
<1> QED BY <1>4, <1>5

(* Somebody accounted for stays so when another's call is added to the queue... *)
LEMMA AccountedAdded ==
  ASSUME Typed, NEW c \in Calls, awaiting' = Append(awaiting, c), NEW b \in Adapters, NEW p \in Peers,
         c # Call("join", b), Accounted(b, p), p \in registry \cup misled => p \in registry' \cup misled'
  PROVE  Accounted(b, p)'
<1>1. CASE p \in registry \cup misled
  BY <1>1 DEF Accounted
<1>2. ASSUME NEW n \in 1..Len(awaiting), awaiting[n].op = "leave", Owner[awaiting[n].adapter] = p,
             \A m \in 1..Len(awaiting) : awaiting[m] = Call("join", b) => m < n
      PROVE  Accounted(b, p)'
  <2>1. /\ Len(awaiting) \in Nat /\ Len(awaiting') = Len(awaiting) + 1
        /\ awaiting'[Len(awaiting) + 1] = c
        /\ \A k \in 1..Len(awaiting) : awaiting'[k] = awaiting[k]
    BY CallAdded
  <2>2. n \in 1..Len(awaiting') /\ awaiting'[n] = awaiting[n]
    BY <2>1
  <2>3. ASSUME NEW m \in 1..Len(awaiting'), awaiting'[m] = Call("join", b) PROVE m < n
    <3>1. m \in 1..Len(awaiting)
      BY <2>1, <2>3
    <3> QED BY <1>2, <2>1, <2>3, <3>1
  <2> QED BY <1>2, <2>2, <2>3 DEF Accounted
<1> QED BY <1>1, <1>2 DEF Accounted

(* ...and when a call other than the leave that accounts for it is done with. *)
LEMMA AccountedCut ==
  ASSUME Typed, NEW i \in 1..Len(awaiting), Without(awaiting, i, awaiting'), NEW b \in Adapters, NEW p \in Peers,
         NEW n \in 1..Len(awaiting), awaiting[n].op = "leave", Owner[awaiting[n].adapter] = p, n # i,
         \A m \in 1..Len(awaiting) : awaiting[m] = Call("join", b) => m < n
  PROVE  Accounted(b, p)'
<1>1. Len(awaiting) \in Nat
  BY LenProperties DEF Typed
<1>2. /\ Len(awaiting') = Len(awaiting) - 1
      /\ \A k \in 1..Len(awaiting') :
           (k < i => awaiting'[k] = awaiting[k]) /\ (~(k < i) => awaiting'[k] = awaiting[k + 1])
  BY DEF Without
<1>3. \A k \in 1..Len(awaiting') : k \in 1..Len(awaiting) /\ k + 1 \in 1..Len(awaiting)
  BY <1>1, <1>2
<1>4. CASE n < i
  <2>1. n \in 1..Len(awaiting') /\ awaiting'[n] = awaiting[n]
    BY <1>1, <1>2, <1>4
  <2>2. ASSUME NEW m \in 1..Len(awaiting'), awaiting'[m] = Call("join", b) PROVE m < n
    <3>1. CASE m < i
      BY <1>2, <1>3, <2>2, <3>1
    <3>2. CASE ~(m < i)
      <4>1. m + 1 < n
        BY <1>2, <1>3, <2>2, <3>2
      <4> QED BY <1>1, <1>3, <4>1
    <3> QED BY <3>1, <3>2
  <2> QED BY <2>1, <2>2 DEF Accounted
<1>5. CASE n > i
  <2>1. n - 1 \in 1..Len(awaiting') /\ awaiting'[n - 1] = awaiting[n]
    <3>1. n - 1 \in 1..Len(awaiting') /\ ~(n - 1 < i) /\ (n - 1) + 1 = n
      BY <1>1, <1>2, <1>5
    <3> QED BY <1>2, <3>1
  <2>2. ASSUME NEW m \in 1..Len(awaiting'), awaiting'[m] = Call("join", b) PROVE m < n - 1
    <3>1. CASE m < i
      BY <1>1, <1>3, <1>5, <3>1
    <3>2. CASE ~(m < i)
      <4>1. m + 1 < n
        BY <1>2, <1>3, <2>2, <3>2
      <4> QED BY <1>1, <1>3, <4>1
    <3> QED BY <3>1, <3>2
  <2> QED BY <2>1, <2>2 DEF Accounted
<1> QED BY <1>1, <1>4, <1>5

(* What a step may do to the views: nothing, or what follows. *)
Quiet == UNCHANGED <<registry, awaiting, misled>> /\ \A b \in Adapters : ViewKept(b)

(* Six actions touch a view, the registry or what waits for it; every other step is
   quiet. *)
LEMMA ViewSteps ==
  ASSUME PollingInv, [Next]_vars
  PROVE  \/ Quiet
         \/ \E a \in Adapters : JoinAsked(a) \/ JoinResumes(a) \/ Removal(a) \/ LeaveResumes(a) \/ HandleAnswer(a)
         \/ \E f \in Frames : PostRead(f)
<1> USE DEF clientVars, httpVars, postVars, sessionVars, mailVars, sweepVars
<1>0. Typed /\ \A b \in Adapters : Life(b)
  BY DEF PollingInv, Local
<1>s. ASSUME UNCHANGED <<registry, awaiting, misled, client, roster, session, owed, join>> PROVE Quiet
  BY <1>s DEF Quiet, ViewKept, Listening, Open
<1>1. ASSUME NEW a \in Adapters, Connect(a) PROVE Quiet
  <2>1. /\ join' = [join EXCEPT ![a] = "sent"] /\ client' = [client EXCEPT ![a] = "joining"] /\ client[a] = "idle"
        /\ UNCHANGED <<registry, awaiting, misled, roster, session, owed>>
    BY <1>1 DEF Connect
  <2>2. session[a] = "none"
    BY <1>0, <2>1 DEF Life
  <2>3. \A b \in Adapters : ViewKept(b)
    BY <1>0, <2>1, <2>2 DEF ViewKept, Listening, Open, Typed
  <2> QED BY <2>1, <2>3 DEF Quiet
<1>2. ASSUME NEW a \in Adapters, Vanish(a) \/ JoinFails(a) \/ Closed(a) PROVE Quiet
  <2>1. Forget(a) /\ UNCHANGED <<registry, awaiting, misled, session, owed>>
    BY <1>2 DEF Vanish, JoinFails, Closed
  <2>2. /\ client' = [client EXCEPT ![a] = "gone"] /\ roster' = [roster EXCEPT ![a] = {}]
        /\ join' = [join EXCEPT ![a] = IF @ = "asked" THEN @ ELSE "none"]
    BY <2>1 DEF Forget
  <2>3. join[a] = "asked" => owed[a] = <<>>
    BY <1>0 DEF Life
  <2>4. ASSUME NEW b \in Adapters PROVE ViewKept(b)
    <3>1. CASE b = a
      BY <1>0, <2>1, <2>2, <2>3, <3>1 DEF ViewKept, Listening, Open, Typed
    <3>2. CASE b # a
      BY <1>0, <2>1, <2>2, <3>2 DEF ViewKept, Listening, Open, Typed
    <3> QED BY <3>1, <3>2
  <2> QED BY <2>1, <2>4 DEF Quiet
<1>3. ASSUME NEW a \in Adapters, Joined(a) PROVE Quiet
  <2>1. /\ join' = [join EXCEPT ![a] = "none"] /\ client' = [client EXCEPT ![a] = "polling"] /\ client[a] = "joining"
        /\ UNCHANGED <<registry, awaiting, misled, roster, session, owed>>
    BY <1>3 DEF Joined
  <2>2. \A b \in Adapters : ViewKept(b)
    BY <1>0, <2>1 DEF ViewKept, Listening, Open, Typed
  <2> QED BY <2>1, <2>2 DEF Quiet
<1>4. ASSUME NEW a \in Adapters, JoinArrives(a) PROVE JoinAsked(a) \/ Quiet
  <2>1. CASE Owner[a] \in registry
    <3>1. /\ join' = [join EXCEPT ![a] = "refused"]
          /\ UNCHANGED <<registry, awaiting, misled, client, roster, session, owed>>
      BY <1>4, <2>1 DEF JoinArrives
    <3>2. \A b \in Adapters : ViewKept(b)
      BY <1>0, <3>1 DEF ViewKept, Listening, Open, Typed
    <3> QED BY <3>1, <3>2 DEF Quiet
  <2>2. CASE Owner[a] \notin registry
    BY <1>4, <2>2 DEF JoinAsked
  <2> QED BY <2>1, <2>2
<1>5. ASSUME NEW a \in Adapters, Close(a), client[a] = "polling" PROVE Quiet
  <2>1. /\ client' = [client EXCEPT ![a] = "leaving"] /\ roster' = [roster EXCEPT ![a] = {}]
        /\ UNCHANGED <<registry, awaiting, misled, join, session, owed>>
    BY <1>5 DEF Close
  <2>2. join[a] # "asked"
    BY <1>0, <1>5 DEF Life
  <2>3. ASSUME NEW b \in Adapters PROVE ViewKept(b)
    <3>1. CASE b = a
      BY <1>0, <2>1, <2>2, <3>1 DEF ViewKept, Listening, Typed
    <3>2. CASE b # a
      BY <1>0, <2>1, <3>2 DEF ViewKept, Listening, Open, Typed
    <3> QED BY <3>1, <3>2
  <2> QED BY <2>1, <2>3 DEF Quiet
<1>6. ASSUME NEW a \in Adapters, Disconnect(a) \/ PollFails(a) PROVE Quiet
  BY <1>5, <1>6 DEF Disconnect, PollFails
<1>7. ASSUME NEW a \in Adapters, PollArrives(a) \/ PollTimesOut(a) \/ PollCloses(a) PROVE Quiet
  BY <1>7, <1>s DEF PollArrives, PollTimesOut, PollCloses
<1>8. ASSUME NEW f \in Frames, PostArrives(f) \/ PostRefused(f) \/ PostLost(f) PROVE Quiet
  <2>1. CASE PostArrives(f) \/ PostLost(f)
    BY <1>s, <2>1 DEF PostArrives, PostLost
  <2>2. CASE PostRefused(f)
    <3>1. sender[f] \in Adapters
      BY <1>0, <2>2 DEF PostRefused, Typed, Sent
    <3>2. CASE client[sender[f]] = "polling"
      BY <1>5, <2>2, <3>1, <3>2 DEF PostRefused
    <3>3. CASE client[sender[f]] # "polling"
      BY <1>s, <2>2, <3>3 DEF PostRefused
    <3> QED BY <3>2, <3>3
  <2> QED BY <1>8, <2>1, <2>2
<1>9. ASSUME NEW a \in Adapters, DeleteArrives(a) \/ SweepRemoves(a) PROVE Removal(a) \/ Quiet
  <2>1. CASE a \in Open
    BY <1>9, <2>1 DEF DeleteArrives, SweepRemoves, Removal, Open
  <2>2. CASE a \notin Open
    BY <1>s, <1>9, <2>2 DEF DeleteArrives, SweepRemoves
  <2> QED BY <2>1, <2>2
<1>10. ASSUME NEW a \in Adapters, NEW f \in Frames, Send(f, a) PROVE Quiet
  BY <1>s, <1>10 DEF Send
<1>11. CASE Sweep \/ Tick \/ UNCHANGED vars
  BY <1>s, <1>11 DEF Sweep, Tick, vars
<1> QED
  BY <1>1, <1>2, <1>3, <1>4, <1>6, <1>7, <1>8, <1>9, <1>10, <1>11
  DEF Next, JoinStep, PollStep, LeaveStep, PostStep

(* The view of a session a broadcast reaches, or does not. *)
LEMMA ViewToldOf ==
  ASSUME PollingInv, NEW m \in Messages, m.peer \in Peers, Broadcast(m), roster' = roster,
         NEW b \in Adapters, NEW p \in Peers, InView(b, p)'
  PROVE  /\ InView(b, p) \/ m.peer = p
         /\ session[b] = "open" /\ Owner[b] # m.peer => m # Message("peer-left", p)
<1>0. Typed /\ Seats /\ owed[b] \in Seq(Messages) /\ roster'[b] = roster[b]
  BY LocalTyped DEF PollingInv
<1>1. CASE session[b] = "open" /\ Owner[b] # m.peer
  <2>1. owed'[b] = Append(owed[b], m)
    BY <1>0, <1>1, BroadcastReaches DEF Hears
  <2> QED BY <1>0, <2>1, ViewHeard
<1>2. CASE ~(session[b] = "open" /\ Owner[b] # m.peer)
  <2>1. owed'[b] = owed[b]
    BY <1>0, <1>2, BroadcastReaches DEF MailSame
  <2>2. InView(b, p)
    BY <1>0, <2>1 DEF InView
  <2> QED BY <1>2, <2>2
<1> QED BY <1>1, <1>2

(* Every view stays accounted for. *)
LEMMA ViewsStep ==
  ASSUME PollingInv, Views, [Next]_vars
  PROVE  Views'
<1>0. /\ Typed /\ Seats /\ Queued /\ \A b \in Adapters : Local(b) /\ Life(b) /\ Own(b)
      /\ \A b \in Adapters : Owner[b] \in Peers
  BY AdaptersOfPeers DEF PollingInv, Local
<1> SUFFICES ASSUME NEW b \in Adapters, Listening(b)', NEW p \in Peers, InView(b, p)'
             PROVE  Accounted(b, p)'
  BY DEF Views
<1>v. Listening(b) /\ InView(b, p) => Accounted(b, p)
  BY DEF Views
<1>1. CASE Quiet
  <2>1. Accounted(b, p) /\ UNCHANGED <<registry, awaiting, misled>>
    BY <1>v, <1>1, ViewSame DEF Quiet
  <2> QED BY <2>1 DEF Accounted
<1>2. ASSUME NEW a \in Adapters, JoinAsked(a) PROVE Accounted(b, p)'
  <2>1. /\ session' = session /\ client' = client /\ join' = [join EXCEPT ![a] = "asked"] /\ join[a] = "sent"
        /\ roster' = [roster EXCEPT ![a] = registry] /\ registry' = registry \cup {Owner[a]}
        /\ awaiting' = Append(awaiting, Call("join", a)) /\ UNCHANGED <<owed, misled>>
    BY <1>2 DEF JoinAsked, JoinArrives, mailVars
  <2>2. CASE b = a
    <3>1. owed'[a] = <<>> /\ Len(owed'[a]) = 0 /\ roster'[a] = registry
      BY <1>0, <2>1 DEF Life, Typed
    <3>2. p \in registry
      BY <2>2, <3>1 DEF InView
    <3> QED BY <2>1, <3>2 DEF Accounted
  <2>3. CASE b # a
    <3>1. ViewKept(b)
      BY <1>0, <2>1, <2>3 DEF ViewKept, Listening, Open, Typed
    <3>2. Accounted(b, p)
      BY <1>v, <3>1, ViewSame
    <3>3. Call("join", a) \in Calls /\ Call("join", a) # Call("join", b)
      BY <2>3 DEF Call, Calls
    <3> QED BY <1>0, <2>1, <3>2, <3>3, AccountedAdded
  <2> QED BY <2>2, <2>3
<1>3. ASSUME NEW a \in Adapters, JoinResumes(a) PROVE Accounted(b, p)'
  <2>1. /\ session' = [session EXCEPT ![a] = "open"] /\ UNCHANGED <<client, roster, registry, misled>>
        /\ join' = [join EXCEPT ![a] = Answer(a, "answered")] /\ join[a] = "asked"
        /\ Broadcast(Message("peer-joined", Owner[a]))
    BY <1>3 DEF JoinResumes, clientVars
  <2>2. PICK m \in Messages : m.peer = Owner[a] /\ Broadcast(m)
    BY <1>0, <2>1, MessageTyped
  <2>3. Listening(b)
    BY <1>0, <2>1 DEF Listening, Open, Typed, Answer
  <2>4. InView(b, p) \/ p = Owner[a]
    BY <1>0, <2>1, <2>2, ViewToldOf
  <2>5. Owner[a] \in registry
    BY <1>0, <2>1 DEF Seats, In
  <2>6. CASE p \in registry \cup misled
    BY <2>1, <2>6 DEF Accounted
  <2>7. CASE p \notin registry \cup misled
    <3>1. Accounted(b, p)
      BY <1>v, <2>3, <2>4, <2>5, <2>7
    <3>2. PICK n \in 1..Len(awaiting) :
            /\ awaiting[n].op = "leave" /\ Owner[awaiting[n].adapter] = p
            /\ \A k \in 1..Len(awaiting) : awaiting[k] = Call("join", b) => k < n
      BY <2>7, <3>1 DEF Accounted
    <3>3. PICK i \in 1..Len(awaiting) : awaiting[i] = Call("join", a) /\ Without(awaiting, i, awaiting')
      BY <1>0, <1>3, JoinLeavesQueue
    <3>4. n # i
      BY <3>2, <3>3, CallsDiffer
    <3> QED BY <1>0, <3>2, <3>3, <3>4, AccountedCut
  <2> QED BY <2>6, <2>7
<1>4. ASSUME NEW a \in Adapters, Removal(a) PROVE Accounted(b, p)'
  <2>1. /\ session' = [session EXCEPT ![a] = "removing"] /\ session[a] = "open"
        /\ registry' = registry \ {Owner[a]} /\ awaiting' = Append(awaiting, Call("leave", a))
        /\ owed' = [owed EXCEPT ![a] = <<>>]
        /\ UNCHANGED <<client, roster, join, misled>>
    BY <1>4 DEF Removal, RemoveSession
  <2>2. b # a
    BY <1>0, <2>1 DEF Listening, Open, Life, Typed
  <2>3. ViewKept(b)
    BY <1>0, <2>1, <2>2 DEF ViewKept, Listening, Open, Typed
  <2>4. Accounted(b, p)
    BY <1>v, <2>3, ViewSame
  <2>5. Call("leave", a) \in Calls /\ \A c : Call("leave", a) # Call("join", c)
    BY DEF Call, Calls
  <2>6. CASE p # Owner[a]
    BY <1>0, <2>1, <2>4, <2>5, <2>6, AccountedAdded
  <2>7. CASE p = Owner[a]
    <3>1. /\ Len(awaiting) \in Nat /\ Len(awaiting') = Len(awaiting) + 1
          /\ awaiting'[Len(awaiting) + 1] = Call("leave", a)
      BY <1>0, <2>1, <2>5, CallAdded
    <3>2. Call("leave", a).op = "leave" /\ Call("leave", a).adapter = a
      BY CallsDiffer
    <3>3. \A k \in 1..Len(awaiting') : awaiting'[k] = Call("join", b) => k < Len(awaiting) + 1
      BY <2>5, <3>1
    <3>4. Len(awaiting) + 1 \in 1..Len(awaiting')
      BY <3>1
    <3> QED BY <2>7, <3>1, <3>2, <3>3, <3>4 DEF Accounted
  <2> QED BY <2>6, <2>7
<1>5. ASSUME NEW a \in Adapters, LeaveResumes(a) PROVE Accounted(b, p)'
  <2>1. /\ session' = [session EXCEPT ![a] = "removed"] /\ UNCHANGED <<client, roster, join, registry, misled>>
        /\ session[a] = "removing"
    BY <1>5, LeaveResumesKeeps DEF LeaveResumes, clientVars
  <2>2. PICK m \in Messages : m = Message("peer-left", Owner[a]) /\ m.peer = Owner[a] /\ Broadcast(m)
    BY <1>0, <1>5, MessageTyped DEF LeaveResumes
  <2>3. Listening(b)
    BY <1>0, <2>1 DEF Listening, Open, Typed
  <2>4. /\ InView(b, p) \/ p = Owner[a]
        /\ session[b] = "open" /\ Owner[b] # Owner[a] => p # Owner[a]
    BY <1>0, <2>1, <2>2, ViewToldOf
  <2>5. 1 \in 1..Len(awaiting) /\ awaiting[1] = Call("leave", a) /\ Without(awaiting, 1, awaiting')
    BY <1>0, <1>5, LeaveLeavesQueue
  <2>6. CASE p \in registry \cup misled
    BY <2>1, <2>6 DEF Accounted
  <2>7. CASE p \notin registry \cup misled
    <3>1. session[b] = "open" => p # Owner[b]
      BY <1>0, <2>7 DEF Seats, In
    <3>2. session[b] = "open" => p # Owner[a]
      BY <2>4, <3>1
    <3>3. session[b] # "open" => join[b] = "asked" /\ InView(b, p)'
      BY <2>3 DEF Listening, Open
    <3>4. InView(b, p)
      <4>1. CASE session[b] = "open"
        BY <2>4, <3>2, <4>1
      <4>2. CASE session[b] # "open"
        <5>1. owed'[b] = owed[b]
          BY <1>0, <2>2, <4>2, BroadcastReaches DEF MailSame
        <5> QED BY <2>1, <5>1 DEF InView
      <4> QED BY <4>1, <4>2
    <3>5. PICK n \in 1..Len(awaiting) :
            /\ awaiting[n].op = "leave" /\ Owner[awaiting[n].adapter] = p
            /\ \A k \in 1..Len(awaiting) : awaiting[k] = Call("join", b) => k < n
      BY <1>v, <2>3, <2>7, <3>4 DEF Accounted
    <3>6. n # 1
      <4>1. CASE session[b] = "open"
        <5>1. awaiting[1].adapter = a
          BY <2>5, CallsDiffer
        <5> QED BY <3>2, <3>5, <4>1, <5>1
      <4>2. CASE session[b] # "open"
        <5>1. PICK k \in 1..Len(awaiting) : awaiting[k] = Call("join", b)
          BY <1>0, <3>3, <4>2 DEF Queued
        <5>2. Len(awaiting) \in Nat
          BY <1>0, LenProperties DEF Typed
        <5> QED BY <3>5, <5>1, <5>2
      <4> QED BY <4>1, <4>2
    <3> QED BY <1>0, <2>5, <3>5, <3>6, AccountedCut
  <2> QED BY <2>6, <2>7
<1>6. ASSUME NEW a \in Adapters, HandleAnswer(a) PROVE Accounted(b, p)'
  <2>1. /\ UNCHANGED <<client, join, session, registry, awaiting, misled>>
        /\ b # a => roster'[b] = roster[b] /\ owed'[b] = owed[b]
    BY <1>0, <1>6 DEF HandleAnswer, sessionVars, Typed
  <2>2. Listening(b)
    BY <2>1 DEF Listening, Open
  <2>3. InView(b, p)
    <3>1. CASE b = a
      BY <1>6, <2>2, <3>1, ViewHandled
    <3>2. CASE b # a
      BY <2>1, <3>2 DEF InView
    <3> QED BY <3>1, <3>2
  <2>4. Accounted(b, p)
    BY <1>v, <2>2, <2>3
  <2> QED BY <2>1, <2>4 DEF Accounted
<1>7. ASSUME NEW f \in Frames, PostRead(f) PROVE Accounted(b, p)'
  <2>1. sender[f] \in Adapters /\ Owner[sender[f]] \in Peers
    BY <1>0, <1>7 DEF PostRead, Typed, Sent
  <2>2. PICK m \in Messages : m.peer = Owner[sender[f]] /\ Broadcast(m)
    BY <1>7, <2>1, MessageTyped DEF PostRead
  <2>3. /\ UNCHANGED <<client, roster, join, session, registry, awaiting>>
        /\ misled' = IF sender[f] \in Open THEN misled ELSE misled \cup {Owner[sender[f]]}
    BY <1>7 DEF PostRead, clientVars, sessionVars
  <2>4. Listening(b)
    BY <2>3 DEF Listening, Open
  <2>5. InView(b, p) \/ p = Owner[sender[f]]
    BY <1>0, <2>1, <2>2, <2>3, ViewToldOf
  <2>6. CASE p = Owner[sender[f]]
    <3>1. sender[f] \in Open => Owner[sender[f]] \in registry
      BY <1>0, <2>1 DEF Seats, In, Open
    <3>2. p \in registry' \cup misled'
      BY <2>3, <2>6, <3>1
    <3> QED BY <3>2 DEF Accounted
  <2>7. CASE InView(b, p)
    <3>1. Accounted(b, p)
      BY <1>v, <2>4, <2>7
    <3> QED BY <2>3, <3>1 DEF Accounted
  <2> QED BY <2>5, <2>6, <2>7
<1> QED BY <1>1, <1>2, <1>3, <1>4, <1>5, <1>6, <1>7, ViewSteps

(* NoGhostPeers: once a client that polls has handled everything its session was
   told and no call of the coordinator waits, it knows nobody who is not in the
   room, but for peers of whom a frame was passed on after they had left.  *)
THEOREM NoGhostPeersCorrect == Spec => []NoGhostPeers
<1>1. Init => Views
  <2> SUFFICES ASSUME Init PROVE Views
    OBVIOUS
  <2>1. \A a \in Adapters : ~Listening(a)
    BY DEF Init, Listening, Open
  <2> QED BY <2>1 DEF Views
<1>2. PollingInv /\ Views /\ [Next]_vars => Views'
  BY ViewsStep
<1>3. PollingInv /\ Views => NoGhostPeers
  <2> SUFFICES ASSUME PollingInv, Views, NEW a \in Adapters, client[a] = "polling", a \in Open, awaiting = <<>>,
                      event[a] = <<>>, queue[a] = <<>>, NEW p \in roster[a]
               PROVE  p \in registry \cup misled
    BY DEF NoGhostPeers
  <2>1. p \in Peers
    BY DEF PollingInv, Typed
  <2>2. owed[a] = <<>>
    <3>1. owed[a] = <<>> \o <<>>
      BY DEF PollingInv, Local, Heard, Open
    <3>2. <<>> \o <<>> = <<>>
      BY EmptySeq, ConcatEmptySeq
    <3> QED BY <3>1, <3>2
  <2>3. InView(a, p) /\ Listening(a)
    <3>1. Len(owed[a]) = 0
      BY <2>2
    <3> QED BY <3>1 DEF InView, Listening
  <2>4. Accounted(a, p)
    BY <2>1, <2>3 DEF Views
  <2>5. Len(awaiting) = 0
    OBVIOUS
  <2> QED BY <2>4, <2>5 DEF Accounted
<1> QED BY <1>1, <1>2, <1>3, PollingHolds, PTL DEF Spec
=============================================================================
