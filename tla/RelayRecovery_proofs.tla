------------------------- MODULE RelayRecovery_proofs -------------------------
(***************************************************************************)
(* Proofs about RelayRecovery, for every set of instances and peers and    *)
(* every bound: types, that an instance which refuses joins is recovering, *)
(* and what Redis has of an instance that has recovered.                   *)
(*                                                                         *)
(* The argument for the last looks at what an instance has asked of Redis  *)
(* and was not answered as one sequence, and says of every peer why its    *)
(* entry is as it is: it is a peer of the instance, or one that is being   *)
(* admitted or is leaving, or a recovery will restore or remove it.        *)
(***************************************************************************)
EXTENDS RelayRecovery, TLAPS, FiniteSetTheorems, FunctionTheorems, SequenceTheorems

(* The inductive invariant *)

Stages == {"idle", "rooms", "empties", "read", "capacity", "write", "notices", "say"}
Rests == {"idle", "empties", "notices"}
Pipeline == ({"hdel", "hset"} \X Peers) \cup {<<"set">>}

RecoveryRecord ==
    [pc : Stages, next : Rests, peers : SUBSET Peers, emptied : BOOLEAN,
     batch : Seq(Pipeline) \cup Seq(Peers), said : Nat]

\* What a recovery has put together is a pipeline until it is written, and then
\* the notices it says.
RecoveryOK ==
    /\ recovery \in [Instances -> RecoveryRecord]
    /\ \A i \in Instances :
           /\ recovery[i].pc \in {"capacity", "write"} => recovery[i].batch \in Seq(Pipeline)
           /\ recovery[i].pc = "say" => /\ recovery[i].batch \in Seq(Peers)
                                        /\ recovery[i].said < Len(recovery[i].batch)

\* Answers do not outlive the connection they come over, and nothing outlives a stop.
WireOK ==
    \A i \in Instances :
        /\ ~command[i] => answers[i] = <<>>
        /\ ~running[i] => /\ ~command[i] /\ ~subscriber[i]
                          /\ requests[i] = <<>> /\ recovery[i] = Idle

Typed == TypeOK /\ RecoveryOK /\ WireOK

-----------------------------------------------------------------------------
(* Lemmas about data *)

\* SetToSeq lists each element once.
LEMMA SetToSeqLists ==
    ASSUME NEW S, IsFiniteSet(S)
    PROVE  /\ SetToSeq(S) \in Seq(S)
           /\ \A x \in S : \E k \in DOMAIN SetToSeq(S) : SetToSeq(S)[k] = x
           /\ \A k, l \in DOMAIN SetToSeq(S) : SetToSeq(S)[k] = SetToSeq(S)[l] => k = l
<1> DEFINE n == Cardinality(S)
           s == SetToSeq(S)
<1>1. n \in Nat /\ ExistsBijection(1..n, S)
  BY FS_CardinalityType
<1>2. PICK f \in Bijection(1..n, S) : TRUE
  BY <1>1 DEF ExistsBijection
<1>3. f \in [1..n -> S] /\ IsInjective(f)
  BY <1>2 DEF Bijection, Injection, IsInjective
<1>4. s \in [1..n -> S] /\ IsInjective(s)
  BY <1>3 DEF SetToSeq
<1> HIDE DEF s
<1>5. s \in Injection(1..n, S)
  BY <1>4 DEF Injection
<1>6. Cardinality(1..n) = n
  <2>1. Cardinality(1..n) = IF 1 > n THEN 0 ELSE n - 1 + 1
    BY <1>1, FS_Interval
  <2> QED
    BY <1>1, <2>1
<1>7. s \in Surjection(1..n, S)
  BY <1>5, <1>6, FS_Injection
<1>8. \A x \in S : \E k \in 1..n : s[k] = x
  BY <1>7 DEF Surjection
<1>9. DOMAIN s = 1..n
  BY <1>4
<1>10. \A k, l \in DOMAIN s : s[k] = s[l] => k = l
  BY <1>4 DEF IsInjective
<1> QED
  BY <1>1, <1>4, <1>8, <1>9, <1>10 DEF s

\* A command for each member of a finite set.
LEMMA CommandsFinite ==
    ASSUME NEW name, NEW S, IsFiniteSet(S)
    PROVE  IsFiniteSet({<<name, p>> : p \in S})
<1> DEFINE T == {<<name, p>> : p \in S}
           f == [p \in S |-> <<name, p>>]
<1>1. f \in [S -> T] /\ \A t \in T : \E p \in S : f[p] = t
  OBVIOUS
<1>2. f \in Surjection(S, T)
  BY <1>1 DEF Surjection
<1> QED
  BY <1>2, FS_Surjection

\* The scripts and the commands of a pipeline make a room of a room.
LEMMA RanIsRoom ==
    ASSUME redis \in RedisRoom, NEW i \in Instances, NEW c \in Commands
    PROVE  Ran(i, c) \in RedisRoom
<1>1. c[1] \in {"join", "leave", "hset", "hdel"} => c[2] \in Peers
  BY DEF Commands
<1>2. MaxPeers \in Nat
  BY BoundsAreNumbers
<1>3. ASSUME NEW p \in Peers PROVE JoinRoom(redis, p, i, MaxPeers) \in RedisRoom
  <2>1. CapacityFor(redis, MaxPeers) \in Nat
    BY <1>2 DEF CapacityFor, RedisRoom
  <2>2. JoinVerdict(redis, p, MaxPeers) \in {"PEER_EXISTS", "ROOM_FULL", "joined"}
    BY DEF JoinVerdict
  <2> QED
    BY <2>1, <2>2 DEF JoinRoom, RedisRoom
<1>4. ASSUME NEW p \in Peers PROVE LeaveRoom(redis, p) \in RedisRoom
  BY DEF LeaveRoom, RedisRoom, NoCapacity
<1>5. ASSUME NEW p \in Peers, NEW o \in Instances \cup {NoInstance}
      PROVE  [redis EXCEPT !.peers[p] = o] \in RedisRoom
  BY DEF RedisRoom
<1>6. [redis EXCEPT !.capacity = MaxPeers] \in RedisRoom
  BY <1>2 DEF RedisRoom
<1> QED
  BY <1>1, <1>3, <1>4, <1>5, <1>6 DEF Ran

\* An update of one field of a function of functions.
LEMMA Nested ==
    ASSUME NEW S, NEW f \in [Instances -> [Peers -> S]], NEW i \in Instances, NEW p \in Peers,
           NEW v \in S
    PROVE  [f EXCEPT ![i][p] = v] \in [Instances -> [Peers -> S]]
OBVIOUS

-----------------------------------------------------------------------------
(* Types *)

Replies == [to : Commands, room : RedisRoom]

\* The commands on a wire with these answers and requests, the oldest first.
OnWire(a, q) == [k \in DOMAIN a |-> a[k].to] \o q

\* The place of a command on the wire.
LEMMA WireElements ==
    ASSUME NEW a \in Seq(Replies), NEW q \in Seq(Commands)
    PROVE  /\ OnWire(a, q) \in Seq(Commands)
           /\ Len(OnWire(a, q)) = Len(a) + Len(q)
           /\ DOMAIN OnWire(a, q) = 1..(Len(a) + Len(q))
           /\ \A k \in 1..(Len(a) + Len(q)) :
                  OnWire(a, q)[k] = IF k <= Len(a) THEN a[k].to ELSE q[k - Len(a)]
<1> DEFINE to == [k \in DOMAIN a |-> a[k].to]
<1>1. \A k \in 1..Len(a) : a[k].to \in Commands
  <2>1. \A k \in 1..Len(a) : a[k] \in Replies
    BY ElementOfSeq
  <2> QED
    BY <2>1 DEF Replies
<1>2. to \in Seq(Commands) /\ Len(to) = Len(a) /\ \A k \in 1..Len(a) : to[k] = a[k].to
  BY <1>1
<1>3. OnWire(a, q) = to \o q
  BY DEF OnWire
<1> HIDE DEF to
<1>4. to \o q \in Seq(Commands)
      /\ Len(to \o q) = Len(to) + Len(q)
      /\ \A k \in 1..(Len(to) + Len(q)) :
             (to \o q)[k] = IF k <= Len(to) THEN to[k] ELSE q[k - Len(to)]
  BY <1>2, ConcatProperties
<1>5. DOMAIN (to \o q) = 1..Len(to \o q)
  BY <1>4, LenProperties
<1>6. Len(a) \in Nat /\ Len(q) \in Nat
  BY LenProperties
<1> QED
  BY <1>2, <1>3, <1>4, <1>5, <1>6

\* Without answers there are only requests.
LEMMA OnlyRequests ==
    ASSUME NEW q \in Seq(Commands) PROVE OnWire(<<>>, q) = q
<1>1. <<>> \in Seq(Replies) /\ Len(<<>>) = 0
  BY EmptySeq
<1>2. Len(q) \in Nat
  BY LenProperties
<1> DEFINE u == OnWire(<<>>, q)
<1>3. u \in Seq(Commands) /\ Len(u) = Len(q)
      /\ \A k \in 1..Len(q) : u[k] = q[k]
  <2>1. u \in Seq(Commands) /\ Len(u) = 0 + Len(q)
        /\ \A k \in 1..(0 + Len(q)) : u[k] = IF k <= 0 THEN <<>>[k].to ELSE q[k - 0]
    BY <1>1, WireElements
  <2> QED
    BY <1>2, <2>1
<1> QED
  BY <1>3, SeqEqual

\* The commands that were not answered.
LEMMA UnansweredTyped ==
    ASSUME Typed, NEW i \in Instances
    PROVE  Unanswered(i) \in Seq(Commands)
BY WireElements DEF Typed, TypeOK, Replies, Unanswered, OnWire

\* What taking an answer gives.
LEMMA Taken ==
    ASSUME Typed, NEW i \in Instances, NEW c, Answered(i, c)
    PROVE  /\ answers[i] # <<>> /\ Answer(i) \in RedisRoom /\ command[i]
           /\ Take(i) => answers' \in [Instances -> Seq(Replies)]
<1>1. answers \in [Instances -> Seq(Replies)] /\ answers[i] # <<>>
  BY DEF Typed, TypeOK, Replies, Answered
<1>2. Head(answers[i]) \in Replies /\ Tail(answers[i]) \in Seq(Replies)
  BY <1>1
<1> QED
  BY <1>1, <1>2 DEF Answer, Take, Replies, Typed, WireOK

\* Commands that are added to the requests.
LEMMA Requested ==
    ASSUME Typed, NEW i \in Instances, NEW commands \in Seq(Commands), Request(i, commands)
    PROVE  requests' \in [Instances -> Seq(Commands)]
<1>1. requests \in [Instances -> Seq(Commands)]
  BY DEF Typed, TypeOK
<1>2. requests[i] \o commands \in Seq(Commands)
  BY <1>1
<1> QED
  BY <1>1, <1>2 DEF Request

\* The end of a recovery.
LEMMA RecoveredTyped ==
    ASSUME Typed, NEW i \in Instances, NEW n \in Nat,
           Recovered(i, n) \/ RecoveryFails(i)
    PROVE  /\ recovery' = [recovery EXCEPT ![i] = Idle]
           /\ RecoveryOK'
           /\ {open, emptied}' \subseteq [Instances -> BOOLEAN]
           /\ unsaid' \in [Instances -> Seq(Peers)]
<1>1. recovery' = [recovery EXCEPT ![i] = Idle]
  BY DEF Recovered, RecoveryFails
<1>2. Idle \in RecoveryRecord /\ Idle.pc = "idle"
  BY DEF Idle, RecoveryRecord, Stages, Rests
<1>3. RecoveryOK'
  BY <1>1, <1>2 DEF RecoveryOK, Typed
<1>4. SubSeq(unsaid[i], n + 1, Len(unsaid[i])) \in Seq(Peers)
  BY DEF Typed, TypeOK
<1>5. open' \in [Instances -> BOOLEAN] /\ emptied' \in [Instances -> BOOLEAN]
  BY DEF Recovered, RecoveryFails, pending, Typed, TypeOK
<1>6. unsaid' \in [Instances -> Seq(Peers)]
  <2>1. unsaid \in [Instances -> Seq(Peers)]
    BY DEF Typed, TypeOK
  <2>2. CASE Recovered(i, n)
    BY <1>4, <2>1, <2>2 DEF Recovered
  <2>3. CASE RecoveryFails(i)
    BY <2>1, <2>3 DEF RecoveryFails, pending
  <2> QED
    BY <2>2, <2>3
<1> QED
  BY <1>1, <1>3, <1>5, <1>6

\* The loss of connections.
LEMMA LostTyped ==
    ASSUME Typed, NEW broken \in SUBSET Instances, Lost(broken)
    PROVE  /\ open' \in [Instances -> BOOLEAN]
           /\ requests' \in [Instances -> Seq(Commands)]
           /\ answers' \in [Instances -> Seq(Replies)]
<1>1. \A i \in Instances : Unanswered(i) \in Seq(Commands)
  BY UnansweredTyped
<1>2. /\ open \in [Instances -> BOOLEAN]
      /\ requests \in [Instances -> Seq(Commands)]
      /\ answers \in [Instances -> Seq(Replies)]
  BY DEF Typed, TypeOK, Replies
<1>3. \A i \in Instances : (open[i] /\ i \notin broken) \in BOOLEAN
  OBVIOUS
<1>4. open' \in [Instances -> BOOLEAN]
  BY <1>3 DEF Lost
<1>5. requests' \in [Instances -> Seq(Commands)]
  BY <1>1, <1>2 DEF Lost
<1>6. answers' \in [Instances -> Seq(Replies)]
  BY <1>2 DEF Lost
<1> QED
  BY <1>4, <1>5, <1>6

\* Every step keeps the types, ...
LEMMA TypedStep == Typed /\ [Next]_vars => Typed'
<1> SUFFICES ASSUME Typed, [Next]_vars PROVE Typed'
  OBVIOUS
<1> USE DEF Replies
<1>t. /\ redis \in RedisRoom
      /\ command \in [Instances -> BOOLEAN] /\ subscriber \in [Instances -> BOOLEAN]
      /\ open \in [Instances -> BOOLEAN] /\ emptied \in [Instances -> BOOLEAN]
      /\ running \in [Instances -> BOOLEAN]
      /\ requests \in [Instances -> Seq(Commands)]
      /\ answers \in [Instances -> Seq(Replies)]
      /\ local \in [Instances -> SUBSET Peers] /\ owed \in [Instances -> SUBSET Peers]
      /\ unheard \in [Instances -> SUBSET Peers]
      /\ unsaid \in [Instances -> Seq(Peers)]
      /\ client \in [Peers -> [pc : {"out", "joining", "in"}, at : Instances \cup {NoInstance}]]
      /\ leaving \in [Instances -> [Peers -> {"no", "leave", "left", "publish"}]]
      /\ \A i \in Instances : local[i] = {p \in Peers : client[p] = [pc |-> "in", at |-> i]}
      /\ recovery \in [Instances -> RecoveryRecord]
  BY DEF Typed, TypeOK, RecoveryOK
<1>1. ASSUME Restart PROVE Typed'
  <2>1. Lost(Instances)
    BY <1>1 DEF Restart
  <2>2. EmptyRoom \in RedisRoom
    BY DEF EmptyRoom, RedisRoom, NoCapacity
  <2>3. TypeOK'
    BY <1>1, <1>t, <2>1, <2>2, LostTyped DEF Restart, TypeOK, pending
  <2>4. RecoveryOK'
    BY <1>1 DEF Restart, RecoveryOK, Typed
  <2>5. WireOK'
    <3>1. ASSUME NEW i \in Instances, ~running[i] PROVE Unanswered(i) = <<>>
      <4>1. answers[i] = <<>> /\ requests[i] = <<>>
        BY <3>1 DEF WireOK, Typed
      <4> QED
        BY <4>1, OnlyRequests, EmptySeq DEF Unanswered, OnWire
    <3> QED
      BY <1>1, <2>1, <3>1, <1>t DEF Restart, Lost, WireOK, Typed
  <2> QED
    BY <2>3, <2>4, <2>5 DEF Typed
<1>2. ASSUME NEW i \in Instances, Execute(i) PROVE Typed'
  <2>1. Head(requests[i]) \in Commands /\ Tail(requests[i]) \in Seq(Commands)
    BY <1>2, <1>t DEF Execute
  <2>2. redis' \in RedisRoom
    BY <1>2, <1>t, <2>1, RanIsRoom DEF Execute
  <2>3. answers' \in [Instances -> Seq(Replies)]
    <3> DEFINE reply == [to |-> Head(requests[i]), room |-> redis]
    <3>1. reply \in Replies
      BY <1>t, <2>1
    <3>2. answers' = [answers EXCEPT ![i] = Append(@, reply)]
      BY <1>2 DEF Execute
    <3> HIDE DEF reply, Replies
    <3>3. Append(answers[i], reply) \in Seq(Replies)
      BY <1>t, <3>1, AppendProperties
    <3> QED
      BY <1>t, <3>2, <3>3
  <2>4. owed' \in [Instances -> SUBSET Peers]
    BY <1>2, <1>t DEF Execute
  <2>5. requests' \in [Instances -> Seq(Commands)]
    BY <1>2, <1>t, <2>1 DEF Execute
  <2>6. TypeOK'
    BY <1>2, <1>t, <2>2, <2>3, <2>4, <2>5 DEF Execute, TypeOK, pending
  <2>7. RecoveryOK'
    BY <1>2 DEF Execute, RecoveryOK, Typed
  <2>8. WireOK'
    BY <1>2, <1>t DEF Execute, WireOK, Typed
  <2> QED
    BY <2>6, <2>7, <2>8 DEF Typed
<1>3. ASSUME NEW i \in Instances, Break(i) PROVE Typed'
  <2>1. Lost({i})
    BY <1>3 DEF Break
  <2>2. command' \in [Instances -> BOOLEAN] /\ subscriber' \in [Instances -> BOOLEAN]
    BY <1>3, <1>t DEF Break
  <2>3. TypeOK'
    BY <1>3, <1>t, <2>1, <2>2, LostTyped DEF Break, TypeOK, pending
  <2>4. RecoveryOK'
    BY <1>3 DEF Break, RecoveryOK, Typed
  <2>5. running[i]
    BY <1>3 DEF Break, WireOK, Typed
  <2>6. WireOK'
    BY <1>3, <1>t, <2>1, <2>5 DEF Break, Lost, WireOK, Typed
  <2> QED
    BY <2>3, <2>4, <2>6 DEF Typed
<1>4. ASSUME NEW i \in Instances, GiveUp(i) PROVE Typed'
  <2>1. Recovered(i, 0) \/ RecoveryFails(i)
    BY <1>4 DEF GiveUp
  <2>2. /\ recovery' = [recovery EXCEPT ![i] = Idle] /\ RecoveryOK'
        /\ open' \in [Instances -> BOOLEAN] /\ emptied' \in [Instances -> BOOLEAN]
        /\ unsaid' \in [Instances -> Seq(Peers)]
    BY <2>1, RecoveredTyped
  <2>3. requests' \in [Instances -> Seq(Commands)]
    BY <1>4, <1>t DEF GiveUp
  <2>4. /\ client' \in [Peers -> [pc : {"out", "joining", "in"}, at : Instances \cup {NoInstance}]]
        /\ \A p \in Peers : client'[p] = client[p]
                            \/ (client[p].pc = "joining" /\ client'[p] = Out)
    BY <1>4, <1>t DEF GiveUp, Out
  <2>5. leaving' \in [Instances -> [Peers -> {"no", "leave", "left", "publish"}]]
    BY <1>4, <1>t DEF GiveUp
  <2>6. unheard' \in [Instances -> SUBSET Peers]
    BY <1>4, <1>t DEF GiveUp
  <2>7. \A j \in Instances : local'[j] = {p \in Peers : client'[p] = [pc |-> "in", at |-> j]}
    BY <1>4, <1>t, <2>4 DEF GiveUp, Out
  <2>8. TypeOK'
    BY <1>4, <1>t, <2>2, <2>3, <2>4, <2>5, <2>6, <2>7 DEF GiveUp, TypeOK
  <2>9. WireOK'
    BY <1>4, <1>t, <2>2 DEF GiveUp, WireOK, Typed
  <2> QED
    BY <2>2, <2>8, <2>9 DEF Typed
<1>5. ASSUME NEW i \in Instances, Reconnect(i) PROVE Typed'
  <2>1. command' \in [Instances -> BOOLEAN] /\ subscriber' \in [Instances -> BOOLEAN]
    BY <1>5, <1>t DEF Reconnect
  <2>2. open' \in [Instances -> BOOLEAN]
    BY <1>5, <1>t DEF Reconnect
  <2>3. TypeOK'
    BY <1>5, <1>t, <2>1, <2>2 DEF Reconnect, TypeOK, pending, history
  <2>4. RecoveryOK'
    <3>0. recovery[i] \in RecoveryRecord
      BY <1>t
    <3>1. [recovery[i] EXCEPT !.pc = "rooms"] \in RecoveryRecord
      BY <3>0 DEF RecoveryRecord, Stages
    <3>2. CASE recovery' = recovery
      BY <3>2 DEF RecoveryOK, Typed
    <3>3. CASE recovery' = [recovery EXCEPT ![i].pc = "rooms"]
      <4>1. recovery' = [recovery EXCEPT ![i] = [recovery[i] EXCEPT !.pc = "rooms"]]
        BY <3>3
      <4>2. [recovery[i] EXCEPT !.pc = "rooms"].pc = "rooms"
        BY <1>t DEF RecoveryRecord
      <4> QED
        BY <1>t, <3>1, <4>1, <4>2 DEF RecoveryOK, Typed
    <3> QED
      BY <1>5, <3>2, <3>3 DEF Reconnect
  <2>5. WireOK'
    BY <1>5, <1>t DEF Reconnect, WireOK, Typed
  <2> QED
    BY <2>3, <2>4, <2>5 DEF Typed
<1>6. ASSUME NEW i \in Instances, RecoveryStep(i) PROVE Typed'
  <2>t. /\ recovery[i] \in RecoveryRecord /\ command[i] /\ running[i]
        /\ recovery[i].batch \in Seq(Pipeline) \cup Seq(Peers)
        /\ recovery[i].pc \in {"capacity", "write"} => recovery[i].batch \in Seq(Pipeline)
        /\ recovery[i].pc = "say" => /\ recovery[i].batch \in Seq(Peers)
                                     /\ recovery[i].said < Len(recovery[i].batch)
    BY <1>6, <1>t DEF RecoveryStep, Typed, WireOK, RecoveryOK, RecoveryRecord
  <2>0. ASSUME requests' \in [Instances -> Seq(Commands)], answers' \in [Instances -> Seq(Replies)],
               unsaid' \in [Instances -> Seq(Peers)],
               open' \in [Instances -> BOOLEAN], emptied' \in [Instances -> BOOLEAN],
               recovery'[i] \in RecoveryRecord,
               recovery' = [recovery EXCEPT ![i] = recovery'[i]],
               recovery'[i].pc \in {"capacity", "write"} => recovery'[i].batch \in Seq(Pipeline),
               recovery'[i].pc = "say" => /\ recovery'[i].batch \in Seq(Peers)
                                          /\ recovery'[i].said < Len(recovery'[i].batch),
               \A j \in Instances \ {i} : requests'[j] = requests[j] /\ answers'[j] = answers[j]
        PROVE  Typed'
    <3>1. TypeOK'
      BY <1>6, <1>t, <2>0 DEF RecoveryStep, TypeOK, history
    <3>2. RecoveryOK'
      BY <1>t, <2>0 DEF RecoveryOK, Typed
    <3>3. WireOK'
      BY <1>6, <1>t, <2>0, <2>t DEF RecoveryStep, WireOK, Typed
    <3> QED
      BY <3>1, <3>2, <3>3 DEF Typed
  <2>1. ASSUME NEW peers \in SUBSET Peers, NEW next \in Rests, Sync(i, peers, next)
        PROVE  /\ recovery'[i] \in RecoveryRecord /\ recovery'[i].pc = "read"
               /\ recovery' = [recovery EXCEPT ![i] = recovery'[i]]
               /\ requests' \in [Instances -> Seq(Commands)]
               /\ \A j \in Instances \ {i} : requests'[j] = requests[j]
    <3> DEFINE r == [recovery[i] EXCEPT !.pc = "read", !.peers = peers, !.next = next,
                                        !.emptied = (next = "notices")]
    <3>1. r \in RecoveryRecord /\ r.pc = "read"
      BY <2>t, <2>1 DEF RecoveryRecord, Stages
    <3>2. recovery' = [recovery EXCEPT ![i] = r]
      BY <2>1 DEF Sync
    <3>3. << <<"hgetall">> >> \in Seq(Commands)
      BY DEF Commands
    <3>4. requests' \in [Instances -> Seq(Commands)]
      BY <2>1, <3>3, Requested DEF Sync
    <3>5. \A j \in Instances \ {i} : requests'[j] = requests[j]
      BY <1>t, <2>1 DEF Sync, Request
    <3>6. recovery'[i] = r
      BY <1>t, <3>2
    <3> HIDE DEF r
    <3> QED
      BY <1>t, <3>1, <3>2, <3>4, <3>5, <3>6
  <2>2. ASSUME NEW pc \in Stages \ {"capacity", "write", "say"},
               recovery' = [recovery EXCEPT ![i].pc = pc]
        PROVE  /\ recovery'[i] \in RecoveryRecord /\ recovery'[i].pc = pc
               /\ recovery' = [recovery EXCEPT ![i] = recovery'[i]]
    <3>1. [recovery[i] EXCEPT !.pc = pc] \in RecoveryRecord
          /\ [recovery[i] EXCEPT !.pc = pc].pc = pc
      BY <2>t DEF RecoveryRecord
    <3>2. recovery' = [recovery EXCEPT ![i] = [recovery[i] EXCEPT !.pc = pc]]
      BY <2>2
    <3> QED
      BY <1>t, <3>1, <3>2
  <2>3. CASE SyncRooms(i)
    <3>1. CASE local[i] # {}
      <4>1. Sync(i, local[i], "empties")
        BY <2>3, <3>1 DEF SyncRooms
      <4>2. local[i] \in SUBSET Peers /\ "empties" \in Rests
        BY <1>t DEF Rests
      <4> QED
        BY <1>t, <2>0, <2>1, <2>3, <4>1, <4>2 DEF SyncRooms
    <3>2. CASE local[i] = {}
      <4>1. recovery' = [recovery EXCEPT ![i].pc = "empties"]
            /\ "empties" \in Stages \ {"capacity", "write", "say"}
        BY <2>3, <3>2 DEF SyncRooms, Stages
      <4> QED
        BY <1>t, <2>0, <2>2, <2>3, <3>2, <4>1 DEF SyncRooms
    <3> QED
      BY <3>1, <3>2
  <2>4. CASE SyncEmpties(i)
    <3>1. CASE emptied[i]
      <4>1. Sync(i, {}, "notices")
        BY <2>4, <3>1 DEF SyncEmpties
      <4>2. {} \in SUBSET Peers /\ "notices" \in Rests
        BY DEF Rests
      <4> QED
        BY <1>t, <2>0, <2>1, <2>4, <4>1, <4>2 DEF SyncEmpties
    <3>2. CASE ~emptied[i]
      <4>1. recovery' = [recovery EXCEPT ![i].pc = "notices"]
            /\ "notices" \in Stages \ {"capacity", "write", "say"}
        BY <2>4, <3>2 DEF SyncEmpties, Stages
      <4> QED
        BY <1>t, <2>0, <2>2, <2>4, <3>2, <4>1 DEF SyncEmpties
    <3> QED
      BY <3>1, <3>2
  <2>5. CASE ReadRoom(i)
    <3>0. Answer(i) \in RedisRoom /\ answers' \in [Instances -> Seq(Replies)]
          /\ \A j \in Instances \ {i} : answers'[j] = answers[j]
      BY <1>t, <2>5, Taken DEF ReadRoom, Take
    <3> DEFINE stale == {<<"hdel", p>> : p \in Stale(i, Answer(i))}
               own == {<<"hset", p>> : p \in recovery[i].peers}
               batch == SetToSeq(stale) \o SetToSeq(own)
    <3>1. stale \subseteq Pipeline /\ own \subseteq Pipeline
      <4>1. Stale(i, Answer(i)) \subseteq Peers /\ recovery[i].peers \subseteq Peers
        BY <2>t DEF Stale, RecoveryRecord
      <4> QED
        BY <4>1 DEF Pipeline
    <3>2. IsFiniteSet(stale) /\ IsFiniteSet(own)
      <4>1. IsFiniteSet(Stale(i, Answer(i))) /\ IsFiniteSet(recovery[i].peers)
        BY <2>t, PeersFinite, FS_Subset DEF Stale, RecoveryRecord
      <4> QED
        BY <4>1, CommandsFinite
    <3>3. batch \in Seq(Pipeline)
      <4> HIDE DEF stale, own
      <4>1. SetToSeq(stale) \in Seq(Pipeline) /\ SetToSeq(own) \in Seq(Pipeline)
        BY <3>1, <3>2, SetToSeqLists, SeqMonotonic
      <4> QED
        BY <4>1, ConcatProperties
    <3> HIDE DEF batch
    <3>4. Pipeline \subseteq Commands
      BY DEF Pipeline, Commands
    <3>5. batch \in Seq(Commands) /\ << <<"get">> >> \in Seq(Commands)
      BY <3>3, <3>4, SeqMonotonic DEF Commands
    <3>6. requests' \in [Instances -> Seq(Commands)]
          /\ \A j \in Instances \ {i} : requests'[j] = requests[j]
      BY <1>t, <2>5, <3>5, Requested DEF ReadRoom, Request, batch
    <3>7. ASSUME NEW pc \in {"capacity", "write"} \cup Rests,
                 recovery' = [recovery EXCEPT ![i] = [@ EXCEPT !.pc = pc, !.batch = batch]]
          PROVE  Typed'
      <4> DEFINE r == [recovery[i] EXCEPT !.pc = pc, !.batch = batch]
      <4>1. r \in RecoveryRecord /\ r.pc = pc /\ r.batch = batch
        BY <2>t, <3>3, <3>7 DEF RecoveryRecord, Stages, Rests
      <4>2. recovery' = [recovery EXCEPT ![i] = r]
        BY <3>7
      <4> HIDE DEF r
      <4>3. recovery'[i] = r
        BY <1>t, <4>2
      <4>4. pc # "say"
        BY DEF Rests
      <4>5. UNCHANGED <<unsaid, emptied, open>>
        BY <2>5 DEF ReadRoom
      <4> QED
        BY <1>t, <2>0, <3>0, <3>3, <3>6, <4>1, <4>2, <4>3, <4>4, <4>5
    <3>8. CASE recovery[i].peers # {} /\ MaxPeers # NoCapacity
      BY <2>5, <3>7, <3>8 DEF ReadRoom, batch
    <3>9. CASE ~(recovery[i].peers # {} /\ MaxPeers # NoCapacity)
      <4> DEFINE pc == IF batch = <<>> THEN recovery[i].next ELSE "write"
      <4>1. pc \in {"capacity", "write"} \cup Rests
        BY <2>t DEF RecoveryRecord
      <4>2. recovery' = [recovery EXCEPT ![i] = [@ EXCEPT !.pc = pc, !.batch = batch]]
        BY <2>5, <3>9 DEF ReadRoom, batch
      <4> QED
        BY <3>7, <4>1, <4>2
    <3> QED
      BY <3>8, <3>9
  <2>6. CASE ReadCapacity(i)
    <3>0. Answer(i) \in RedisRoom /\ answers' \in [Instances -> Seq(Replies)]
          /\ \A j \in Instances \ {i} : answers'[j] = answers[j]
      BY <1>t, <2>6, Taken DEF ReadCapacity, Take
    <3> DEFINE batch == recovery[i].batch
                        \o IF Answer(i).capacity = NoCapacity THEN << <<"set">> >> ELSE <<>>
               r == [recovery[i] EXCEPT !.pc = "write", !.batch = batch]
    <3>1. batch \in Seq(Pipeline)
      <4>1. recovery[i].batch \in Seq(Pipeline)
        BY <2>t, <2>6 DEF ReadCapacity
      <4>2. << <<"set">> >> \in Seq(Pipeline)
        BY DEF Pipeline
      <4> QED
        BY <4>1, <4>2, ConcatProperties, EmptySeq
    <3>2. recovery' = [recovery EXCEPT ![i] = r] /\ Request(i, batch)
      BY <2>6 DEF ReadCapacity
    <3> HIDE DEF batch
    <3>3. r \in RecoveryRecord /\ r.pc = "write" /\ r.batch = batch
      BY <2>t, <3>1 DEF RecoveryRecord, Stages
    <3>4. Pipeline \subseteq Commands
      BY DEF Pipeline, Commands
    <3>5. requests' \in [Instances -> Seq(Commands)]
          /\ \A j \in Instances \ {i} : requests'[j] = requests[j]
      BY <1>t, <3>1, <3>2, <3>4, SeqMonotonic, Requested DEF Request
    <3> HIDE DEF r
    <3>6. recovery'[i] = r
      BY <1>t, <3>2
    <3>7. UNCHANGED <<unsaid, emptied, open>>
      BY <2>6 DEF ReadCapacity
    <3> QED
      BY <1>t, <2>0, <3>0, <3>1, <3>2, <3>3, <3>5, <3>6, <3>7
  <2>7. CASE Written(i)
    <3> DEFINE r == [recovery[i] EXCEPT !.pc = recovery[i].next, !.batch = <<>>]
    <3>1. recovery' = [recovery EXCEPT ![i] = r]
      BY <2>7 DEF Written
    <3>2. r \in RecoveryRecord /\ r.pc \in Rests /\ r.batch = <<>>
      BY <2>t, EmptySeq DEF RecoveryRecord, Stages, Rests
    <3> HIDE DEF r
    <3>3. recovery'[i] = r /\ r.pc \notin {"capacity", "write", "say"}
      BY <1>t, <3>1, <3>2 DEF Rests
    <3>4. Len(recovery[i].batch) \in Nat
      BY <2>t
    <3>5. SubSeq(answers[i], Len(recovery[i].batch) + 1, Len(answers[i])) \in Seq(Replies)
      <4> HIDE DEF Replies
      <4>1. answers[i] \in Seq(Replies)
        BY <1>t
      <4> QED
        BY <3>4, <4>1
    <3>6. answers' \in [Instances -> Seq(Replies)]
          /\ \A j \in Instances \ {i} : answers'[j] = answers[j]
      BY <1>t, <2>7, <3>5 DEF Written
    <3>7. UNCHANGED <<requests, unsaid, emptied, open>>
      BY <2>7 DEF Written
    <3> QED
      BY <1>t, <2>0, <3>1, <3>2, <3>3, <3>6, <3>7
  <2>8. ASSUME NEW notices \in Seq(Peers), NEW said \in Nat, said < Len(notices),
               Say(i, notices, said),
               answers' \in [Instances -> Seq(Replies)],
               \A j \in Instances \ {i} : answers'[j] = answers[j]
        PROVE  Typed'
    <3> DEFINE r == [recovery[i] EXCEPT !.pc = "say", !.batch = notices, !.said = said]
    <3>1. recovery' = [recovery EXCEPT ![i] = r] /\ UNCHANGED <<pending, open>>
          /\ Request(i, << <<"announce", notices[said + 1]>> >>)
      BY <2>8 DEF Say
    <3>2. r \in RecoveryRecord /\ r.pc = "say" /\ r.batch = notices /\ r.said = said
      BY <2>t DEF RecoveryRecord, Stages
    <3>3. notices[said + 1] \in Peers
      BY <2>8
    <3>4. << <<"announce", notices[said + 1]>> >> \in Seq(Commands)
      BY <3>3 DEF Commands
    <3> HIDE DEF r
    <3>5. recovery'[i] = r
      BY <1>t, <3>1
    <3>6. requests' \in [Instances -> Seq(Commands)]
          /\ \A j \in Instances \ {i} : requests'[j] = requests[j]
      BY <1>t, <3>1, <3>4, Requested DEF Request
    <3> QED
      BY <1>t, <2>0, <2>8, <3>1, <3>2, <3>5, <3>6 DEF pending
  <2>9. ASSUME NEW said \in Nat, Recovered(i, said), UNCHANGED requests,
               answers' \in [Instances -> Seq(Replies)],
               \A j \in Instances \ {i} : answers'[j] = answers[j]
        PROVE  Typed'
    <3>1. /\ recovery' = [recovery EXCEPT ![i] = Idle] /\ RecoveryOK'
          /\ open' \in [Instances -> BOOLEAN] /\ emptied' \in [Instances -> BOOLEAN]
          /\ unsaid' \in [Instances -> Seq(Peers)]
      BY <2>9, RecoveredTyped
    <3>2. recovery'[i] = Idle /\ recovery'[i] \in RecoveryRecord /\ Idle.pc = "idle"
      BY <1>t, <3>1 DEF RecoveryOK, Idle
    <3> QED
      BY <1>t, <2>0, <2>9, <3>1, <3>2
  <2>10. CASE ReplayNotices(i)
    <3>1. unsaid[i] \in Seq(Peers) /\ (unsaid[i] # <<>> => 0 < Len(unsaid[i]))
      BY <1>t
    <3>2. answers' = answers
          /\ ((Recovered(i, 0) /\ UNCHANGED requests)
              \/ (unsaid[i] # <<>> /\ Say(i, unsaid[i], 0)))
      BY <2>10 DEF ReplayNotices
    <3> QED
      BY <1>t, <2>8, <2>9, <3>1, <3>2
  <2>11. CASE Said(i)
    <3> DEFINE notices == recovery[i].batch
               said == recovery[i].said + 1
    <3>1. answers' \in [Instances -> Seq(Replies)]
          /\ \A j \in Instances \ {i} : answers'[j] = answers[j]
      BY <1>t, <2>11, Taken DEF Said, Take
    <3>2. notices \in Seq(Peers) /\ said \in Nat /\ said <= Len(notices)
      BY <2>t, <2>11 DEF Said, RecoveryRecord
    <3>3. (Recovered(i, said) /\ UNCHANGED requests)
          \/ (said # Len(notices) /\ Say(i, notices, said))
      BY <2>11 DEF Said
    <3> HIDE DEF notices, said
    <3>4. CASE Recovered(i, said) /\ UNCHANGED requests
      BY <2>9, <3>1, <3>2, <3>4
    <3>5. CASE said # Len(notices) /\ Say(i, notices, said)
      <4>1. said < Len(notices)
        BY <3>2, <3>5
      <4> QED
        BY <2>8, <3>1, <3>2, <3>5, <4>1
    <3> QED
      BY <3>3, <3>4, <3>5
  <2> QED
    BY <1>6, <2>3, <2>4, <2>5, <2>6, <2>7, <2>10, <2>11 DEF RecoveryStep
<1>7. ASSUME NEW i \in Instances, Stop(i) PROVE Typed'
  <2>0. <<>> \in Seq(Commands) /\ <<>> \in Seq(Replies) /\ <<>> \in Seq(Peers)
    BY EmptySeq
  <2> HIDE DEF Replies
  <2>1. /\ running' \in [Instances -> BOOLEAN] /\ command' \in [Instances -> BOOLEAN]
        /\ subscriber' \in [Instances -> BOOLEAN] /\ open' \in [Instances -> BOOLEAN]
        /\ emptied' \in [Instances -> BOOLEAN]
    BY <1>7, <1>t DEF Stop
  <2>2. /\ requests' \in [Instances -> Seq(Commands)] /\ answers' \in [Instances -> Seq(Replies)]
        /\ unsaid' \in [Instances -> Seq(Peers)] /\ unheard' \in [Instances -> SUBSET Peers]
    BY <1>7, <1>t, <2>0 DEF Stop
  <2>3. leaving' \in [Instances -> [Peers -> {"no", "leave", "left", "publish"}]]
    BY <1>7, <1>t DEF Stop
  <2>4. /\ client' \in [Peers -> [pc : {"out", "joining", "in"}, at : Instances \cup {NoInstance}]]
        /\ \A p \in Peers : client'[p] = client[p]
                            \/ (client[p].pc = "joining" /\ client'[p] = Out)
    BY <1>7, <1>t DEF Stop, Out
  <2>5. \A j \in Instances : local'[j] = {p \in Peers : client'[p] = [pc |-> "in", at |-> j]}
    BY <1>7, <1>t, <2>4 DEF Stop, Out
  <2>6. TypeOK'
    BY <1>7, <1>t, <2>1, <2>2, <2>3, <2>4, <2>5 DEF Stop, TypeOK, Replies
  <2>7. Idle \in RecoveryRecord /\ Idle.pc = "idle"
    BY EmptySeq DEF Idle, RecoveryRecord, Stages, Rests
  <2>8. RecoveryOK'
    BY <1>7, <2>7 DEF Stop, RecoveryOK, Typed
  <2>9. WireOK'
    BY <1>7, <1>t DEF Stop, WireOK, Typed
  <2> QED
    BY <2>6, <2>8, <2>9 DEF Typed
<1>8. ASSUME NEW i \in Instances, Start(i) PROVE Typed'
  <2>1. /\ running' \in [Instances -> BOOLEAN] /\ command' \in [Instances -> BOOLEAN]
        /\ subscriber' \in [Instances -> BOOLEAN]
    BY <1>8, <1>t DEF Start
  <2>2. TypeOK'
    BY <1>8, <1>t, <2>1 DEF Start, TypeOK, pending, history
  <2>3. recovery[i] \in RecoveryRecord
    BY <1>t
  <2> DEFINE r == [recovery[i] EXCEPT !.pc = "rooms"]
  <2>4. r \in RecoveryRecord /\ r.pc = "rooms"
    BY <2>3 DEF RecoveryRecord, Stages
  <2>5. recovery' = [recovery EXCEPT ![i] = r]
    BY <1>8 DEF Start
  <2>6. RecoveryOK'
    BY <1>t, <2>4, <2>5 DEF RecoveryOK, Typed
  <2>7. WireOK'
    BY <1>8, <1>t, <2>5 DEF Start, WireOK, Typed
  <2> QED
    BY <2>2, <2>6, <2>7 DEF Typed
<1>9. ASSUME RecoveryOK', WireOK', UNCHANGED <<redis, command, subscriber, open, running>>,
             requests' \in [Instances -> Seq(Commands)],
             answers' \in [Instances -> Seq(Replies)],
             local' \in [Instances -> SUBSET Peers], owed' \in [Instances -> SUBSET Peers],
             unheard' \in [Instances -> SUBSET Peers],
             emptied' \in [Instances -> BOOLEAN],
             unsaid' \in [Instances -> Seq(Peers)],
             client' \in [Peers -> [pc : {"out", "joining", "in"}, at : Instances \cup {NoInstance}]],
             leaving' \in [Instances -> [Peers -> {"no", "leave", "left", "publish"}]],
             \A i \in Instances : local'[i] = {p \in Peers : client'[p] = [pc |-> "in", at |-> i]}
      PROVE  Typed'
  BY <1>9, <1>t DEF TypeOK, Typed
<1>10. ASSUME NEW p \in Peers, NEW i \in Instances, Join(p, i) PROVE Typed'
  <2>1. << <<"join", p>> >> \in Seq(Commands)
    BY DEF Commands
  <2>2. requests' \in [Instances -> Seq(Commands)]
        /\ \A j \in Instances \ {i} : requests'[j] = requests[j]
    BY <1>10, <1>t, <2>1, Requested DEF Join, Request
  <2>3. client' \in [Peers -> [pc : {"out", "joining", "in"}, at : Instances \cup {NoInstance}]]
    BY <1>10, <1>t DEF Join
  <2>4. \A j \in Instances : local'[j] = {q \in Peers : client'[q] = [pc |-> "in", at |-> j]}
    BY <1>10, <1>t DEF Join, Out
  <2>5. RecoveryOK'
    BY <1>10 DEF Join, RecoveryOK, Typed
  <2>6. WireOK'
    BY <1>10, <1>t, <2>2 DEF Join, WireOK, Typed, IsReady, Ready
  <2> QED
    BY <1>9, <1>10, <1>t, <2>2, <2>3, <2>4, <2>5, <2>6 DEF Join, pending, history
<1>11. ASSUME NEW p \in Peers, NEW i \in Instances, Joined(p, i) PROVE Typed'
  <2>1. answers' \in [Instances -> Seq(Replies)] /\ command[i]
        /\ \A j \in Instances \ {i} : answers'[j] = answers[j]
    BY <1>11, <1>t, Taken DEF Joined, Take
  <2>2. /\ client' \in [Peers -> [pc : {"out", "joining", "in"}, at : Instances \cup {NoInstance}]]
        /\ local' \in [Instances -> SUBSET Peers]
    <3>1. CASE /\ local' = [local EXCEPT ![i] = @ \cup {p}]
               /\ client' = [client EXCEPT ![p].pc = "in"]
      BY <1>t, <3>1
    <3>2. CASE client' = [client EXCEPT ![p] = Out] /\ UNCHANGED local
      BY <1>t, <3>2 DEF Out
    <3> QED
      BY <1>11, <3>1, <3>2 DEF Joined
  <2>3. \A j \in Instances : local'[j] = {q \in Peers : client'[q] = [pc |-> "in", at |-> j]}
    <3>1. CASE /\ local' = [local EXCEPT ![i] = @ \cup {p}]
               /\ client' = [client EXCEPT ![p].pc = "in"]
      <4>1. client'[p] = [pc |-> "in", at |-> i]
        BY <1>11, <1>t, <3>1 DEF Joined
      <4> QED
        BY <1>11, <1>t, <3>1, <4>1 DEF Joined
    <3>2. CASE client' = [client EXCEPT ![p] = Out] /\ UNCHANGED local
      BY <1>11, <1>t, <3>2 DEF Joined, Out
    <3> QED
      BY <1>11, <3>1, <3>2 DEF Joined
  <2>5. RecoveryOK'
    BY <1>11 DEF Joined, RecoveryOK, Typed
  <2>6. WireOK'
    BY <1>11, <1>t, <2>1 DEF Joined, WireOK, Typed
  <2> QED
    BY <1>9, <1>11, <1>t, <2>1, <2>2, <2>3, <2>5, <2>6 DEF Joined, pending
<1>12. ASSUME NEW p \in Peers, NEW i \in Instances, Leave(p, i) PROVE Typed'
  <2>1. /\ client' = [client EXCEPT ![p] = Out] /\ client[p] = [pc |-> "in", at |-> i]
        /\ local' = [local EXCEPT ![i] = @ \ {p}]
        /\ owed' = [owed EXCEPT ![i] = @ \cup {p}]
        /\ unheard' = [unheard EXCEPT ![i] = @ \ {p}]
    BY <1>12 DEF Leave, RemoveLocalPeer
  <2>2. /\ client' \in [Peers -> [pc : {"out", "joining", "in"}, at : Instances \cup {NoInstance}]]
        /\ local' \in [Instances -> SUBSET Peers] /\ owed' \in [Instances -> SUBSET Peers]
        /\ unheard' \in [Instances -> SUBSET Peers]
    BY <1>t, <2>1 DEF Out
  <2>3. \A j \in Instances : local'[j] = {q \in Peers : client'[q] = [pc |-> "in", at |-> j]}
    BY <1>t, <2>1 DEF Out
  <2>4. << <<"leave", p>> >> \in Seq(Commands)
    BY DEF Commands
  <2>5. CASE IsReady(i)
    <3>1. /\ emptied' = [emptied EXCEPT ![i] = FALSE]
          /\ leaving' = [leaving EXCEPT ![i][p] = "leave"]
          /\ Request(i, << <<"leave", p>> >>)
      BY <1>12, <2>5 DEF Leave
    <3>2. requests' \in [Instances -> Seq(Commands)]
          /\ \A j \in Instances \ {i} : requests'[j] = requests[j]
      BY <1>t, <2>4, <3>1, Requested DEF Request
    <3>3. emptied' \in [Instances -> BOOLEAN]
          /\ leaving' \in [Instances -> [Peers -> {"no", "leave", "left", "publish"}]]
      BY <1>t, <3>1, Nested
    <3>4. RecoveryOK'
      BY <1>12 DEF Leave, RecoveryOK, Typed
    <3>5. WireOK'
      BY <1>12, <1>t, <2>5, <3>2 DEF Leave, WireOK, Typed, IsReady, Ready
    <3> QED
      BY <1>9, <1>12, <1>t, <2>2, <2>3, <3>2, <3>3, <3>4, <3>5 DEF Leave
  <2>6. CASE ~IsReady(i)
    <3>1. /\ emptied' = [emptied EXCEPT ![i] = @ \/ local'[i] = {}]
          /\ leaving' = [leaving EXCEPT ![i][p] = "left"]
          /\ UNCHANGED requests
      BY <1>12, <2>6 DEF Leave, NoteIfEmpty
    <3>2. leaving' \in [Instances -> [Peers -> {"no", "leave", "left", "publish"}]]
      BY <1>t, <3>1, Nested
    <3>3. emptied' \in [Instances -> BOOLEAN]
      BY <1>t, <3>1
    <3>4. RecoveryOK'
      BY <1>12 DEF Leave, RecoveryOK, Typed
    <3>5. WireOK'
      BY <1>12, <1>t, <3>1 DEF Leave, WireOK, Typed
    <3> QED
      BY <1>9, <1>12, <1>t, <2>2, <2>3, <3>1, <3>2, <3>3, <3>4, <3>5 DEF Leave
  <2> QED
    BY <2>5, <2>6
<1>13. ASSUME NEW p \in Peers, NEW i \in Instances, Left(p, i) \/ Published(p, i) PROVE Typed'
  <2>1. \E c : Answered(i, c) /\ Take(i)
    BY <1>13 DEF Left, Published
  <2>2. answers' \in [Instances -> Seq(Replies)] /\ command[i]
        /\ \A j \in Instances \ {i} : answers'[j] = answers[j]
    BY <1>t, <2>1, Taken DEF Take
  <2>3. leaving' \in [Instances -> [Peers -> {"no", "leave", "left", "publish"}]]
    <3>1. \E to \in {"no", "left"} : leaving' = [leaving EXCEPT ![i][p] = to]
      BY <1>13 DEF Left, Published
    <3> QED
      BY <1>t, <3>1, Nested
  <2>4. RecoveryOK'
    BY <1>13 DEF Left, Published, RecoveryOK, Typed
  <2>5. WireOK'
    BY <1>13, <1>t, <2>2 DEF Left, Published, WireOK, Typed
  <2>6. UNCHANGED <<redis, command, subscriber, requests, local, open, emptied, unsaid,
                    client, running, owed, unheard>>
    BY <1>13 DEF Left, Published, pending, history
  <2> QED
    BY <1>9, <1>t, <2>2, <2>3, <2>4, <2>5, <2>6
<1>14. ASSUME NEW p \in Peers, NEW i \in Instances, Publish(p, i) PROVE Typed'
  <2>1. << <<"publish", p>> >> \in Seq(Commands)
    BY DEF Commands
  <2>2. RecoveryOK'
    BY <1>14 DEF Publish, RecoveryOK, Typed
  <2>3. CASE IsReady(i)
    <3>1. /\ leaving' = [leaving EXCEPT ![i][p] = "publish"] /\ UNCHANGED unsaid
          /\ Request(i, << <<"publish", p>> >>)
      BY <1>14, <2>3 DEF Publish
    <3>2. requests' \in [Instances -> Seq(Commands)]
          /\ \A j \in Instances \ {i} : requests'[j] = requests[j]
      BY <1>t, <2>1, <3>1, Requested DEF Request
    <3>3. leaving' \in [Instances -> [Peers -> {"no", "leave", "left", "publish"}]]
      BY <1>t, <3>1, Nested
    <3>4. WireOK'
      BY <1>14, <1>t, <2>3, <3>2 DEF Publish, WireOK, Typed, IsReady, Ready
    <3> QED
      BY <1>9, <1>14, <1>t, <2>2, <3>1, <3>2, <3>3, <3>4 DEF Publish, history
  <2>4. CASE ~IsReady(i)
    <3>1. /\ leaving' = [leaving EXCEPT ![i][p] = "no"] /\ UNCHANGED requests
          /\ unsaid' = [unsaid EXCEPT ![i] = Append(@, p)]
      BY <1>14, <2>4 DEF Publish
    <3>2. leaving' \in [Instances -> [Peers -> {"no", "leave", "left", "publish"}]]
      BY <1>t, <3>1, Nested
    <3>3. unsaid' \in [Instances -> Seq(Peers)]
      BY <1>t, <3>1
    <3>4. WireOK'
      BY <1>14, <1>t, <3>1 DEF Publish, WireOK, Typed
    <3> QED
      BY <1>9, <1>14, <1>t, <2>2, <3>1, <3>2, <3>3, <3>4 DEF Publish, history
  <2> QED
    BY <2>3, <2>4
<1>15. CASE UNCHANGED vars
  <2>1. TypeOK'
    BY <1>15, <1>t DEF vars, TypeOK
  <2>2. RecoveryOK' /\ WireOK'
    BY <1>15 DEF vars, Typed, RecoveryOK, WireOK
  <2> QED
    BY <2>1, <2>2 DEF Typed
<1> QED
  BY <1>1, <1>2, <1>3, <1>4, <1>5, <1>6, <1>7, <1>8, <1>10, <1>11, <1>12, <1>13, <1>14, <1>15
     DEF Next, HandlerStep

\* ... which hold at first.
LEMMA TypedInit == Init => Typed
<1> SUFFICES ASSUME Init PROVE Typed
  OBVIOUS
<1>0. <<>> \in Seq(Commands) /\ <<>> \in Seq(Replies) /\ <<>> \in Seq(Peers)
      /\ <<>> \in Seq(Pipeline)
  BY EmptySeq
<1>1. EmptyRoom \in RedisRoom
  BY DEF EmptyRoom, RedisRoom, NoCapacity
<1>2. Out \in [pc : {"out", "joining", "in"}, at : Instances \cup {NoInstance}]
  BY DEF Out
<1>3. TypeOK
  BY <1>0, <1>1, <1>2 DEF Init, TypeOK, Replies, Out
<1>4. Idle \in RecoveryRecord /\ Idle.pc = "idle"
  BY <1>0 DEF Idle, RecoveryRecord, Stages, Rests
<1>5. RecoveryOK
  BY <1>4 DEF Init, RecoveryOK
<1>6. WireOK
  BY DEF Init, WireOK
<1> QED
  BY <1>3, <1>5, <1>6 DEF Typed

\* Every variable has its type, and the server and the coordinator of an instance
\* agree on who is in the room, through every outage and recovery.
THEOREM TypeCorrect == Spec => []TypeOK
<1>1. Typed => TypeOK
  BY DEF Typed
<1> QED
  BY <1>1, TypedInit, TypedStep, PTL DEF Spec

-----------------------------------------------------------------------------
(* Recovering *)

\* While it waits for Redis a recovery knows how to go on.
GoesOn ==
    \A i \in Instances :
        recovery[i].pc \in {"read", "capacity", "write"} =>
            recovery[i].next \in {"empties", "notices"}

\* Every step keeps an instance that refuses joins recovering.
LEMMA RecoveringStep ==
    Typed /\ Typed' /\ GoesOn /\ Recovering /\ [Next]_vars => GoesOn' /\ Recovering'
<1> SUFFICES ASSUME Typed, Typed', GoesOn, Recovering, [Next]_vars
             PROVE  GoesOn' /\ Recovering'
  OBVIOUS
<1>t. /\ command \in [Instances -> BOOLEAN] /\ subscriber \in [Instances -> BOOLEAN]
      /\ open \in [Instances -> BOOLEAN] /\ open' \in [Instances -> BOOLEAN]
      /\ recovery \in [Instances -> RecoveryRecord]
  BY DEF Typed, TypeOK, RecoveryOK
<1>0. ASSUME UNCHANGED <<command, subscriber, open, recovery>>
      PROVE  GoesOn' /\ Recovering'
  BY <1>0 DEF GoesOn, Recovering, Ready
<1>1. ASSUME Restart PROVE GoesOn' /\ Recovering'
  BY <1>1 DEF Restart, GoesOn, Recovering, Ready
<1>2. ASSUME NEW i \in Instances, Execute(i) PROVE GoesOn' /\ Recovering'
  BY <1>0, <1>2 DEF Execute
<1>3. ASSUME NEW i \in Instances, Break(i) PROVE GoesOn' /\ Recovering'
  BY <1>3, <1>t DEF Break, Lost, GoesOn, Recovering, Ready
<1>4. ASSUME NEW i \in Instances, GiveUp(i) PROVE GoesOn' /\ Recovering'
  <2>1. Recovered(i, 0) \/ RecoveryFails(i)
    BY <1>4 DEF GiveUp
  <2>2. recovery' = [recovery EXCEPT ![i] = Idle] /\ Idle.pc = "idle"
        /\ \A j \in Instances \ {i} : open'[j] = open[j]
    BY <1>t, <2>1 DEF Recovered, RecoveryFails, Idle
  <2>3. ~command[i] /\ UNCHANGED <<command, subscriber>>
    BY <1>4 DEF GiveUp
  <2> QED
    BY <1>t, <2>2, <2>3 DEF GoesOn, Recovering, Ready
<1>5. ASSUME NEW i \in Instances, NEW r \in RecoveryRecord,
             recovery' = [recovery EXCEPT ![i] = r], r.pc # "idle",
             r.pc \in {"read", "capacity", "write"} => r.next \in {"empties", "notices"},
             \A j \in Instances \ {i} :
                 command'[j] = command[j] /\ subscriber'[j] = subscriber[j] /\ open'[j] = open[j]
      PROVE  GoesOn' /\ Recovering'
  <2>1. r # Idle
    BY <1>5 DEF Idle
  <2> QED
    BY <1>t, <1>5, <2>1 DEF GoesOn, Recovering, Ready
<1>6. ASSUME NEW i \in Instances, recovery' = [recovery EXCEPT ![i].pc = "rooms"],
             \A j \in Instances \ {i} :
                 command'[j] = command[j] /\ subscriber'[j] = subscriber[j] /\ open'[j] = open[j]
      PROVE  GoesOn' /\ Recovering'
  <2> DEFINE r == [recovery[i] EXCEPT !.pc = "rooms"]
  <2>1. recovery[i] \in RecoveryRecord
    BY <1>t
  <2>2. r \in RecoveryRecord /\ r.pc = "rooms"
    BY <2>1 DEF RecoveryRecord, Stages
  <2>3. recovery' = [recovery EXCEPT ![i] = r]
    BY <1>6
  <2> HIDE DEF r
  <2> QED
    BY <1>5, <1>6, <2>2, <2>3
<1>7. ASSUME NEW i \in Instances, Reconnect(i) PROVE GoesOn' /\ Recovering'
  <2>1. CASE command'[i] /\ subscriber'[i] /\ recovery[i] = Idle
    BY <1>t, <1>6, <1>7, <2>1 DEF Reconnect
  <2>2. CASE ~(command'[i] /\ subscriber'[i] /\ recovery[i] = Idle)
    <3>1. UNCHANGED <<recovery, open>>
      BY <1>7, <2>2 DEF Reconnect
    <3>2. \A j \in Instances \ {i} : command'[j] = command[j] /\ subscriber'[j] = subscriber[j]
      BY <1>7, <1>t DEF Reconnect
    <3> QED
      BY <2>2, <3>1, <3>2 DEF GoesOn, Recovering, Ready
  <2> QED
    BY <2>1, <2>2
<1>8. ASSUME NEW i \in Instances, RecoveryStep(i) PROVE GoesOn' /\ Recovering'
  <2>t. recovery[i] \in RecoveryRecord
    BY <1>t
  <2>f. UNCHANGED <<command, subscriber>>
    BY <1>8 DEF RecoveryStep
  <2>1. ASSUME NEW r \in RecoveryRecord, recovery' = [recovery EXCEPT ![i] = r], r.pc # "idle",
               r.pc \in {"read", "capacity", "write"} => r.next \in {"empties", "notices"},
               UNCHANGED open
        PROVE  GoesOn' /\ Recovering'
    BY <1>5, <2>1, <2>f
  <2>2. ASSUME NEW said, Recovered(i, said) PROVE GoesOn' /\ Recovering'
    <3>1. recovery' = [recovery EXCEPT ![i] = Idle] /\ open' = [open EXCEPT ![i] = TRUE]
          /\ Idle.pc = "idle"
      BY <2>2 DEF Recovered, Idle
    <3> QED
      BY <1>t, <2>f, <3>1 DEF GoesOn, Recovering, Ready
  <2>3. ASSUME NEW peers \in SUBSET Peers, NEW next \in {"empties", "notices"},
               Sync(i, peers, next), UNCHANGED open
        PROVE  GoesOn' /\ Recovering'
    <3> DEFINE r == [recovery[i] EXCEPT !.pc = "read", !.peers = peers, !.next = next,
                                        !.emptied = (next = "notices")]
    <3>1. r \in RecoveryRecord /\ r.pc = "read" /\ r.next = next
      BY <2>t DEF RecoveryRecord, Stages, Rests
    <3>2. recovery' = [recovery EXCEPT ![i] = r]
      BY <2>3 DEF Sync
    <3> HIDE DEF r
    <3> QED
      BY <2>1, <2>3, <3>1, <3>2
  <2>4. ASSUME NEW pc \in {"empties", "notices"}, recovery' = [recovery EXCEPT ![i].pc = pc],
               UNCHANGED open
        PROVE  GoesOn' /\ Recovering'
    <3> DEFINE r == [recovery[i] EXCEPT !.pc = pc]
    <3>1. r \in RecoveryRecord /\ r.pc = pc
      BY <2>t DEF RecoveryRecord, Stages
    <3>2. recovery' = [recovery EXCEPT ![i] = r]
      BY <2>4
    <3> HIDE DEF r
    <3> QED
      BY <2>1, <2>4, <3>1, <3>2
  <2>5. CASE SyncRooms(i)
    <3>1. local[i] \in SUBSET Peers
      BY DEF Typed, TypeOK
    <3> QED
      BY <2>3, <2>4, <2>5, <3>1 DEF SyncRooms
  <2>6. CASE SyncEmpties(i)
    BY <2>3, <2>4, <2>6 DEF SyncEmpties
  <2>7. ASSUME NEW pc, NEW batch, UNCHANGED open,
               recovery' = [recovery EXCEPT ![i] = [@ EXCEPT !.pc = pc, !.batch = batch]],
               recovery[i].pc \in {"read", "capacity", "write"},
               pc \in {"capacity", "write", recovery[i].next}
        PROVE  GoesOn' /\ Recovering'
    <3> DEFINE r == [recovery[i] EXCEPT !.pc = pc, !.batch = batch]
    <3>1. recovery' = [recovery EXCEPT ![i] = r]
      BY <2>7
    <3>2. r.pc = pc /\ r.next = recovery[i].next
      BY <2>t DEF RecoveryRecord
    <3>3. r.next \in {"empties", "notices"}
      BY <2>7, <3>2 DEF GoesOn
    <3> HIDE DEF r
    <3>4. recovery'[i] = r
      BY <1>t, <3>1
    <3>5. r \in RecoveryRecord
      BY <3>4 DEF Typed, RecoveryOK
    <3> QED
      BY <2>1, <2>7, <3>1, <3>2, <3>3, <3>5
  <2>8. CASE ReadRoom(i)
    <3> DEFINE batch == SetToSeq({<<"hdel", p>> : p \in Stale(i, Answer(i))})
                        \o SetToSeq({<<"hset", p>> : p \in recovery[i].peers})
    <3>1. CASE recovery[i].peers # {} /\ MaxPeers # NoCapacity
      <4>1. recovery' = [recovery EXCEPT ![i] = [@ EXCEPT !.pc = "capacity", !.batch = batch]]
            /\ recovery[i].pc = "read" /\ UNCHANGED open
        BY <2>8, <3>1 DEF ReadRoom
      <4> HIDE DEF batch
      <4> QED
        BY <2>7, <4>1
    <3>2. CASE ~(recovery[i].peers # {} /\ MaxPeers # NoCapacity)
      <4> DEFINE pc == IF batch = <<>> THEN recovery[i].next ELSE "write"
      <4>1. recovery' = [recovery EXCEPT ![i] = [@ EXCEPT !.pc = pc, !.batch = batch]]
            /\ recovery[i].pc = "read" /\ UNCHANGED open
        BY <2>8, <3>2 DEF ReadRoom
      <4>2. pc \in {"capacity", "write", recovery[i].next}
        OBVIOUS
      <4> HIDE DEF batch, pc
      <4> QED
        BY <2>7, <4>1, <4>2
    <3> QED
      BY <3>1, <3>2
  <2>9. CASE ReadCapacity(i)
    <3>1. \E batch : recovery' = [recovery EXCEPT ![i] = [@ EXCEPT !.pc = "write", !.batch = batch]]
      BY <2>9 DEF ReadCapacity
    <3>2. recovery[i].pc = "capacity" /\ UNCHANGED open
      BY <2>9 DEF ReadCapacity
    <3> QED
      BY <2>7, <3>1, <3>2
  <2>10. CASE Written(i)
    <3>1. recovery' = [recovery EXCEPT ![i] = [@ EXCEPT !.pc = recovery[i].next, !.batch = <<>>]]
          /\ recovery[i].pc = "write" /\ UNCHANGED open
      BY <2>10 DEF Written
    <3> QED
      BY <2>7, <3>1
  <2>11. ASSUME NEW notices, NEW said, Say(i, notices, said) PROVE GoesOn' /\ Recovering'
    <3> DEFINE r == [recovery[i] EXCEPT !.pc = "say", !.batch = notices, !.said = said]
    <3>1. recovery' = [recovery EXCEPT ![i] = r] /\ UNCHANGED open
      BY <2>11 DEF Say
    <3>2. r.pc = "say"
      BY <2>t DEF RecoveryRecord
    <3> HIDE DEF r
    <3>3. recovery'[i] = r
      BY <1>t, <3>1
    <3>4. r \in RecoveryRecord
      BY <3>3 DEF Typed, RecoveryOK
    <3> QED
      BY <2>1, <3>1, <3>2, <3>4
  <2>12. CASE ReplayNotices(i)
    BY <2>2, <2>11, <2>12 DEF ReplayNotices
  <2>13. CASE Said(i)
    BY <2>2, <2>11, <2>13 DEF Said
  <2> QED
    BY <1>8, <2>5, <2>6, <2>8, <2>9, <2>10, <2>12, <2>13 DEF RecoveryStep
<1>9. ASSUME NEW i \in Instances, Stop(i) PROVE GoesOn' /\ Recovering'
  BY <1>9, <1>t DEF Stop, GoesOn, Recovering, Ready, Idle
<1>10. ASSUME NEW i \in Instances, Start(i) PROVE GoesOn' /\ Recovering'
  BY <1>6, <1>10, <1>t DEF Start
<1>11. ASSUME NEW p \in Peers, NEW i \in Instances, Join(p, i) \/ Leave(p, i) \/ HandlerStep(p, i)
       PROVE  GoesOn' /\ Recovering'
  BY <1>0, <1>11 DEF Join, Leave, HandlerStep, Joined, Left, Publish, Published
<1>12. CASE UNCHANGED vars
  BY <1>0, <1>12 DEF vars
<1> QED
  BY <1>1, <1>2, <1>3, <1>4, <1>7, <1>8, <1>9, <1>10, <1>11, <1>12 DEF Next

\* An outage closes the doors of an instance, and only the recovery that follows
\* it opens them, whatever other outages fall into it.
THEOREM RecoveringCorrect == Spec => []Recovering
<1>1. Init => Recovering
  BY DEF Init, Recovering
<1>2. Init => GoesOn
  BY DEF Init, GoesOn, Idle
<1> QED
  BY <1>1, <1>2, TypedInit, TypedStep, RecoveringStep, PTL DEF Spec

-----------------------------------------------------------------------------
(* What Redis has of an instance, while no change of the room meets an     *)
(* outage or a recovery                                                    *)

Stage(i) == recovery[i].pc
Has(i, p) == redis.peers[p] = i
Pending(i, c) == \E k \in DOMAIN requests[i] : requests[i][k] = c
InBatch(i, c) == \E k \in DOMAIN recovery[i].batch : recovery[i].batch[k] = c

\* The answer that p was admitted is on its way.
Admitted(i, p) ==
    \E k \in DOMAIN answers[i] :
        answers[i][k].to = <<"join", p>>
        /\ JoinVerdict(answers[i][k].room, p, MaxPeers) = "joined"

\* A recovery will write the entry of p, which Redis lost.
ToRestore(i, p) ==
    ~IsReady(i) /\ \/ Stage(i) \in {"idle", "rooms", "read", "capacity"}
                   \/ Stage(i) = "write" /\ Pending(i, <<"hset", p>>)

\* A recovery will remove the entry of p, which left.
ToPurge(i, p) ==
    ~IsReady(i) /\ (local[i] # {} \/ emptied[i])
    /\ \/ Stage(i) \in {"idle", "rooms", "read", "capacity"}
       \/ Stage(i) = "empties" /\ emptied[i]
       \/ Stage(i) = "write" /\ Pending(i, <<"hdel", p>>)

\* Doors, outages and what a recovery has read agree.
DoorsOK(i) ==
    /\ open[i] => recovery[i] = Idle
    /\ IsReady(i) => ~emptied[i]
    /\ ~command[i] => ~WriteInFlight(i)
    /\ emptied[i] => local[i] = {}
    /\ ~running[i] => ~open[i] /\ ~emptied[i] /\ local[i] = {}
    /\ Stage(i) \in {"read", "capacity", "write"} =>
           /\ recovery[i].peers = local[i]
           /\ local[i] # {} \/ emptied[i]
           /\ recovery[i].next # "empties" /\ emptied[i] => recovery[i].emptied
    /\ Stage(i) = "capacity" => local[i] # {}
    /\ Stage(i) \in {"notices", "say"} /\ emptied[i] => recovery[i].emptied

\* No command of this name for a peer twice.
Once(name, u) ==
    \A p \in Peers : \A k, l \in DOMAIN u : u[k] = <<name, p>> /\ u[l] = <<name, p>> => k = l

\* What an instance has told Redis and was not answered, u, with its clients c, its own
\* peers and its recovery r: a peer leaves before it joins again, and a recovery that
\* has read the room is alone on the wire.
OrderOK(i, u, c, mine, r) ==
    /\ Once("join", u) /\ Once("leave", u) /\ Once("hdel", u)
    /\ \A p \in Peers : \A k, l \in DOMAIN u :
           u[k] = <<"leave", p>> /\ u[l] = <<"join", p>> => k < l
    /\ \A p \in Peers : \A k \in DOMAIN u :
           /\ u[k] = <<"join", p>> => c[p] = [pc |-> "joining", at |-> i]
           /\ u[k] = <<"leave", p>> => p \notin mine
           /\ u[k] \in {<<"hset", p>>, <<"hdel", p>>} => r.pc = "write"
    /\ \A k \in DOMAIN u : u[k] = <<"hgetall">> => r.pc = "read" /\ k = Len(u)
    /\ r.pc = "capacity" => u = << <<"get">> >> /\ Once("hdel", r.batch)
    /\ r.pc = "write" =>
           /\ u = r.batch
           /\ \E p \in Peers : \E k \in DOMAIN u : u[k] \in {<<"hset", p>>, <<"hdel", p>>}

\* What Redis has for the instance of p, and what it was told to change.
EntryOK(i, p) ==
    /\ p \in local[i] => Has(i, p) \/ (redis.peers[p] = NoInstance /\ ToRestore(i, p))
    /\ Pending(i, <<"leave", p>>) => Has(i, p)
    /\ Pending(i, <<"hset", p>>) => p \in local[i]
    /\ Pending(i, <<"hdel", p>>) => Has(i, p) /\ p \notin local[i]
    /\ Stage(i) = "capacity" =>
           /\ InBatch(i, <<"hdel", p>>) <=> (Has(i, p) /\ p \notin local[i])
           /\ InBatch(i, <<"hset", p>>) <=> (p \in local[i])
    /\ Admitted(i, p) => Has(i, p)
    /\ \A k \in DOMAIN answers[i] : answers[i][k].to = <<"hgetall">> /\ p \notin local[i] =>
           (answers[i][k].room.peers[p] = i <=> Has(i, p))
    /\ Has(i, p) /\ p \notin local[i] =>
           running[i] /\ (Pending(i, <<"leave", p>>) \/ Admitted(i, p) \/ ToPurge(i, p))

WireOrdered(i) == OrderOK(i, Unanswered(i), client, local[i], recovery[i])

RoomOK(i) == DoorsOK(i) /\ WireOrdered(i) /\ \A p \in Peers : EntryOK(i, p)
RoomsOK == ~raced => \A i \in Instances : RoomOK(i)

-----------------------------------------------------------------------------
\* The wire, as commands are added, run, answered and sent again.

\* The places of the answers and requests of an instance on its wire.
LEMMA OnTheWire ==
    ASSUME Typed, NEW i \in Instances
    PROVE  /\ answers[i] \in Seq(Replies) /\ requests[i] \in Seq(Commands)
           /\ Len(answers[i]) \in Nat /\ DOMAIN answers[i] = 1..Len(answers[i])
           /\ Len(requests[i]) \in Nat /\ DOMAIN requests[i] = 1..Len(requests[i])
           /\ Unanswered(i) = OnWire(answers[i], requests[i])
           /\ Unanswered(i) \in Seq(Commands)
           /\ Len(Unanswered(i)) = Len(answers[i]) + Len(requests[i])
           /\ DOMAIN Unanswered(i) = 1..Len(answers[i]) + Len(requests[i])
           /\ \A k \in DOMAIN answers[i] : Unanswered(i)[k] = answers[i][k].to
           /\ \A k \in DOMAIN requests[i] : Unanswered(i)[Len(answers[i]) + k] = requests[i][k]
<1> DEFINE a == answers[i]
           q == requests[i]
           u == Unanswered(i)
<1>1. a \in Seq(Replies) /\ q \in Seq(Commands)
  BY DEF Typed, TypeOK, Replies
<1>2. u = OnWire(a, q)
  BY DEF Unanswered, OnWire
<1> HIDE DEF a, q, u
<1>3. Len(a) \in Nat /\ DOMAIN a = 1..Len(a) /\ Len(q) \in Nat /\ DOMAIN q = 1..Len(q)
  BY <1>1, LenProperties
<1>4. /\ OnWire(a, q) \in Seq(Commands)
      /\ Len(OnWire(a, q)) = Len(a) + Len(q)
      /\ DOMAIN OnWire(a, q) = 1..(Len(a) + Len(q))
      /\ \A k \in 1..(Len(a) + Len(q)) :
             OnWire(a, q)[k] = IF k <= Len(a) THEN a[k].to ELSE q[k - Len(a)]
  BY <1>1, WireElements
<1>5. ASSUME NEW k \in DOMAIN a PROVE u[k] = a[k].to
  <2>1. k \in 1..(Len(a) + Len(q)) /\ k <= Len(a)
    BY <1>3
  <2> QED
    BY <1>2, <1>4, <2>1
<1>6. ASSUME NEW k \in DOMAIN q PROVE u[Len(a) + k] = q[k]
  <2>1. /\ Len(a) + k \in 1..(Len(a) + Len(q))
        /\ ~(Len(a) + k <= Len(a)) /\ (Len(a) + k) - Len(a) = k
    BY <1>3
  <2> QED
    BY <1>2, <1>4, <2>1
<1>7. u \in Seq(Commands) /\ Len(u) = Len(a) + Len(q) /\ DOMAIN u = 1..Len(a) + Len(q)
  BY <1>2, <1>4
<1> QED
  BY <1>1, <1>2, <1>3, <1>5, <1>6, <1>7 DEF a, q, u

\* Running a command leaves it on the wire.
LEMMA WireExecuted ==
    ASSUME NEW a \in Seq(Replies), NEW q \in Seq(Commands), q # <<>>, NEW room \in RedisRoom
    PROVE  OnWire(Append(a, [to |-> Head(q), room |-> room]), Tail(q)) = OnWire(a, q)
<1> DEFINE reply == [to |-> Head(q), room |-> room]
           b == Append(a, reply)
           r == Tail(q)
<1>1. /\ Len(a) \in Nat /\ Len(q) \in Nat \ {0} /\ Head(q) \in Commands /\ Head(q) = q[1]
      /\ r \in Seq(Commands) /\ Len(r) = Len(q) - 1 /\ \A k \in 1..Len(q) - 1 : r[k] = q[k + 1]
  BY LenProperties, HeadTailProperties
<1>2. reply \in Replies /\ reply.to = q[1]
  BY <1>1 DEF Replies
<1> HIDE DEF reply
<1>3. /\ b \in Seq(Replies) /\ Len(b) = Len(a) + 1
      /\ \A k \in 1..Len(a) : b[k] = a[k]
      /\ b[Len(a) + 1] = reply
  BY <1>2, AppendProperties
<1> HIDE DEF b, r
<1>4. /\ OnWire(a, q) \in Seq(Commands) /\ Len(OnWire(a, q)) = Len(a) + Len(q)
      /\ \A k \in 1..(Len(a) + Len(q)) :
             OnWire(a, q)[k] = IF k <= Len(a) THEN a[k].to ELSE q[k - Len(a)]
  BY WireElements
<1>5. /\ OnWire(b, r) \in Seq(Commands) /\ Len(OnWire(b, r)) = Len(b) + Len(r)
      /\ \A k \in 1..(Len(b) + Len(r)) :
             OnWire(b, r)[k] = IF k <= Len(b) THEN b[k].to ELSE r[k - Len(b)]
  BY <1>1, <1>3, WireElements
<1>6. Len(b) + Len(r) = Len(a) + Len(q)
  BY <1>1, <1>3
<1>7. ASSUME NEW k \in 1..(Len(a) + Len(q)) PROVE OnWire(b, r)[k] = OnWire(a, q)[k]
  <2>1. CASE k <= Len(a)
    <3>1. k <= Len(b) /\ k \in 1..Len(a)
      BY <1>1, <1>3, <2>1
    <3> QED
      BY <1>3, <1>4, <1>5, <1>6, <2>1, <3>1
  <2>2. CASE k = Len(a) + 1
    <3>1. k <= Len(b) /\ ~(k <= Len(a)) /\ k - Len(a) = 1
      BY <1>1, <1>3, <2>2
    <3> QED
      BY <1>2, <1>3, <1>4, <1>5, <1>6, <2>2, <3>1
  <2>3. CASE k > Len(a) + 1
    <3>1. /\ ~(k <= Len(b)) /\ ~(k <= Len(a))
          /\ k - Len(b) \in 1..Len(q) - 1 /\ (k - Len(b)) + 1 = k - Len(a)
      BY <1>1, <1>3, <2>3
    <3>2. r[k - Len(b)] = q[k - Len(a)]
      BY <1>1, <3>1
    <3> QED
      BY <1>4, <1>5, <1>6, <3>1, <3>2
  <2> QED
    BY <1>1, <2>1, <2>2, <2>3
<1> QED
  BY <1>4, <1>5, <1>6, <1>7, SeqEqual DEF b, r, reply

\* An answer that is taken was to the oldest command.
LEMMA WireTaken ==
    ASSUME NEW a \in Seq(Replies), NEW q \in Seq(Commands), a # <<>>
    PROVE  /\ OnWire(Tail(a), q) = Tail(OnWire(a, q))
           /\ OnWire(a, q) # <<>> /\ OnWire(a, q)[1] = Head(a).to
<1> DEFINE b == Tail(a)
           u == OnWire(a, q)
           v == OnWire(b, q)
<1>1. /\ Len(a) \in Nat \ {0} /\ Len(q) \in Nat /\ Head(a) = a[1]
      /\ b \in Seq(Replies) /\ Len(b) = Len(a) - 1 /\ \A k \in 1..Len(a) - 1 : b[k] = a[k + 1]
  BY LenProperties, HeadTailProperties
<1> HIDE DEF b
<1>2. /\ u \in Seq(Commands) /\ Len(u) = Len(a) + Len(q)
      /\ \A k \in 1..(Len(a) + Len(q)) : u[k] = IF k <= Len(a) THEN a[k].to ELSE q[k - Len(a)]
  BY WireElements
<1>3. /\ v \in Seq(Commands) /\ Len(v) = Len(b) + Len(q)
      /\ \A k \in 1..(Len(b) + Len(q)) : v[k] = IF k <= Len(b) THEN b[k].to ELSE q[k - Len(b)]
  BY <1>1, WireElements
<1> HIDE DEF u, v
<1>4. u # <<>> /\ u[1] = a[1].to
  <2>1. 1 \in 1..(Len(a) + Len(q)) /\ 1 <= Len(a)
    BY <1>1
  <2>2. u[1] = a[1].to
    BY <1>2, <2>1
  <2> QED
    BY <1>1, <1>2, <2>2, EmptySeq
<1>5. /\ Tail(u) \in Seq(Commands) /\ Len(Tail(u)) = Len(u) - 1
      /\ \A k \in 1..Len(u) - 1 : Tail(u)[k] = u[k + 1]
  BY <1>2, <1>4, HeadTailProperties, LenProperties
<1>6. ASSUME NEW k \in 1..Len(u) - 1 PROVE v[k] = Tail(u)[k]
  <2>1. k \in 1..(Len(b) + Len(q)) /\ k + 1 \in 1..(Len(a) + Len(q))
    BY <1>1, <1>2
  <2>2. CASE k <= Len(b)
    <3>1. k + 1 <= Len(a) /\ k \in 1..Len(a) - 1
      BY <1>1, <2>2
    <3> QED
      BY <1>1, <1>2, <1>3, <1>5, <2>1, <2>2, <3>1
  <2>3. CASE ~(k <= Len(b))
    <3>1. ~(k + 1 <= Len(a)) /\ (k + 1) - Len(a) = k - Len(b)
      BY <1>1, <2>3
    <3> QED
      BY <1>2, <1>3, <1>5, <2>1, <2>3, <3>1
  <2> QED
    BY <2>2, <2>3
<1>7. Len(v) = Len(u) - 1
  BY <1>1, <1>2, <1>3
<1>8. v = Tail(u)
  BY <1>3, <1>5, <1>6, <1>7, SeqEqual
<1> QED
  BY <1>1, <1>4, <1>8 DEF u, v, b

\* A command more.
LEMMA WireRequested ==
    ASSUME NEW a \in Seq(Replies), NEW q \in Seq(Commands), NEW c \in Commands
    PROVE  OnWire(a, q \o <<c>>) = Append(OnWire(a, q), c)
<1>1. q \o <<c>> = Append(q, c)
  BY AppendIsConcat
<1>2. /\ Append(q, c) \in Seq(Commands) /\ Len(Append(q, c)) = Len(q) + 1
      /\ \A k \in 1..Len(q) : Append(q, c)[k] = q[k]
      /\ Append(q, c)[Len(q) + 1] = c
      /\ Len(a) \in Nat /\ Len(q) \in Nat
  BY AppendProperties, LenProperties
<1> DEFINE u == OnWire(a, q)
           v == OnWire(a, Append(q, c))
<1>3. /\ u \in Seq(Commands) /\ Len(u) = Len(a) + Len(q)
      /\ \A k \in 1..(Len(a) + Len(q)) : u[k] = IF k <= Len(a) THEN a[k].to ELSE q[k - Len(a)]
  BY WireElements
<1>4. /\ v \in Seq(Commands) /\ Len(v) = Len(a) + (Len(q) + 1)
      /\ \A k \in 1..(Len(a) + (Len(q) + 1)) :
             v[k] = IF k <= Len(a) THEN a[k].to ELSE Append(q, c)[k - Len(a)]
  <2> DEFINE r == Append(q, c)
  <2> HIDE DEF r
  <2>1. r \in Seq(Commands) /\ Len(r) = Len(q) + 1
    BY <1>2 DEF r
  <2>2. /\ OnWire(a, r) \in Seq(Commands) /\ Len(OnWire(a, r)) = Len(a) + Len(r)
        /\ \A k \in 1..(Len(a) + Len(r)) :
               OnWire(a, r)[k] = IF k <= Len(a) THEN a[k].to ELSE r[k - Len(a)]
    BY <2>1, WireElements
  <2> QED
    BY <2>1, <2>2 DEF r
<1> HIDE DEF u, v
<1>5. /\ Append(u, c) \in Seq(Commands) /\ Len(Append(u, c)) = Len(u) + 1
      /\ \A k \in 1..Len(u) : Append(u, c)[k] = u[k]
      /\ Append(u, c)[Len(u) + 1] = c
  <2>1. u \in Seq(Commands)
    BY <1>3
  <2> QED
    BY <2>1, AppendProperties
<1>6. ASSUME NEW k \in 1..Len(u) + 1 PROVE v[k] = Append(u, c)[k]
  <2>1. k \in 1..(Len(a) + (Len(q) + 1))
    BY <1>2, <1>3
  <2>2. CASE k <= Len(a)
    <3>1. k \in 1..Len(u) /\ k \in 1..(Len(a) + Len(q))
      BY <1>2, <1>3, <2>2
    <3> QED
      BY <1>3, <1>4, <1>5, <2>1, <2>2, <3>1
  <2>3. CASE k = Len(u) + 1
    <3>1. ~(k <= Len(a)) /\ k - Len(a) = Len(q) + 1
      BY <1>2, <1>3, <2>3
    <3> QED
      BY <1>2, <1>4, <1>5, <2>1, <2>3, <3>1
  <2>4. CASE ~(k <= Len(a)) /\ k # Len(u) + 1
    <3>0. Len(u) = Len(a) + Len(q)
      BY <1>3
    <3>1. /\ k \in 1..Len(u) /\ k \in 1..(Len(a) + Len(q)) /\ k - Len(a) \in 1..Len(q)
      BY <1>2, <2>4, <3>0
    <3> QED
      BY <1>2, <1>3, <1>4, <1>5, <2>1, <2>4, <3>1
  <2> QED
    BY <2>2, <2>3, <2>4
<1>7. Len(v) = Len(u) + 1
  BY <1>2, <1>3, <1>4
<1> QED
  BY <1>1, <1>4, <1>5, <1>6, <1>7, SeqEqual DEF u, v

-----------------------------------------------------------------------------
\* The order on the wire.

\* It holds as well after a change of the clients and the recovery that what is on the
\* wire is not about.
LEMMA OrderMoved ==
    ASSUME NEW i, NEW u \in Seq(Commands), NEW c, NEW m, NEW r, OrderOK(i, u, c, m, r),
           NEW d, NEW n, NEW s,
           \A p \in Peers : \A k \in DOMAIN u :
               /\ u[k] = <<"join", p>> => d[p] = [pc |-> "joining", at |-> i]
               /\ u[k] = <<"leave", p>> => p \notin n,
           r.pc # "write", s.pc \notin {"capacity", "write"}, r.pc = "read" => s.pc = "read"
    PROVE  OrderOK(i, u, d, n, s)
BY DEF OrderOK

\* It holds of what is left when an answer has been taken.
LEMMA OrderTaken ==
    ASSUME NEW i, NEW u \in Seq(Commands), u # <<>>, NEW c, NEW m, NEW r,
           OrderOK(i, u, c, m, r), r.pc \notin {"capacity", "write"}
    PROVE  OrderOK(i, Tail(u), c, m, r)
<1> DEFINE v == Tail(u)
<1>1. /\ Len(u) \in Nat \ {0} /\ DOMAIN u = 1..Len(u)
      /\ v \in Seq(Commands) /\ Len(v) = Len(u) - 1 /\ DOMAIN v = 1..Len(u) - 1
      /\ \A k \in 1..Len(u) - 1 : v[k] = u[k + 1]
  BY LenProperties, HeadTailProperties, EmptySeq
<1> HIDE DEF v
<1>2. \A k \in DOMAIN v : k \in Nat /\ k + 1 \in DOMAIN u /\ v[k] = u[k + 1]
  BY <1>1
<1>3. ASSUME NEW name, Once(name, u) PROVE Once(name, v)
  <2> SUFFICES ASSUME NEW p \in Peers, NEW k \in DOMAIN v, NEW l \in DOMAIN v,
                      v[k] = <<name, p>>, v[l] = <<name, p>>
               PROVE  k = l
    BY DEF Once
  <2>1. k + 1 = l + 1
    BY <1>2, <1>3 DEF Once
  <2> QED
    BY <1>2, <2>1
<1>4. Once("join", v) /\ Once("leave", v) /\ Once("hdel", v)
  BY <1>3 DEF OrderOK
<1>5. ASSUME NEW p \in Peers, NEW k \in DOMAIN v, NEW l \in DOMAIN v,
             v[k] = <<"leave", p>>, v[l] = <<"join", p>>
      PROVE  k < l
  <2>1. k + 1 < l + 1
    BY <1>2, <1>5 DEF OrderOK
  <2> QED
    BY <1>2, <2>1
<1>6. ASSUME NEW p \in Peers, NEW k \in DOMAIN v
      PROVE  /\ v[k] = <<"join", p>> => c[p] = [pc |-> "joining", at |-> i]
             /\ v[k] = <<"leave", p>> => p \notin m
             /\ v[k] \in {<<"hset", p>>, <<"hdel", p>>} => r.pc = "write"
  BY <1>2 DEF OrderOK
<1>7. ASSUME NEW k \in DOMAIN v, v[k] = <<"hgetall">> PROVE r.pc = "read" /\ k = Len(v)
  <2>1. r.pc = "read" /\ k + 1 = Len(u)
    BY <1>2, <1>7 DEF OrderOK
  <2> QED
    BY <1>1, <1>2, <2>1
<1> QED
  BY <1>4, <1>5, <1>6, <1>7 DEF OrderOK, v

\* It holds with a command more that is not against it.
LEMMA OrderRequested ==
    ASSUME NEW i, NEW u \in Seq(Commands), NEW c, NEW m, NEW r, NEW x \in Commands,
           OrderOK(i, u, c, m, r), r.pc \notin {"capacity", "write"},
           \A k \in DOMAIN u : u[k] # <<"hgetall">>,
           \A p \in Peers :
               /\ x = <<"join", p>> => /\ c[p] = [pc |-> "joining", at |-> i]
                                       /\ \A k \in DOMAIN u : u[k] # <<"join", p>>
               /\ x = <<"leave", p>> =>
                      /\ p \notin m
                      /\ \A k \in DOMAIN u : u[k] \notin {<<"leave", p>>, <<"join", p>>}
               /\ x \notin {<<"hset", p>>, <<"hdel", p>>},
           x = <<"hgetall">> => r.pc = "read"
    PROVE  OrderOK(i, Append(u, x), c, m, r)
<1> DEFINE v == Append(u, x)
<1>1. /\ Len(u) \in Nat /\ DOMAIN u = 1..Len(u)
      /\ v \in Seq(Commands) /\ Len(v) = Len(u) + 1 /\ DOMAIN v = 1..Len(u) + 1
      /\ \A k \in 1..Len(u) : v[k] = u[k]
      /\ v[Len(u) + 1] = x
  BY LenProperties, AppendProperties
<1> HIDE DEF v
<1>2. \A k \in DOMAIN v : k \in Nat /\ ((k \in DOMAIN u /\ v[k] = u[k] /\ k < Len(u) + 1)
                                        \/ (k = Len(u) + 1 /\ v[k] = x))
  BY <1>1
<1>3. Once("join", v)
  BY <1>2 DEF OrderOK, Once
<1>4. Once("leave", v)
  BY <1>2 DEF OrderOK, Once
<1>5. Once("hdel", v)
  BY <1>2 DEF OrderOK, Once
<1>6. ASSUME NEW p \in Peers, NEW k \in DOMAIN v, NEW l \in DOMAIN v,
             v[k] = <<"leave", p>>, v[l] = <<"join", p>>
      PROVE  k < l
  <2>1. CASE l = Len(u) + 1 /\ v[l] = x
    <3>1. x # <<"leave", p>>
      BY <1>6, <2>1
    <3>2. k < Len(u) + 1
      BY <1>2, <1>6, <3>1
    <3> QED
      BY <2>1, <3>2
  <2>2. CASE l \in DOMAIN u /\ v[l] = u[l]
    BY <1>2, <1>6, <2>2 DEF OrderOK
  <2> QED
    BY <1>2, <2>1, <2>2
<1>7. ASSUME NEW p \in Peers, NEW k \in DOMAIN v
      PROVE  /\ v[k] = <<"join", p>> => c[p] = [pc |-> "joining", at |-> i]
             /\ v[k] = <<"leave", p>> => p \notin m
             /\ v[k] \in {<<"hset", p>>, <<"hdel", p>>} => r.pc = "write"
  BY <1>2 DEF OrderOK
<1>8. ASSUME NEW k \in DOMAIN v, v[k] = <<"hgetall">> PROVE r.pc = "read" /\ k = Len(v)
  BY <1>1, <1>2, <1>8
<1> QED
  BY <1>3, <1>4, <1>5, <1>6, <1>7, <1>8 DEF OrderOK, v

\* A wire without commands is in order.
LEMMA OrderEmpty ==
    ASSUME NEW i, NEW c, NEW m, NEW r, r.pc \notin {"capacity", "write"}
    PROVE  OrderOK(i, <<>>, c, m, r)
<1>1. DOMAIN <<>> = {}
  BY EmptySeq
<1> QED
  BY <1>1 DEF OrderOK, Once

-----------------------------------------------------------------------------
\* The room in Redis.

\* What a command makes of the entry of a peer.
LEMMA RanEntries ==
    ASSUME redis \in RedisRoom, NEW i \in Instances, NEW c \in Commands, NEW p \in Peers
    PROVE  Ran(i, c).peers[p] =
               IF \/ c = <<"join", p>> /\ JoinVerdict(redis, p, MaxPeers) = "joined"
                  \/ c = <<"hset", p>>
               THEN i
               ELSE IF c \in {<<"leave", p>>, <<"hdel", p>>} THEN NoInstance
               ELSE redis.peers[p]
<1>1. redis.peers \in [Peers -> Instances \cup {NoInstance}]
  BY DEF RedisRoom
<1>2. ASSUME NEW q \in Peers, c = <<"join", q>>
      PROVE  Ran(i, c).peers[p] = IF q = p /\ JoinVerdict(redis, q, MaxPeers) = "joined"
                                  THEN i ELSE redis.peers[p]
  <2>1. Ran(i, c) = JoinRoom(redis, q, i, MaxPeers)
    BY <1>2 DEF Ran
  <2>2. JoinVerdict(redis, q, MaxPeers) \in {"PEER_EXISTS", "ROOM_FULL", "joined"}
    BY DEF JoinVerdict
  <2>3. CASE JoinVerdict(redis, q, MaxPeers) = "joined"
    BY <1>1, <2>1, <2>3 DEF JoinRoom
  <2>4. CASE JoinVerdict(redis, q, MaxPeers) # "joined"
    <3>1. JoinRoom(redis, q, i, MaxPeers).peers = redis.peers
      BY <2>2, <2>4 DEF JoinRoom, RedisRoom
    <3> QED
      BY <2>1, <2>4, <3>1
  <2> QED
    BY <2>3, <2>4
<1>3. ASSUME NEW q \in Peers, c = <<"leave", q>>
      PROVE  Ran(i, c).peers[p] = IF q = p THEN NoInstance ELSE redis.peers[p]
  BY <1>1, <1>3 DEF Ran, LeaveRoom
<1>4. ASSUME NEW q \in Peers, c = <<"hset", q>>
      PROVE  Ran(i, c).peers[p] = IF q = p THEN i ELSE redis.peers[p]
  BY <1>1, <1>4 DEF Ran, RedisRoom
<1>5. ASSUME NEW q \in Peers, c = <<"hdel", q>>
      PROVE  Ran(i, c).peers[p] = IF q = p THEN NoInstance ELSE redis.peers[p]
  BY <1>1, <1>5 DEF Ran, RedisRoom
<1>6. ASSUME c[1] \notin {"join", "leave", "hset", "hdel"}
      PROVE  Ran(i, c).peers[p] = redis.peers[p]
  BY <1>1, <1>6 DEF Ran, RedisRoom
<1>7. \/ \E q \in Peers : c = <<"join", q>> \/ c = <<"leave", q>> \/ c = <<"hset", q>> \/ c = <<"hdel", q>>
      \/ c[1] \notin {"join", "leave", "hset", "hdel"}
  BY DEF Commands
<1>8. CASE c[1] \notin {"join", "leave", "hset", "hdel"}
  BY <1>6, <1>8
<1>9. ASSUME NEW q \in Peers, c = <<"join", q>> PROVE c = <<"join", p>> <=> q = p
  BY <1>9
<1>10. ASSUME NEW q \in Peers, c \in {<<"leave", q>>, <<"hset", q>>, <<"hdel", q>>}
       PROVE  c \in {<<"leave", p>>, <<"hset", p>>, <<"hdel", p>>} <=> q = p
  BY <1>10
<1> QED
  BY <1>2, <1>3, <1>4, <1>5, <1>7, <1>8, <1>9, <1>10

\* Whoever is admitted was not there.
LEMMA AdmittedWasAbsent ==
    ASSUME NEW room, NEW p, JoinVerdict(room, p, MaxPeers) = "joined"
    PROVE  room.peers[p] = NoInstance
BY DEF JoinVerdict

\* A command is a write if it is one of these for a peer.
LEMMA Writes ==
    ASSUME NEW c \in Commands
    PROVE  IsWrite(c) <=> \E p \in Peers : c \in {<<"join", p>>, <<"leave", p>>,
                                                  <<"hset", p>>, <<"hdel", p>>}
BY DEF IsWrite, Commands

-----------------------------------------------------------------------------
\* What is on its way for an instance.

\* What the order of the wire says of its requests and answers.
LEMMA InFlight ==
    ASSUME Typed, NEW i \in Instances, WireOrdered(i), NEW p \in Peers
    PROVE  /\ \A c : Pending(i, c) => \E k \in DOMAIN Unanswered(i) : Unanswered(i)[k] = c
           /\ Stage(i) # "write" => ~Pending(i, <<"hset", p>>) /\ ~Pending(i, <<"hdel", p>>)
           /\ Stage(i) # "read" => \A k \in DOMAIN answers[i] : answers[i][k].to # <<"hgetall">>
           /\ Pending(i, <<"leave", p>>) => p \notin local[i]
           /\ ~WriteInFlight(i) =>
                  /\ Stage(i) # "write" /\ ~Admitted(i, p)
                  /\ ~Pending(i, <<"leave", p>>)
                  /\ ~Pending(i, <<"hset", p>>) /\ ~Pending(i, <<"hdel", p>>)
<1> DEFINE a == answers[i]
           q == requests[i]
           u == Unanswered(i)
<1>1. /\ DOMAIN a = 1..Len(a) /\ DOMAIN q = 1..Len(q) /\ Len(a) \in Nat /\ Len(q) \in Nat
      /\ u \in Seq(Commands) /\ DOMAIN u = 1..Len(a) + Len(q)
      /\ \A k \in DOMAIN a : u[k] = a[k].to
      /\ \A k \in DOMAIN q : u[Len(a) + k] = q[k]
  BY OnTheWire
<1>2. OrderOK(i, u, client, local[i], recovery[i])
  BY DEF WireOrdered
<1>3. WriteInFlight(i) <=> \E k \in DOMAIN u : IsWrite(u[k])
  BY DEF WriteInFlight
<1> DEFINE held == Admitted(i, p)
<1>4. held => \E k \in DOMAIN a : a[k].to = <<"join", p>>
  BY DEF Admitted
<1>5. \A c : Pending(i, c) <=> \E k \in DOMAIN q : q[k] = c
  BY DEF Pending
<1> HIDE DEF a, q, u, held
<1>6. ASSUME NEW c, Pending(i, c) PROVE \E k \in DOMAIN u : u[k] = c
  <2>1. PICK k \in DOMAIN q : q[k] = c
    BY <1>5, <1>6
  <2>2. Len(a) + k \in DOMAIN u /\ u[Len(a) + k] = c
    BY <1>1, <2>1
  <2> QED
    BY <2>2
<1>7. \A k \in DOMAIN a : k \in DOMAIN u /\ u[k] = a[k].to
  BY <1>1
<1>8. \A k \in DOMAIN u : u[k] \in {<<"hset", p>>, <<"hdel", p>>} => Stage(i) = "write"
  BY <1>2 DEF OrderOK, Stage
<1>9. \A k \in DOMAIN u : u[k] = <<"hgetall">> => Stage(i) = "read"
  BY <1>2 DEF OrderOK, Stage
<1>10. \A k \in DOMAIN u : u[k] = <<"leave", p>> => p \notin local[i]
  BY <1>2 DEF OrderOK
<1>11. IsWrite(<<"join", p>>) /\ IsWrite(<<"leave", p>>)
  BY DEF IsWrite
<1>12. \A r \in Peers : IsWrite(<<"hset", r>>) /\ IsWrite(<<"hdel", r>>)
  BY DEF IsWrite
<1>13. ~WriteInFlight(i) => Stage(i) # "write"
  BY <1>2, <1>3, <1>12 DEF OrderOK, Stage
<1>14. ~WriteInFlight(i) => ~held
  BY <1>3, <1>4, <1>7, <1>11
<1>15. ~WriteInFlight(i) => ~Pending(i, <<"leave", p>>)
  BY <1>3, <1>6, <1>11
<1>16. Stage(i) # "write" => ~Pending(i, <<"hset", p>>) /\ ~Pending(i, <<"hdel", p>>)
  BY <1>6, <1>8
<1>17. Stage(i) # "read" => \A k \in DOMAIN a : a[k].to # <<"hgetall">>
  BY <1>7, <1>9
<1>18. Pending(i, <<"leave", p>>) => p \notin local[i]
  BY <1>6, <1>10
<1> QED
  BY <1>6, <1>13, <1>14, <1>15, <1>16, <1>17, <1>18 DEF a, u, held

\* A recovery that puts its pipeline together or writes it is alone on the wire.
LEMMA AloneOnWire ==
    ASSUME Typed, NEW i \in Instances, WireOrdered(i), NEW k \in DOMAIN Unanswered(i)
    PROVE  /\ Stage(i) = "capacity" => Unanswered(i)[k] = <<"get">>
           /\ Stage(i) = "write" => Unanswered(i)[k] \in Pipeline
<1>1. OrderOK(i, Unanswered(i), client, local[i], recovery[i])
  BY DEF WireOrdered
<1>2. CASE Stage(i) = "capacity"
  <2>1. Unanswered(i) = << <<"get">> >>
    BY <1>1, <1>2 DEF OrderOK, Stage
  <2>2. k = 1
    BY <2>1
  <2> QED
    BY <1>2, <2>1, <2>2
<1>3. CASE Stage(i) = "write"
  <2>1. Unanswered(i) = recovery[i].batch /\ recovery[i].batch \in Seq(Pipeline)
    BY <1>1, <1>3 DEF OrderOK, Stage, Typed, RecoveryOK
  <2> QED
    BY <1>3, <2>1
<1> QED
  BY <1>2, <1>3

\* One command more is requested.
LEMMA RequestedOne ==
    ASSUME Typed, NEW i \in Instances, NEW x \in Commands, Request(i, <<x>>)
    PROVE  /\ \A c : Pending(i, c)' <=> Pending(i, c) \/ c = x
           /\ answers'[i] = answers[i] => Unanswered(i)' = Append(Unanswered(i), x)
           /\ requests'[i] = requests[i] \o <<x>>
           /\ \A j \in Instances \ {i} : requests'[j] = requests[j]
<1> DEFINE q == requests[i]
           r == requests'[i]
<1>1. /\ answers[i] \in Seq(Replies) /\ q \in Seq(Commands) /\ requests \in [Instances -> Seq(Commands)]
  BY DEF Typed, TypeOK, Replies
<1>2. r = q \o <<x>> /\ \A j \in Instances \ {i} : requests'[j] = requests[j]
  BY <1>1 DEF Request
<1>3. \A c : Pending(i, c)' <=> \E k \in DOMAIN r : r[k] = c
  BY DEF Pending
<1>4. \A c : Pending(i, c) <=> \E k \in DOMAIN q : q[k] = c
  BY DEF Pending
<1>5. /\ answers'[i] = answers[i] => Unanswered(i)' = OnWire(answers[i], r)
      /\ Unanswered(i) = OnWire(answers[i], q)
  BY DEF Unanswered, OnWire
<1> HIDE DEF q, r
<1>6. r = Append(q, x)
  BY <1>1, <1>2, AppendIsConcat
<1>7. /\ Len(q) \in Nat /\ DOMAIN q = 1..Len(q) /\ Len(r) = Len(q) + 1 /\ DOMAIN r = 1..Len(q) + 1
      /\ \A k \in 1..Len(q) : r[k] = q[k]
      /\ r[Len(q) + 1] = x
  BY <1>1, <1>6, AppendProperties, LenProperties
<1>8. \A k \in DOMAIN r : k \in DOMAIN q \/ k = Len(q) + 1
  BY <1>7
<1>9. \A k \in DOMAIN q : k \in DOMAIN r /\ r[k] = q[k]
  BY <1>7
<1>10. Len(q) + 1 \in DOMAIN r
  BY <1>7
<1>11. \A c : (\E k \in DOMAIN r : r[k] = c) <=> (\E k \in DOMAIN q : q[k] = c) \/ c = x
  BY <1>7, <1>8, <1>9, <1>10
<1>12. OnWire(answers[i], r) = Append(OnWire(answers[i], q), x)
  BY <1>1, <1>2, WireRequested
<1>13. requests'[i] = requests[i] \o <<x>>
  BY <1>2 DEF q, r
<1> QED
  BY <1>2, <1>3, <1>4, <1>5, <1>11, <1>12, <1>13

\* The oldest answer is taken.
LEMMA TakenOne ==
    ASSUME Typed, NEW i \in Instances, answers[i] # <<>>, Take(i)
    PROVE  /\ requests'[i] = requests[i] => /\ Unanswered(i)' = Tail(Unanswered(i))
                                            /\ \A c : Pending(i, c)' <=> Pending(i, c)
           /\ Unanswered(i) # <<>>
           /\ 1 \in DOMAIN Unanswered(i) /\ Unanswered(i)[1] = Head(answers[i]).to
           /\ \A k \in DOMAIN answers'[i] : /\ k + 1 \in DOMAIN answers[i]
                                            /\ answers'[i][k] = answers[i][k + 1]
           /\ \A p \in Peers : Admitted(i, p)' => Admitted(i, p)
           /\ \A p \in Peers :
                  \/ Head(answers[i]).to # <<"join", p>>
                  \/ JoinVerdict(Answer(i), p, MaxPeers) # "joined"
                  => (Admitted(i, p) => Admitted(i, p)')
           /\ answers'[i] = Tail(answers[i])
           /\ \A j \in Instances \ {i} : answers'[j] = answers[j]
<1> DEFINE a == answers[i]
           b == answers'[i]
           u == Unanswered(i)
<1>1. /\ a \in Seq(Replies) /\ requests[i] \in Seq(Commands) /\ answers \in [Instances -> Seq(Replies)]
  BY DEF Typed, TypeOK, Replies
<1>2. b = Tail(a) /\ a # <<>> /\ \A j \in Instances \ {i} : answers'[j] = answers[j]
  BY <1>1 DEF Take
<1>3. /\ u = OnWire(a, requests[i]) /\ u \in Seq(Commands)
      /\ requests'[i] = requests[i] => Unanswered(i)' = OnWire(b, requests[i])
  BY UnansweredTyped DEF Unanswered, OnWire
<1>4. \A p : Admitted(i, p) <=>
          \E k \in DOMAIN a : a[k].to = <<"join", p>> /\ JoinVerdict(a[k].room, p, MaxPeers) = "joined"
  BY DEF Admitted
<1>5. \A p : Admitted(i, p)' <=>
          \E k \in DOMAIN b : b[k].to = <<"join", p>> /\ JoinVerdict(b[k].room, p, MaxPeers) = "joined"
  BY DEF Admitted, JoinVerdict, CapacityFor, Members
<1>6. Answer(i) = Head(a).room
  BY DEF Answer
<1>7. requests'[i] = requests[i] => \A c : Pending(i, c)' <=> Pending(i, c)
  BY DEF Pending
<1> HIDE DEF a, b, u
<1>8. /\ Len(a) \in Nat \ {0} /\ DOMAIN a = 1..Len(a) /\ Head(a) = a[1]
      /\ b \in Seq(Replies) /\ Len(b) = Len(a) - 1 /\ DOMAIN b = 1..Len(a) - 1
      /\ \A k \in 1..Len(a) - 1 : b[k] = a[k + 1]
  BY <1>1, <1>2, LenProperties, HeadTailProperties, EmptySeq
<1>9. OnWire(b, requests[i]) = Tail(u) /\ u # <<>> /\ u[1] = Head(a).to
  BY <1>1, <1>2, <1>3, WireTaken
<1>10. 1 \in DOMAIN u
  BY <1>3, <1>9, LenProperties, EmptySeq
<1>11. \A k \in DOMAIN b : k + 1 \in DOMAIN a /\ b[k] = a[k + 1]
  BY <1>8
<1>12. \A k \in DOMAIN a : k = 1 \/ (k - 1 \in DOMAIN b /\ b[k - 1] = a[k])
  BY <1>8
<1>13. \A p \in Peers : Admitted(i, p)' => Admitted(i, p)
  BY <1>4, <1>5, <1>11
<1>14. ASSUME NEW p \in Peers, Admitted(i, p),
              Head(a).to # <<"join", p>> \/ JoinVerdict(Answer(i), p, MaxPeers) # "joined"
       PROVE  Admitted(i, p)'
  <2>1. PICK k \in DOMAIN a :
            a[k].to = <<"join", p>> /\ JoinVerdict(a[k].room, p, MaxPeers) = "joined"
    BY <1>4, <1>14
  <2>2. k # 1
    BY <1>6, <1>8, <1>14, <2>1
  <2> QED
    BY <1>5, <1>12, <2>1, <2>2
<1> QED
  BY <1>2, <1>3, <1>7, <1>9, <1>10, <1>11, <1>13, <1>14 DEF a, b, u

-----------------------------------------------------------------------------
\* What changes of an instance a room does not feel.

\* The entry of a peer when the room, the peers of the instance and its writes stay.
LEMMA EntryKept ==
    ASSUME NEW i \in Instances, NEW p \in Peers, EntryOK(i, p),
           redis'.peers[p] = redis.peers[p], p \in local'[i] <=> p \in local[i],
           running'[i] = running[i],
           \A name \in {"leave", "hset", "hdel"} :
               Pending(i, <<name, p>>)' <=> Pending(i, <<name, p>>),
           Admitted(i, p)' <=> Admitted(i, p),
           \A k \in DOMAIN answers'[i] :
               \E l \in DOMAIN answers[i] : answers'[i][k] = answers[i][l],
           Stage(i)' = "capacity" => recovery'[i] = recovery[i],
           p \in local[i] /\ ToRestore(i, p) => ToRestore(i, p)',
           p \notin local[i] /\ ToPurge(i, p) => ToPurge(i, p)'
    PROVE  EntryOK(i, p)'
<1>1. Has(i, p)' <=> Has(i, p)
  BY DEF Has
<1>2. Stage(i)' = "capacity" =>
          /\ Stage(i) = "capacity"
          /\ \A c : InBatch(i, c)' <=> InBatch(i, c)
  BY DEF Stage, InBatch
<1>3. \A k \in DOMAIN answers'[i] : answers'[i][k].to = <<"hgetall">> /\ p \notin local'[i] =>
          (answers'[i][k].room.peers[p] = i <=> Has(i, p))
  BY DEF EntryOK
<1>4. /\ Pending(i, <<"leave", p>>)' <=> Pending(i, <<"leave", p>>)
      /\ Pending(i, <<"hset", p>>)' <=> Pending(i, <<"hset", p>>)
      /\ Pending(i, <<"hdel", p>>)' <=> Pending(i, <<"hdel", p>>)
  OBVIOUS
<1> QED
  BY <1>1, <1>2, <1>3, <1>4 DEF EntryOK

\* What a room of an instance is about.
Apart(j) ==
    /\ command'[j] = command[j] /\ subscriber'[j] = subscriber[j]
    /\ open'[j] = open[j] /\ emptied'[j] = emptied[j] /\ running'[j] = running[j]
    /\ local'[j] = local[j] /\ recovery'[j] = recovery[j]
    /\ requests'[j] = requests[j] /\ answers'[j] = answers[j]
    /\ \A p \in Peers :
           /\ client[p] = [pc |-> "joining", at |-> j] => client'[p] = client[p]
           /\ redis'.peers[p] = j <=> redis.peers[p] = j
           /\ p \in local[j] /\ redis.peers[p] = NoInstance => redis'.peers[p] = NoInstance

\* A step of another instance changes nothing of it.
LEMMA OtherRoom ==
    ASSUME NEW j \in Instances, Apart(j), RoomOK(j) PROVE RoomOK(j)'
<1>1. /\ Stage(j)' = Stage(j) /\ IsReady(j)' = IsReady(j) /\ Unanswered(j)' = Unanswered(j)
      /\ \A c : Pending(j, c)' <=> Pending(j, c)
      /\ \A c : InBatch(j, c)' <=> InBatch(j, c)
  BY DEF Apart, Stage, IsReady, Ready, Unanswered, Pending, InBatch
<1>2. WriteInFlight(j)' <=> WriteInFlight(j)
  BY <1>1 DEF WriteInFlight
<1>3. DoorsOK(j)'
  BY <1>1, <1>2 DEF RoomOK, DoorsOK, Apart, Stage
<1>4. WireOrdered(j)'
  <2> DEFINE u == Unanswered(j)
  <2>1. OrderOK(j, u, client, local[j], recovery[j])
    BY DEF RoomOK, WireOrdered
  <2>2. \A p \in Peers : client[p] = [pc |-> "joining", at |-> j] =>
                             client'[p] = [pc |-> "joining", at |-> j]
    BY DEF Apart
  <2> HIDE DEF u
  <2>3. OrderOK(j, u, client', local[j], recovery[j])
    BY <2>1, <2>2 DEF OrderOK
  <2> QED
    BY <1>1, <2>3 DEF WireOrdered, Apart, u
<1>5. ASSUME NEW p \in Peers PROVE EntryOK(j, p)'
  <2>1. /\ Has(j, p)' <=> Has(j, p)
        /\ p \in local[j] /\ redis.peers[p] = NoInstance => redis'.peers[p] = NoInstance
    BY DEF Apart, Has
  <2>2. Admitted(j, p)' <=> Admitted(j, p)
    BY DEF Apart, Admitted, JoinVerdict, CapacityFor, Members
  <2>3. /\ ToRestore(j, p)' <=> ToRestore(j, p)
        /\ ToPurge(j, p)' <=> ToPurge(j, p)
    BY <1>1 DEF ToRestore, ToPurge, Apart, Stage
  <2>4. EntryOK(j, p)
    BY DEF RoomOK
  <2>5. local'[j] = local[j] /\ answers'[j] = answers[j] /\ running'[j] = running[j]
    BY DEF Apart
  <2> QED
    BY <1>1, <2>1, <2>2, <2>3, <2>4, <2>5 DEF EntryOK
<1> QED
  BY <1>3, <1>4, <1>5 DEF RoomOK

\* Neither the writes that were requested nor the peers that were admitted change.
SameWrites(i) ==
    /\ \A p \in Peers :
           /\ \A name \in {"leave", "hset", "hdel"} :
                  Pending(i, <<name, p>>)' <=> Pending(i, <<name, p>>)
           /\ Admitted(i, p)' <=> Admitted(i, p)
    /\ \A k \in DOMAIN answers'[i] :
           \E l \in DOMAIN answers[i] : answers'[i][k] = answers[i][l]

\* A quiet move: the room and the peers stay, and so do doors and wire.
LEMMA RoomKept ==
    ASSUME NEW i \in Instances, RoomOK(i), redis' = redis, local' = local, running' = running,
           SameWrites(i), DoorsOK(i)', WireOrdered(i)',
           Stage(i)' = "capacity" => recovery'[i] = recovery[i],
           \A p \in Peers : /\ p \in local[i] /\ ToRestore(i, p) => ToRestore(i, p)'
                            /\ p \notin local[i] /\ ToPurge(i, p) => ToPurge(i, p)'
    PROVE  RoomOK(i)'
<1>1. \A p \in Peers : EntryOK(i, p)
  BY DEF RoomOK
<1>2. ASSUME NEW p \in Peers PROVE EntryOK(i, p)'
  BY <1>1, EntryKept DEF SameWrites
<1> QED
  BY <1>2 DEF RoomOK

\* So it is with a wire that does not change, ...
LEMMA WireStill ==
    ASSUME NEW i \in Instances, requests'[i] = requests[i], answers'[i] = answers[i]
    PROVE  SameWrites(i) /\ Unanswered(i)' = Unanswered(i) /\ WriteInFlight(i)' = WriteInFlight(i)
<1>1. Unanswered(i)' = Unanswered(i)
  BY DEF Unanswered
<1>2. \A c : Pending(i, c)' <=> Pending(i, c)
  BY DEF Pending
<1>3. \A p \in Peers : Admitted(i, p)' <=> Admitted(i, p)
  BY DEF Admitted, JoinVerdict, CapacityFor, Members
<1> QED
  BY <1>1, <1>2, <1>3 DEF SameWrites, WriteInFlight

\* ... a command more that takes nothing from Redis and restores nothing, ...
LEMMA WireMore ==
    ASSUME Typed, NEW i \in Instances, NEW x \in Commands, Request(i, <<x>>),
           answers'[i] = answers[i], x[1] \notin {"leave", "hset", "hdel"}
    PROVE  SameWrites(i) /\ Unanswered(i)' = Append(Unanswered(i), x)
<1>1. /\ \A c : Pending(i, c)' <=> Pending(i, c) \/ c = x
      /\ Unanswered(i)' = Append(Unanswered(i), x)
  BY RequestedOne
<1>2. \A p \in Peers : Admitted(i, p)' <=> Admitted(i, p)
  BY DEF Admitted, JoinVerdict, CapacityFor, Members
<1>3. ASSUME NEW p \in Peers, NEW name \in {"leave", "hset", "hdel"}
      PROVE  Pending(i, <<name, p>>)' <=> Pending(i, <<name, p>>)
  BY <1>1
<1> QED
  BY <1>1, <1>2, <1>3 DEF SameWrites

\* ... and an answer that was not that a peer is admitted.
LEMMA WireLess ==
    ASSUME Typed, NEW i \in Instances, answers[i] # <<>>, Take(i), requests'[i] = requests[i],
           \A p \in Peers : \/ Head(answers[i]).to # <<"join", p>>
                            \/ JoinVerdict(Answer(i), p, MaxPeers) # "joined"
    PROVE  SameWrites(i) /\ Unanswered(i)' = Tail(Unanswered(i))
<1>1. \A p \in Peers : Admitted(i, p)' <=> Admitted(i, p)
  BY TakenOne
<1>2. /\ \A c : Pending(i, c)' <=> Pending(i, c)
      /\ Unanswered(i)' = Tail(Unanswered(i))
      /\ \A k \in DOMAIN answers'[i] : k + 1 \in DOMAIN answers[i] /\ answers'[i][k] = answers[i][k + 1]
  BY TakenOne
<1> QED
  BY <1>1, <1>2 DEF SameWrites

\* One answer is taken and one command more is requested.
LEMMA WirePassed ==
    ASSUME Typed, NEW i \in Instances, answers[i] # <<>>, Take(i),
           \A p \in Peers : Head(answers[i]).to # <<"join", p>>,
           NEW x \in Commands, Request(i, <<x>>), x[1] \notin {"leave", "hset", "hdel"}
    PROVE  SameWrites(i) /\ Unanswered(i)' = Append(Tail(Unanswered(i)), x)
<1>1. /\ \A c : Pending(i, c)' <=> Pending(i, c) \/ c = x
      /\ requests'[i] = requests[i] \o <<x>>
  BY RequestedOne
<1>2. /\ answers'[i] = Tail(answers[i])
      /\ \A p \in Peers : Admitted(i, p)' <=> Admitted(i, p)
      /\ \A k \in DOMAIN answers'[i] : k + 1 \in DOMAIN answers[i] /\ answers'[i][k] = answers[i][k + 1]
  BY TakenOne
<1>3. SameWrites(i)
  <2>1. ASSUME NEW p \in Peers, NEW name \in {"leave", "hset", "hdel"}
        PROVE  Pending(i, <<name, p>>)' <=> Pending(i, <<name, p>>)
    BY <1>1
  <2> QED
    BY <1>2, <2>1 DEF SameWrites
<1> DEFINE a == answers[i]
           q == requests[i]
<1>4. a \in Seq(Replies) /\ q \in Seq(Commands) /\ a # <<>>
  BY OnTheWire
<1>5. /\ Unanswered(i)' = OnWire(Tail(a), q \o <<x>>)
      /\ Unanswered(i) = OnWire(a, q)
  BY <1>1, <1>2 DEF Unanswered, OnWire
<1> HIDE DEF a, q
<1>6. OnWire(Tail(a), q) = Tail(OnWire(a, q)) /\ Tail(a) \in Seq(Replies)
  BY <1>4, WireTaken, HeadTailProperties
<1>7. OnWire(Tail(a), q \o <<x>>) = Append(OnWire(Tail(a), q), x)
  BY <1>4, <1>6, WireRequested
<1> QED
  BY <1>3, <1>5, <1>6, <1>7

-----------------------------------------------------------------------------
\* Connections.

\* A return of a connection, and the recovery it starts.
LEMMA ReconnectRoom ==
    ASSUME Typed, NEW i \in Instances, RoomOK(i), Reconnect(i) PROVE RoomOK(i)'
<1>t. /\ recovery \in [Instances -> RecoveryRecord] /\ open \in [Instances -> BOOLEAN]
      /\ command \in [Instances -> BOOLEAN] /\ subscriber \in [Instances -> BOOLEAN]
  BY DEF Typed, TypeOK, RecoveryOK
<1>d. DoorsOK(i) /\ WireOrdered(i)
  BY DEF RoomOK
<1>1. /\ redis' = redis /\ requests' = requests /\ answers' = answers /\ local' = local
      /\ emptied' = emptied /\ client' = client /\ running' = running /\ running[i]
      /\ command[i] => command'[i]
  BY <1>t DEF Reconnect, pending
<1>2. \/ recovery'[i] = recovery[i] /\ open'[i] = open[i]
      \/ /\ recovery[i] = Idle /\ recovery'[i] = [Idle EXCEPT !.pc = "rooms"] /\ open'[i] = FALSE
  BY <1>t DEF Reconnect
<1>3. ~IsReady(i)'
  <2>1. CASE Ready(i)' /\ recovery[i] = Idle
    BY <1>t, <2>1 DEF Reconnect, Ready, IsReady
  <2>2. CASE Ready(i)' /\ recovery[i] # Idle
    <3>1. ~open[i] /\ open'[i] = open[i]
      BY <1>2, <1>d, <2>2 DEF DoorsOK
    <3> QED
      BY <3>1 DEF IsReady
  <2> QED
    BY <2>1, <2>2 DEF IsReady
<1>4. SameWrites(i) /\ Unanswered(i)' = Unanswered(i) /\ WriteInFlight(i)' = WriteInFlight(i)
  BY <1>1, WireStill
<1>5. \/ Stage(i)' = Stage(i) /\ recovery'[i] = recovery[i]
      \/ Stage(i) = "idle" /\ Stage(i)' = "rooms"
  BY <1>2 DEF Stage, Idle
<1>6. DoorsOK(i)'
  BY <1>1, <1>2, <1>3, <1>4, <1>5, <1>d DEF DoorsOK, Stage
<1>7. WireOrdered(i)'
  <2>1. CASE recovery'[i] = recovery[i]
    BY <1>1, <1>4, <1>d, <2>1 DEF WireOrdered
  <2>2. CASE Stage(i) = "idle" /\ Stage(i)' = "rooms"
    <3> DEFINE u == Unanswered(i)
    <3>1. u \in Seq(Commands) /\ OrderOK(i, u, client, local[i], recovery[i])
      BY <1>d, UnansweredTyped DEF WireOrdered
    <3> HIDE DEF u
    <3>2. recovery[i].pc = "idle" /\ recovery'[i].pc = "rooms"
      BY <2>2 DEF Stage
    <3>3. OrderOK(i, u, client, local[i], recovery'[i])
      BY <3>1, <3>2 DEF OrderOK
    <3> QED
      BY <1>1, <1>4, <3>3 DEF WireOrdered, u
  <2> QED
    BY <1>5, <2>1, <2>2
<1>8. ASSUME NEW p \in Peers
      PROVE  /\ ToRestore(i, p) => ToRestore(i, p)'
             /\ ToPurge(i, p) => ToPurge(i, p)'
  <2>1. \A name \in {"hset", "hdel"} : Pending(i, <<name, p>>)' <=> Pending(i, <<name, p>>)
    BY <1>4 DEF SameWrites
  <2> QED
    BY <1>1, <1>3, <1>5, <2>1 DEF ToRestore, ToPurge
<1>9. Stage(i)' = "capacity" => recovery'[i] = recovery[i]
  BY <1>5
<1> QED
  BY <1>1, <1>4, <1>6, <1>7, <1>8, <1>9, RoomKept

\* A loss of connections finds no write on its way, or loses the instance no command.
LEMMA LostRoom ==
    ASSUME Typed, NEW i \in Instances, RoomOK(i),
           ~open'[i], command'[i] => command[i] /\ answers'[i] = answers[i],
           IF command'[i] THEN requests'[i] = requests[i]
                          ELSE answers'[i] = <<>> /\ requests'[i] = Unanswered(i),
           ~command'[i] => ~WriteInFlight(i),
           local' = local, emptied' = emptied, recovery' = recovery, client' = client,
           running' = running,
           redis' = redis \/ (redis' = EmptyRoom /\ recovery[i] = Idle /\ ~command'[i])
    PROVE  RoomOK(i)'
<1>d. DoorsOK(i) /\ WireOrdered(i) /\ \A p \in Peers : EntryOK(i, p)
  BY DEF RoomOK
<1>n. ~IsReady(i)'
  BY DEF IsReady
<1>1. CASE command'[i] /\ redis' = redis
  <2>1. SameWrites(i) /\ Unanswered(i)' = Unanswered(i) /\ WriteInFlight(i)' = WriteInFlight(i)
    BY <1>1, WireStill
  <2>2. DoorsOK(i)'
    BY <1>1, <1>d, <1>n, <2>1 DEF DoorsOK, Stage
  <2>3. WireOrdered(i)'
    BY <1>d, <2>1 DEF WireOrdered
  <2>4. ASSUME NEW p \in Peers
        PROVE  /\ ToRestore(i, p) => ToRestore(i, p)'
               /\ ToPurge(i, p) => ToPurge(i, p)'
    <3>1. \A name \in {"hset", "hdel"} : Pending(i, <<name, p>>)' <=> Pending(i, <<name, p>>)
      BY <2>1 DEF SameWrites
    <3> QED
      BY <1>n, <3>1 DEF ToRestore, ToPurge, Stage
  <2> QED
    BY <1>1, <2>1, <2>2, <2>3, <2>4, RoomKept DEF Stage
<1>2. CASE ~command'[i]
  <2> DEFINE u == Unanswered(i)
  <2>1. u \in Seq(Commands) /\ answers'[i] = <<>> /\ requests'[i] = u
    BY <1>2, UnansweredTyped
  <2>2. Unanswered(i)' = u
    <3>1. Unanswered(i)' = OnWire(<<>>, u)
      BY <2>1 DEF Unanswered, OnWire
    <3> QED
      BY <2>1, <3>1, OnlyRequests
  <2>3. ~WriteInFlight(i) /\ ~WriteInFlight(i)'
    BY <1>2, <2>2 DEF WriteInFlight
  <2>4. WireOrdered(i)'
    BY <1>d, <2>2 DEF WireOrdered
  <2>5. DoorsOK(i)'
    BY <1>d, <1>n, <2>3 DEF DoorsOK, Stage
  <2>6. ASSUME NEW p \in Peers PROVE EntryOK(i, p)'
    <3>1. /\ ~Admitted(i, p) /\ ~Pending(i, <<"leave", p>>) /\ Stage(i) # "write"
      BY <1>d, <2>3, InFlight
    <3>2. \A k \in DOMAIN u : ~IsWrite(u[k])
      BY <2>3 DEF WriteInFlight
    <3>3. \A c : Pending(i, c)' <=> \E k \in DOMAIN u : u[k] = c
      BY <2>1 DEF Pending
    <3>4. /\ IsWrite(<<"leave", p>>) /\ IsWrite(<<"hset", p>>) /\ IsWrite(<<"hdel", p>>)
      BY DEF IsWrite
    <3>5. /\ ~Pending(i, <<"leave", p>>)'
          /\ ~Pending(i, <<"hset", p>>)' /\ ~Pending(i, <<"hdel", p>>)'
      BY <3>2, <3>3, <3>4
    <3>6. DOMAIN answers'[i] = {}
      BY <2>1, EmptySeq
    <3>7. ~Admitted(i, p)'
      BY <3>6 DEF Admitted
    <3>8. /\ Stage(i)' = Stage(i)
          /\ InBatch(i, <<"hdel", p>>)' <=> InBatch(i, <<"hdel", p>>)
          /\ InBatch(i, <<"hset", p>>)' <=> InBatch(i, <<"hset", p>>)
      BY DEF Stage, InBatch
    <3>9. ToPurge(i, p) => ToPurge(i, p)'
      BY <1>n, <3>1, <3>8 DEF ToPurge
    <3>10. ToRestore(i, p) => ToRestore(i, p)'
      BY <1>n, <3>1, <3>8 DEF ToRestore
    <3>11. EntryOK(i, p)
      BY <1>d
    <3>12. CASE redis' = redis
      <4>1. Has(i, p)' <=> Has(i, p)
        BY <3>12 DEF Has
      <4> QED
        BY <3>1, <3>5, <3>6, <3>7, <3>8, <3>9, <3>10, <3>11, <3>12, <4>1 DEF EntryOK
    <3>13. CASE redis' = EmptyRoom /\ recovery[i] = Idle
      <4>1. redis'.peers[p] = NoInstance /\ ~Has(i, p)'
        BY <3>13, NoInstanceIsNone DEF Has, EmptyRoom
      <4>2. Stage(i) = "idle" /\ ToRestore(i, p)'
        BY <1>n, <3>8, <3>13 DEF Stage, Idle, ToRestore
      <4> QED
        BY <3>5, <3>6, <3>7, <3>8, <4>1, <4>2 DEF EntryOK
    <3> QED
      BY <3>12, <3>13
  <2> QED
    BY <2>4, <2>5, <2>6 DEF RoomOK
<1> QED
  BY <1>1, <1>2

\* Giving up what was not answered loses no write, and no recovery that was writing.
LEMMA GivenUpRoom ==
    ASSUME Typed, NEW i \in Instances, RoomOK(i), GiveUp(i) PROVE RoomOK(i)'
<1>t. /\ recovery \in [Instances -> RecoveryRecord] /\ requests \in [Instances -> Seq(Commands)]
      /\ answers[i] = <<>> /\ ~command[i]
  BY DEF Typed, TypeOK, RecoveryOK, WireOK, GiveUp
<1>d. DoorsOK(i) /\ WireOrdered(i) /\ \A p \in Peers : EntryOK(i, p)
  BY DEF RoomOK
<1>1. ~WriteInFlight(i)
  BY <1>t, <1>d DEF DoorsOK
<1>2. \A p \in Peers : /\ Stage(i) # "write" /\ ~Admitted(i, p)
                       /\ ~Pending(i, <<"leave", p>>)
  BY <1>1, <1>d, InFlight
<1>3. ~WritesLast(i)
  <2>1. recovery[i].pc # "write"
    <3>1. CASE Peers = {}
      BY <1>d, <3>1 DEF WireOrdered, OrderOK
    <3>2. CASE Peers # {}
      BY <1>2, <3>2 DEF Stage
    <3> QED
      BY <3>1, <3>2
  <2> QED
    BY <2>1 DEF WritesLast
<1>4. /\ requests'[i] = <<>> /\ answers'[i] = <<>> /\ recovery'[i] = Idle
      /\ emptied' = emptied /\ open' = open
  BY <1>t, <1>3 DEF GiveUp, RecoveryFails, pending
<1>5. /\ redis' = redis /\ command' = command /\ subscriber' = subscriber /\ local' = local
      /\ running' = running
  BY DEF GiveUp, counts
<1>6. Unanswered(i)' = <<>>
  <2>1. Unanswered(i)' = OnWire(<<>>, <<>>) /\ <<>> \in Seq(Commands)
    BY <1>4, EmptySeq DEF Unanswered, OnWire
  <2> QED
    BY <2>1, OnlyRequests
<1>7. Stage(i)' = "idle" /\ ~IsReady(i)' /\ ~IsReady(i)
  BY <1>t, <1>4, <1>5 DEF Stage, Idle, IsReady, Ready
<1>8. WireOrdered(i)'
  <2>1. Idle.pc \notin {"capacity", "write"}
    BY DEF Idle
  <2>2. OrderOK(i, <<>>, client', local'[i], Idle)
    BY <2>1, OrderEmpty
  <2> QED
    BY <1>4, <1>6, <2>2 DEF WireOrdered
<1>9. DoorsOK(i)'
  <2>1. ~WriteInFlight(i)'
    BY <1>6, EmptySeq DEF WriteInFlight
  <2> QED
    BY <1>d, <1>4, <1>5, <1>7, <2>1 DEF DoorsOK, Stage
<1>10. ASSUME NEW p \in Peers PROVE EntryOK(i, p)'
  <2>1. DOMAIN requests'[i] = {} /\ DOMAIN answers'[i] = {}
    BY <1>4, EmptySeq
  <2>2. \A c : ~Pending(i, c)'
    BY <2>1 DEF Pending
  <2>3. ~Admitted(i, p)'
    BY <2>1 DEF Admitted
  <2>4. Has(i, p)' <=> Has(i, p)
    BY <1>5 DEF Has
  <2>5. ToRestore(i, p)' /\ (ToPurge(i, p) => ToPurge(i, p)')
    BY <1>4, <1>5, <1>7 DEF ToRestore, ToPurge
  <2>6. EntryOK(i, p)
    BY <1>d
  <2> QED
    BY <1>2, <1>5, <1>7, <2>1, <2>2, <2>3, <2>4, <2>5, <2>6 DEF EntryOK
<1> QED
  BY <1>8, <1>9, <1>10 DEF RoomOK

-----------------------------------------------------------------------------
\* Recoveries.

\* What a recovery leaves alone.
LEMMA RecoveryDoors ==
    ASSUME Typed, NEW i \in Instances, RoomOK(i), RecoveryStep(i), Stage(i) # "idle"
    PROVE  /\ redis' = redis /\ command' = command /\ subscriber' = subscriber
           /\ local' = local /\ client' = client /\ running' = running
           /\ command[i] /\ running[i] /\ ~open[i]
           /\ recovery \in [Instances -> RecoveryRecord]
           /\ requests \in [Instances -> Seq(Commands)] /\ answers \in [Instances -> Seq(Replies)]
           /\ open \in [Instances -> BOOLEAN] /\ emptied \in [Instances -> BOOLEAN]
           /\ DoorsOK(i) /\ WireOrdered(i) /\ \A p \in Peers : EntryOK(i, p)
<1>1. /\ redis' = redis /\ command' = command /\ subscriber' = subscriber
      /\ local' = local /\ client' = client /\ running' = running /\ command[i]
  BY DEF RecoveryStep
<1>2. recovery[i] # Idle
  BY DEF Stage, Idle
<1>3. DoorsOK(i) /\ WireOrdered(i) /\ \A p \in Peers : EntryOK(i, p)
  BY DEF RoomOK
<1>4. running[i] /\ ~open[i]
  BY <1>1, <1>2, <1>3 DEF DoorsOK, Typed, WireOK
<1> QED
  BY <1>1, <1>3, <1>4 DEF Typed, TypeOK, RecoveryOK, Replies

\* A recovery begins to sync what there is to sync.
LEMMA SyncRoom ==
    ASSUME Typed, NEW i \in Instances, RoomOK(i), RecoveryStep(i), SyncRooms(i) \/ SyncEmpties(i)
    PROVE  RoomOK(i)'
<1>s. Stage(i) \in {"rooms", "empties"}
  BY DEF SyncRooms, SyncEmpties, Stage
<1>t. /\ redis' = redis /\ command' = command /\ subscriber' = subscriber
      /\ local' = local /\ client' = client /\ running' = running
      /\ command[i] /\ running[i] /\ ~open[i]
      /\ recovery \in [Instances -> RecoveryRecord]
      /\ DoorsOK(i) /\ WireOrdered(i)
  BY <1>s, RecoveryDoors
<1>1. answers' = answers /\ emptied' = emptied /\ open' = open
  BY DEF SyncRooms, SyncEmpties
<1>2. \/ /\ Request(i, << <<"hgetall">> >>) /\ Stage(i)' = "read"
         /\ recovery'[i].peers = local[i] /\ (local[i] # {} \/ emptied[i])
         /\ recovery'[i].next # "empties" /\ emptied[i] => recovery'[i].emptied
      \/ /\ requests' = requests /\ Stage(i) = "rooms" /\ Stage(i)' = "empties" /\ local[i] = {}
      \/ /\ requests' = requests /\ Stage(i) = "empties" /\ Stage(i)' = "notices" /\ ~emptied[i]
  <2>1. CASE SyncRooms(i) /\ local[i] # {}
    <3>1. /\ recovery'[i] = [recovery[i] EXCEPT !.pc = "read", !.peers = local[i],
                                !.next = "empties", !.emptied = FALSE]
          /\ Request(i, << <<"hgetall">> >>)
      BY <1>t, <2>1 DEF SyncRooms, Sync
    <3>2. recovery'[i].pc = "read" /\ recovery'[i].peers = local[i] /\ recovery'[i].next = "empties"
      BY <1>t, <3>1 DEF RecoveryRecord
    <3> QED
      BY <2>1, <3>1, <3>2 DEF Stage
  <2>2. CASE SyncRooms(i) /\ local[i] = {}
    <3>1. recovery'[i] = [recovery[i] EXCEPT !.pc = "empties"] /\ requests' = requests
      BY <1>t, <2>2 DEF SyncRooms
    <3> QED
      BY <1>t, <2>2, <3>1 DEF Stage, RecoveryRecord, SyncRooms
  <2>3. CASE SyncEmpties(i) /\ emptied[i]
    <3>1. /\ recovery'[i] = [recovery[i] EXCEPT !.pc = "read", !.peers = {},
                                !.next = "notices", !.emptied = TRUE]
          /\ Request(i, << <<"hgetall">> >>)
      BY <1>t, <2>3 DEF SyncEmpties, Sync
    <3>2. recovery'[i].pc = "read" /\ recovery'[i].peers = {} /\ recovery'[i].emptied
      BY <1>t, <3>1 DEF RecoveryRecord
    <3>3. local[i] = {}
      BY <1>t, <2>3 DEF DoorsOK
    <3> QED
      BY <2>3, <3>1, <3>2, <3>3 DEF Stage
  <2>4. CASE SyncEmpties(i) /\ ~emptied[i]
    <3>1. recovery'[i] = [recovery[i] EXCEPT !.pc = "notices"] /\ requests' = requests
      BY <1>t, <2>4 DEF SyncEmpties
    <3> QED
      BY <1>t, <2>4, <3>1 DEF Stage, RecoveryRecord, SyncEmpties
  <2> QED
    BY <2>1, <2>2, <2>3, <2>4
<1>3. <<"hgetall">> \in Commands
  BY DEF Commands
<1> DEFINE u == Unanswered(i)
<1>4. u \in Seq(Commands) /\ OrderOK(i, u, client, local[i], recovery[i])
  BY <1>t, UnansweredTyped DEF WireOrdered
<1>5. SameWrites(i) /\ WireOrdered(i)'
  <2>0. recovery[i].pc \in {"rooms", "empties"}
    BY <1>s DEF Stage
  <2> HIDE DEF u
  <2>1. CASE Request(i, << <<"hgetall">> >>) /\ Stage(i)' = "read"
    <3>1. SameWrites(i) /\ Unanswered(i)' = Append(Unanswered(i), <<"hgetall">>)
      BY <1>1, <1>3, <2>1, WireMore
    <3>2. recovery'[i].pc = "read"
      BY <2>1 DEF Stage
    <3>3. OrderOK(i, u, client, local[i], recovery'[i])
      BY <1>4, <2>0, <3>2 DEF OrderOK
    <3>4. \A k \in DOMAIN u : u[k] # <<"hgetall">>
      BY <1>4, <2>0 DEF OrderOK
    <3>5. OrderOK(i, Append(u, <<"hgetall">>), client, local[i], recovery'[i])
      BY <1>3, <1>4, <3>2, <3>3, <3>4, OrderRequested
    <3> QED
      BY <1>t, <3>1, <3>5 DEF WireOrdered, u
  <2>2. CASE requests' = requests /\ Stage(i)' \in {"empties", "notices"}
    <3>1. SameWrites(i) /\ Unanswered(i)' = Unanswered(i)
      BY <1>1, <2>2, WireStill
    <3>2. recovery'[i].pc \in {"empties", "notices"}
      BY <2>2 DEF Stage
    <3>3. OrderOK(i, u, client, local[i], recovery'[i])
      BY <1>4, <2>0, <3>2 DEF OrderOK
    <3> QED
      BY <1>t, <3>1, <3>3 DEF WireOrdered, u
  <2> QED
    BY <1>2, <2>1, <2>2
<1>6. DoorsOK(i)'
  BY <1>t, <1>1, <1>2 DEF DoorsOK, Stage, IsReady
<1>7. ASSUME NEW p \in Peers
      PROVE  /\ p \in local[i] /\ ToRestore(i, p) => ToRestore(i, p)'
             /\ ToPurge(i, p) => ToPurge(i, p)'
  <2>1. ~IsReady(i)'
    BY <1>t, <1>1 DEF IsReady
  <2> QED
    BY <1>s, <1>t, <1>1, <1>2, <2>1 DEF ToRestore, ToPurge
<1>8. Stage(i)' # "capacity"
  BY <1>2
<1> QED
  BY <1>t, <1>5, <1>6, <1>7, <1>8, RoomKept

\* A pipeline that removes and restores these entries.
Batch(gone, here) ==
    SetToSeq({<<"hdel", p>> : p \in gone}) \o SetToSeq({<<"hset", p>> : p \in here})

\* What a pipeline does.
LEMMA BatchElements ==
    ASSUME NEW gone \in SUBSET Peers, NEW here \in SUBSET Peers
    PROVE  /\ Batch(gone, here) \in Seq(Pipeline)
           /\ \A k \in DOMAIN Batch(gone, here) :
                  \E p \in Peers : \/ p \in gone /\ Batch(gone, here)[k] = <<"hdel", p>>
                                   \/ p \in here /\ Batch(gone, here)[k] = <<"hset", p>>
           /\ \A p \in gone : \E k \in DOMAIN Batch(gone, here) : Batch(gone, here)[k] = <<"hdel", p>>
           /\ \A p \in here : \E k \in DOMAIN Batch(gone, here) : Batch(gone, here)[k] = <<"hset", p>>
           /\ Once("hdel", Batch(gone, here))
<1> DEFINE D == {<<"hdel", p>> : p \in gone}
           H == {<<"hset", p>> : p \in here}
           d == SetToSeq(D)
           h == SetToSeq(H)
           b == Batch(gone, here)
<1>1. IsFiniteSet(gone) /\ IsFiniteSet(here)
  BY PeersFinite, FS_Subset
<1>2. IsFiniteSet(D) /\ IsFiniteSet(H)
  BY <1>1, CommandsFinite
<1>3. D \subseteq Pipeline /\ H \subseteq Pipeline
  BY DEF Pipeline
<1>4. /\ \A x \in D : \E p \in gone : x = <<"hdel", p>>
      /\ \A x \in H : \E p \in here : x = <<"hset", p>>
      /\ \A p \in gone : <<"hdel", p>> \in D
      /\ \A p \in here : <<"hset", p>> \in H
  OBVIOUS
<1>5. b = d \o h
  BY DEF Batch
<1> HIDE DEF D, H
<1>6. /\ d \in Seq(D)
      /\ \A x \in D : \E k \in DOMAIN d : d[k] = x
      /\ \A k, l \in DOMAIN d : d[k] = d[l] => k = l
  BY <1>2, SetToSeqLists
<1>7. /\ h \in Seq(H)
      /\ \A x \in H : \E k \in DOMAIN h : h[k] = x
  BY <1>2, SetToSeqLists
<1> HIDE DEF d, h, b
<1>8. d \in Seq(Pipeline) /\ h \in Seq(Pipeline)
  BY <1>3, <1>6, <1>7, SeqMonotonic
<1>9. /\ Len(d) \in Nat /\ Len(h) \in Nat /\ DOMAIN d = 1..Len(d) /\ DOMAIN h = 1..Len(h)
      /\ b \in Seq(Pipeline) /\ Len(b) = Len(d) + Len(h) /\ DOMAIN b = 1..Len(d) + Len(h)
      /\ \A k \in 1..Len(d) + Len(h) : b[k] = IF k <= Len(d) THEN d[k] ELSE h[k - Len(d)]
  BY <1>5, <1>8, ConcatProperties, LenProperties
<1>10. /\ \A k \in DOMAIN d : k \in DOMAIN b /\ b[k] = d[k]
       /\ \A k \in DOMAIN h : Len(d) + k \in DOMAIN b /\ b[Len(d) + k] = h[k]
  <2>1. ASSUME NEW k \in DOMAIN h PROVE Len(d) + k \in DOMAIN b /\ b[Len(d) + k] = h[k]
    <3>1. /\ Len(d) + k \in 1..Len(d) + Len(h)
          /\ ~(Len(d) + k <= Len(d)) /\ (Len(d) + k) - Len(d) = k
      BY <1>9
    <3> QED
      BY <1>9, <3>1
  <2>2. ASSUME NEW k \in DOMAIN d PROVE k \in DOMAIN b /\ b[k] = d[k]
    <3>1. k \in 1..Len(d) + Len(h) /\ k <= Len(d)
      BY <1>9
    <3> QED
      BY <1>9, <3>1
  <2> QED
    BY <2>1, <2>2
<1>11. \A k \in DOMAIN b : \/ k \in DOMAIN d /\ b[k] = d[k]
                           \/ k - Len(d) \in DOMAIN h /\ b[k] = h[k - Len(d)]
  <2> TAKE k \in DOMAIN b
  <2>1. CASE k <= Len(d)
    <3>1. k \in 1..Len(d) /\ k \in 1..Len(d) + Len(h)
      BY <1>9, <2>1
    <3> QED
      BY <1>9, <2>1, <3>1
  <2>2. CASE ~(k <= Len(d))
    <3>1. k - Len(d) \in 1..Len(h) /\ k \in 1..Len(d) + Len(h)
      BY <1>9, <2>2
    <3> QED
      BY <1>9, <2>2, <3>1
  <2> QED
    BY <2>1, <2>2
<1>12. \A k \in DOMAIN d : d[k] \in D
  BY <1>6, ElementOfSeq, <1>9
<1>13. \A k \in DOMAIN h : h[k] \in H
  BY <1>7, ElementOfSeq, <1>9
<1>14. ASSUME NEW k \in DOMAIN b
       PROVE  \E p \in Peers : \/ p \in gone /\ b[k] = <<"hdel", p>>
                               \/ p \in here /\ b[k] = <<"hset", p>>
  <2>1. b[k] \in D \/ b[k] \in H
    BY <1>11, <1>12, <1>13
  <2> QED
    BY <1>4, <2>1
<1>15. ASSUME NEW p \in gone PROVE \E k \in DOMAIN b : b[k] = <<"hdel", p>>
  BY <1>4, <1>6, <1>10
<1>16. ASSUME NEW p \in here PROVE \E k \in DOMAIN b : b[k] = <<"hset", p>>
  BY <1>4, <1>7, <1>10
<1>17. Once("hdel", b)
  <2> SUFFICES ASSUME NEW p \in Peers, NEW k \in DOMAIN b, NEW l \in DOMAIN b,
                      b[k] = <<"hdel", p>>, b[l] = <<"hdel", p>>
               PROVE  k = l
    BY DEF Once
  <2>1. <<"hdel", p>> \notin H
    BY <1>4
  <2>2. k \in DOMAIN d /\ l \in DOMAIN d /\ d[k] = d[l]
    BY <1>11, <1>13, <2>1
  <2> QED
    BY <1>6, <2>2
<1> QED
  BY <1>9, <1>14, <1>15, <1>16, <1>17 DEF b

\* The next answer is to the oldest command.
LEMMA OldestOnWire ==
    ASSUME Typed, NEW i \in Instances, answers[i] # <<>>
    PROVE  1 \in DOMAIN Unanswered(i) /\ Unanswered(i)[1] = Head(answers[i]).to
<1>1. /\ answers[i] \in Seq(Replies) /\ requests[i] \in Seq(Commands)
      /\ Unanswered(i) = OnWire(answers[i], requests[i]) /\ Unanswered(i) \in Seq(Commands)
  BY OnTheWire
<1> DEFINE u == OnWire(answers[i], requests[i])
<1>2. u # <<>> /\ u[1] = Head(answers[i]).to
  BY <1>1, WireTaken
<1>3. u \in Seq(Commands)
  BY <1>1
<1> HIDE DEF u
<1>4. 1 \in DOMAIN u
  BY <1>2, <1>3, LenProperties, EmptySeq
<1> QED
  BY <1>1, <1>2, <1>4 DEF u

\* An answer that is alone on the wire.
LEMMA OnlyAnswer ==
    ASSUME Typed, NEW i \in Instances, answers[i] # <<>>, Len(Unanswered(i)) = 1
    PROVE  /\ requests[i] = <<>> /\ Tail(answers[i]) = <<>>
           /\ \A c : ~Pending(i, c)
           /\ \A k \in DOMAIN answers[i] : answers[i][k] = Head(answers[i])
           /\ 1 \in DOMAIN answers[i] /\ answers[i][1] = Head(answers[i])
<1> DEFINE a == answers[i]
           q == requests[i]
<1>1. /\ a \in Seq(Replies) /\ q \in Seq(Commands) /\ Len(a) \in Nat /\ Len(q) \in Nat
      /\ DOMAIN a = 1..Len(a) /\ DOMAIN q = 1..Len(q) /\ Len(a) + Len(q) = 1
  BY OnTheWire
<1>2. a # <<>>
  OBVIOUS
<1>3. \A c : Pending(i, c) <=> \E k \in DOMAIN q : q[k] = c
  BY DEF Pending
<1> HIDE DEF a, q
<1>4. Len(a) = 1 /\ Len(q) = 0 /\ q = <<>>
  BY <1>1, <1>2, EmptySeq
<1>5. Tail(a) = <<>> /\ Head(a) = a[1]
  <2>1. Tail(a) \in Seq(Replies) /\ Len(Tail(a)) = Len(a) - 1 /\ Head(a) = a[1]
    BY <1>1, <1>2, HeadTailProperties
  <2> DEFINE t == Tail(a)
  <2>2. t \in Seq(Replies) /\ Len(t) = Len(a) - 1
    BY <2>1
  <2> HIDE DEF t
  <2>3. Len(t) = 0
    BY <1>4, <2>2
  <2>4. t = <<>>
    BY <2>2, <2>3, EmptySeq
  <2> QED
    BY <2>1, <2>4 DEF t
<1>6. DOMAIN a = {1} /\ DOMAIN q = {}
  BY <1>1, <1>4
<1>7. /\ \A k \in DOMAIN a : a[k] = Head(a)
      /\ 1 \in DOMAIN a /\ a[1] = Head(a)
  BY <1>5, <1>6
<1> QED
  BY <1>3, <1>4, <1>5, <1>6, <1>7 DEF a, q

\* It is taken, and others are sent.
LEMMA AnsweredAlone ==
    ASSUME Typed, NEW i \in Instances, requests[i] = <<>>, Tail(answers[i]) = <<>>,
           NEW cs \in Seq(Commands), requests'[i] = requests[i] \o cs, Take(i)
    PROVE  /\ answers'[i] = <<>> /\ DOMAIN answers'[i] = {}
           /\ Unanswered(i)' = cs
           /\ \A c : Pending(i, c)' <=> \E k \in DOMAIN cs : cs[k] = c
           /\ \A p \in Peers : ~Admitted(i, p)'
<1>1. answers'[i] = <<>> /\ requests'[i] = <<>> \o cs
  BY DEF Take, Typed, TypeOK
<1>2. <<>> \o cs = cs
  BY ConcatEmptySeq
<1>3. Unanswered(i)' = OnWire(answers'[i], requests'[i])
  BY DEF Unanswered, OnWire
<1>4. OnWire(<<>>, cs) = cs
  BY OnlyRequests
<1>5. DOMAIN answers'[i] = {}
  BY <1>1, EmptySeq
<1>6. \A c : Pending(i, c)' <=> \E k \in DOMAIN requests'[i] : requests'[i][k] = c
  BY DEF Pending
<1>7. \A p \in Peers : ~Admitted(i, p)'
  BY <1>5 DEF Admitted
<1> QED
  BY <1>1, <1>2, <1>3, <1>4, <1>5, <1>6, <1>7

\* The room is read: what Redis lost is restored, and what is stale is removed.
LEMMA ReadRoomRoom ==
    ASSUME Typed, NEW i \in Instances, RoomOK(i), RecoveryStep(i), ReadRoom(i)
    PROVE  RoomOK(i)'
<1>s. Stage(i) = "read" /\ Answered(i, <<"hgetall">>)
  BY DEF ReadRoom, Stage
<1>t. /\ redis' = redis /\ command' = command /\ subscriber' = subscriber
      /\ local' = local /\ client' = client /\ running' = running
      /\ command[i] /\ running[i] /\ ~open[i]
      /\ recovery \in [Instances -> RecoveryRecord] /\ requests \in [Instances -> Seq(Commands)]
      /\ DoorsOK(i) /\ WireOrdered(i) /\ \A p \in Peers : EntryOK(i, p)
  BY <1>s, RecoveryDoors
<1>1. emptied' = emptied /\ open' = open /\ Take(i) /\ ~IsReady(i) /\ ~IsReady(i)'
  BY <1>t DEF ReadRoom, IsReady
<1>2. /\ recovery[i].peers = local[i] /\ local[i] \in SUBSET Peers
      /\ local[i] # {} \/ emptied[i]
      /\ recovery[i].next # "empties" /\ emptied[i] => recovery[i].emptied
  BY <1>s, <1>t DEF DoorsOK, RecoveryRecord
<1> DEFINE gone == {p \in Peers : Has(i, p) /\ p \notin local[i]}
           here == local[i]
           batch == Batch(gone, here)
           u == Unanswered(i)
<1>3. answers[i] # <<>> /\ Head(answers[i]).to = <<"hgetall">>
  BY <1>s DEF Answered
<1>4. Len(u) = 1
  <2>1. 1 \in DOMAIN u /\ u[1] = <<"hgetall">>
    BY <1>3, OldestOnWire
  <2> HIDE DEF u
  <2> QED
    BY <1>t, <2>1 DEF WireOrdered, OrderOK, u
<1>5. /\ batch \in Seq(Pipeline)
      /\ \A k \in DOMAIN batch :
             \E p \in Peers : \/ p \in gone /\ batch[k] = <<"hdel", p>>
                              \/ p \in here /\ batch[k] = <<"hset", p>>
      /\ \A p \in gone : \E k \in DOMAIN batch : batch[k] = <<"hdel", p>>
      /\ \A p \in here : \E k \in DOMAIN batch : batch[k] = <<"hset", p>>
      /\ Once("hdel", batch)
  BY <1>2, BatchElements
<1>6. batch \in Seq(Commands) /\ << <<"get">> >> \in Seq(Commands)
  <2>1. Pipeline \subseteq Commands
    BY DEF Pipeline, Commands
  <2> QED
    BY <1>5, <2>1, SeqMonotonic DEF Commands
<1>7. /\ requests[i] = <<>> /\ Tail(answers[i]) = <<>>
      /\ \A c : ~Pending(i, c)
      /\ \A k \in DOMAIN answers[i] : answers[i][k] = Head(answers[i])
      /\ 1 \in DOMAIN answers[i] /\ answers[i][1] = Head(answers[i])
  BY <1>3, <1>4, OnlyAnswer
<1>8. Stale(i, Answer(i)) = gone
  <2>1. \A p \in Peers : p \notin local[i] => (Answer(i).peers[p] = i <=> Has(i, p))
    <3> TAKE p \in Peers
    <3>1. EntryOK(i, p)
      BY <1>t
    <3>2. /\ Answer(i) = answers[i][1].room /\ answers[i][1].to = <<"hgetall">>
          /\ 1 \in DOMAIN answers[i]
      BY <1>3, <1>7 DEF Answer
    <3> QED
      BY <3>1, <3>2 DEF EntryOK
  <2> QED
    BY <1>2, <2>1 DEF Stale
<1>9. batch = SetToSeq({<<"hdel", p>> : p \in Stale(i, Answer(i))})
              \o SetToSeq({<<"hset", p>> : p \in recovery[i].peers})
  BY <1>2, <1>8 DEF Batch
<1>10. ASSUME NEW p \in Peers
       PROVE  /\ p \in local[i] => Has(i, p) \/ redis.peers[p] = NoInstance
              /\ p \in gone => ToPurge(i, p)
  <2>1. ~Admitted(i, p)
    BY <1>3, <1>7 DEF Admitted
  <2> QED
    BY <1>t, <1>7, <2>1 DEF EntryOK
<1> HIDE DEF batch
<1>11. CASE recovery[i].peers # {} /\ MaxPeers # NoCapacity
  <2>1. /\ recovery' = [recovery EXCEPT ![i] = [@ EXCEPT !.pc = "capacity", !.batch = batch]]
        /\ Request(i, << <<"get">> >>)
    BY <1>9, <1>11 DEF ReadRoom
  <2>2. /\ Stage(i)' = "capacity" /\ recovery'[i].batch = batch
        /\ recovery'[i].peers = recovery[i].peers /\ recovery'[i].next = recovery[i].next
        /\ recovery'[i].emptied = recovery[i].emptied
    BY <1>t, <2>1 DEF RecoveryRecord, Stage
  <2>3. /\ answers'[i] = <<>> /\ DOMAIN answers'[i] = {}
        /\ Unanswered(i)' = << <<"get">> >>
        /\ \A c : Pending(i, c)' <=> \E k \in DOMAIN << <<"get">> >> : << <<"get">> >>[k] = c
        /\ \A p \in Peers : ~Admitted(i, p)'
    <3>1. requests'[i] = requests[i] \o << <<"get">> >>
      BY <1>t, <2>1 DEF Request
    <3> QED
      BY <1>1, <1>6, <1>7, <3>1, AnsweredAlone
  <2>4. WireOrdered(i)'
    <3> DEFINE v == << <<"get">> >>
    <3>1. DOMAIN v = {1} /\ v[1] = <<"get">>
      OBVIOUS
    <3> HIDE DEF v
    <3>2. recovery'[i].pc = "capacity"
      BY <2>2 DEF Stage
    <3>3. /\ v = << <<"get">> >>
          /\ \A k \in DOMAIN v : v[k] = <<"get">>
      BY <3>1 DEF v
    <3>4. OrderOK(i, v, client', local'[i], recovery'[i])
      BY <1>5, <2>2, <3>2, <3>3 DEF OrderOK, Once
    <3> QED
      BY <2>3, <3>4 DEF WireOrdered, v
  <2>5. DoorsOK(i)'
    BY <1>t, <1>1, <1>2, <1>11, <2>2 DEF DoorsOK, Stage
  <2>6. ASSUME NEW p \in Peers PROVE EntryOK(i, p)'
    <3>1. \A name \in {"leave", "hset", "hdel"} : ~Pending(i, <<name, p>>)'
      BY <2>3
    <3>2. ToRestore(i, p)' /\ (ToPurge(i, p) => ToPurge(i, p)')
      BY <1>t, <1>1, <2>2 DEF ToRestore, ToPurge
    <3>3. Has(i, p)' <=> Has(i, p)
      BY <1>t DEF Has
    <3>4. InBatch(i, <<"hdel", p>>)' <=> p \in gone
      BY <1>5, <2>2 DEF InBatch
    <3>5. InBatch(i, <<"hset", p>>)' <=> p \in local[i]
      BY <1>5, <2>2 DEF InBatch
    <3> QED
      BY <1>t, <1>10, <2>3, <3>1, <3>2, <3>3, <3>4, <3>5 DEF EntryOK
  <2> QED
    BY <2>4, <2>5, <2>6 DEF RoomOK
<1>12. CASE ~(recovery[i].peers # {} /\ MaxPeers # NoCapacity)
  <2> DEFINE pc == IF batch = <<>> THEN recovery[i].next ELSE "write"
  <2>1. /\ recovery' = [recovery EXCEPT ![i] = [@ EXCEPT !.batch = batch, !.pc = pc]]
        /\ Request(i, batch)
    BY <1>9, <1>12 DEF ReadRoom
  <2>2. /\ Stage(i)' = pc /\ recovery'[i].batch = batch
        /\ recovery'[i].peers = recovery[i].peers /\ recovery'[i].next = recovery[i].next
        /\ recovery'[i].emptied = recovery[i].emptied
    BY <1>t, <2>1 DEF RecoveryRecord, Stage
  <2>3. /\ answers'[i] = <<>> /\ DOMAIN answers'[i] = {}
        /\ Unanswered(i)' = batch
        /\ \A c : Pending(i, c)' <=> \E k \in DOMAIN batch : batch[k] = c
        /\ \A p \in Peers : ~Admitted(i, p)'
    <3>1. requests'[i] = requests[i] \o batch
      BY <1>t, <2>1 DEF Request
    <3> QED
      BY <1>1, <1>6, <1>7, <3>1, AnsweredAlone
  <2>e. ASSUME NEW p \in Peers, NEW k \in DOMAIN batch
        PROVE  /\ batch[k] = <<"hset", p>> => p \in here
               /\ batch[k] = <<"hdel", p>> => p \in gone
               /\ batch[k] \notin {<<"leave", p>>, <<"join", p>>, <<"hgetall">>}
    <3>1. PICK r \in Peers : \/ r \in gone /\ batch[k] = <<"hdel", r>>
                             \/ r \in here /\ batch[k] = <<"hset", r>>
      BY <1>5
    <3> HIDE DEF gone, here
    <3> QED
      BY <3>1
  <2>a. ASSUME NEW p \in Peers
        PROVE  /\ Pending(i, <<"hset", p>>)' <=> p \in local[i]
               /\ Pending(i, <<"hdel", p>>)' <=> p \in gone
               /\ ~Pending(i, <<"leave", p>>)'
    <3>1. \A r \in gone : \E k \in DOMAIN batch : batch[k] = <<"hdel", r>>
      BY <1>5
    <3>2. \A r \in here : \E k \in DOMAIN batch : batch[k] = <<"hset", r>>
      BY <1>5
    <3> HIDE DEF gone
    <3> QED
      BY <2>3, <2>e, <3>1, <3>2
  <2>b. recovery[i].next \in Rests
    BY <1>t DEF RecoveryRecord
  <2>c. batch = <<>> => here = {} /\ gone = {}
    <3> SUFFICES ASSUME batch = <<>> PROVE here = {} /\ gone = {}
      OBVIOUS
    <3>1. DOMAIN batch = {}
      BY EmptySeq
    <3> QED
      BY <1>2, <1>5, <3>1
  <2>4. WireOrdered(i)'
    <3>1. CASE batch = <<>>
      <4>1. recovery'[i].pc \notin {"capacity", "write"}
        BY <2>2, <2>b, <3>1 DEF Stage, Rests
      <4> QED
        BY <2>3, <3>1, <4>1, OrderEmpty DEF WireOrdered
    <3>2. CASE batch # <<>>
      <4>1. recovery'[i].pc = "write"
        BY <2>2, <3>2 DEF Stage
      <4>2. \E p \in Peers : \E k \in DOMAIN batch : batch[k] \in {<<"hset", p>>, <<"hdel", p>>}
        <5>1. 1 \in DOMAIN batch
          BY <1>5, <3>2, LenProperties, EmptySeq
        <5> QED
          BY <1>5, <5>1
      <4>3. OrderOK(i, batch, client', local'[i], recovery'[i])
        <5> HIDE DEF gone
        <5>1. Once("join", batch) /\ Once("leave", batch) /\ Once("hdel", batch)
          BY <1>5, <2>e DEF Once
        <5>2. \A k \in DOMAIN batch : batch[k] # <<"hgetall">>
          BY <1>5
        <5> QED
          BY <2>2, <2>e, <4>1, <4>2, <5>1, <5>2 DEF OrderOK
      <4> QED
        BY <2>3, <4>3 DEF WireOrdered
    <3> QED
      BY <3>1, <3>2
  <2>5. DoorsOK(i)'
    BY <1>t, <1>1, <1>2, <2>2, <2>b DEF DoorsOK, Stage, Rests
  <2>6. ASSUME NEW p \in Peers PROVE EntryOK(i, p)'
    <3>1. Has(i, p)' <=> Has(i, p)
      BY <1>t DEF Has
    <3>2. Stage(i)' # "capacity"
      BY <2>2, <2>b DEF Rests
    <3>3. p \in local[i] => ToRestore(i, p)'
      BY <1>1, <2>2, <2>a, <2>c DEF ToRestore
    <3>4. p \in gone => ToPurge(i, p)'
      BY <1>t, <1>1, <1>2, <2>2, <2>a, <2>c DEF ToPurge
    <3> QED
      BY <1>t, <1>10, <2>3, <2>a, <3>1, <3>2, <3>3, <3>4 DEF EntryOK
  <2> QED
    BY <2>4, <2>5, <2>6 DEF RoomOK
<1> QED
  BY <1>11, <1>12

\* The capacity is read, and the pipeline is sent.
LEMMA ReadCapacityRoom ==
    ASSUME Typed, NEW i \in Instances, RoomOK(i), RecoveryStep(i), ReadCapacity(i)
    PROVE  RoomOK(i)'
<1>s. Stage(i) = "capacity" /\ Answered(i, <<"get">>)
  BY DEF ReadCapacity, Stage
<1>t. /\ redis' = redis /\ command' = command /\ subscriber' = subscriber
      /\ local' = local /\ client' = client /\ running' = running
      /\ command[i] /\ running[i] /\ ~open[i]
      /\ recovery \in [Instances -> RecoveryRecord] /\ requests \in [Instances -> Seq(Commands)]
      /\ DoorsOK(i) /\ WireOrdered(i) /\ \A p \in Peers : EntryOK(i, p)
  BY <1>s, RecoveryDoors
<1>1. emptied' = emptied /\ open' = open /\ Take(i) /\ ~IsReady(i) /\ ~IsReady(i)'
  BY <1>t DEF ReadCapacity, IsReady
<1> DEFINE old == recovery[i].batch
           last == IF Answer(i).capacity = NoCapacity THEN << <<"set">> >> ELSE <<>>
           batch == old \o last
<1>2. old \in Seq(Pipeline) /\ last \in Seq(Pipeline)
  <2>1. << <<"set">> >> \in Seq(Pipeline) /\ <<>> \in Seq(Pipeline)
    BY EmptySeq DEF Pipeline
  <2> QED
    BY <1>s, <2>1 DEF Typed, RecoveryOK, Stage
<1>3. answers[i] # <<>> /\ Head(answers[i]).to = <<"get">>
  BY <1>s DEF Answered
<1>4. Len(Unanswered(i)) = 1 /\ Once("hdel", old)
  BY <1>s, <1>t DEF WireOrdered, OrderOK, Stage
<1>5. /\ recovery' = [recovery EXCEPT ![i] = [@ EXCEPT !.pc = "write", !.batch = batch]]
      /\ Request(i, batch)
  BY DEF ReadCapacity
<1>6. \A k \in DOMAIN last : last[k] = <<"set">>
  BY EmptySeq
<1> HIDE DEF old, last
<1>7. /\ batch \in Seq(Pipeline) /\ Len(old) \in Nat /\ Len(last) \in Nat
      /\ DOMAIN old = 1..Len(old) /\ DOMAIN last = 1..Len(last)
      /\ DOMAIN batch = 1..Len(old) + Len(last)
      /\ \A k \in 1..Len(old) + Len(last) : batch[k] = IF k <= Len(old) THEN old[k] ELSE last[k - Len(old)]
  BY <1>2, ConcatProperties, LenProperties
<1> HIDE DEF batch
<1>8. /\ \A k \in DOMAIN old : k \in DOMAIN batch /\ batch[k] = old[k]
      /\ \A k \in DOMAIN batch : (k \in DOMAIN old /\ batch[k] = old[k]) \/ batch[k] = <<"set">>
  <2>1. ASSUME NEW k \in DOMAIN old PROVE k \in DOMAIN batch /\ batch[k] = old[k]
    <3>1. k \in 1..Len(old) + Len(last) /\ k <= Len(old)
      BY <1>7
    <3> QED
      BY <1>7, <3>1
  <2>2. ASSUME NEW k \in DOMAIN batch
        PROVE  (k \in DOMAIN old /\ batch[k] = old[k]) \/ batch[k] = <<"set">>
    <3>1. CASE k <= Len(old)
      <4>1. k \in DOMAIN old /\ k \in 1..Len(old) + Len(last)
        BY <1>7, <3>1
      <4> QED
        BY <1>7, <3>1, <4>1
    <3>2. CASE ~(k <= Len(old))
      <4>1. k - Len(old) \in DOMAIN last /\ k \in 1..Len(old) + Len(last)
        BY <1>7, <3>2
      <4> QED
        BY <1>6, <1>7, <3>2, <4>1
    <3> QED
      BY <3>1, <3>2
  <2> QED
    BY <2>1, <2>2
<1>9. ASSUME NEW p \in Peers
      PROVE  /\ (\E k \in DOMAIN batch : batch[k] = <<"hdel", p>>) <=> Has(i, p) /\ p \notin local[i]
             /\ (\E k \in DOMAIN batch : batch[k] = <<"hset", p>>) <=> p \in local[i]
  <2>1. /\ (\E k \in DOMAIN old : old[k] = <<"hdel", p>>) <=> Has(i, p) /\ p \notin local[i]
        /\ (\E k \in DOMAIN old : old[k] = <<"hset", p>>) <=> p \in local[i]
    BY <1>s, <1>t DEF EntryOK, InBatch, old
  <2> QED
    BY <1>8, <2>1
<1>10. ASSUME NEW k \in DOMAIN batch, NEW p \in Peers
       PROVE  batch[k] \notin {<<"leave", p>>, <<"join", p>>, <<"hgetall">>}
  <2>1. batch[k] \in Pipeline
    BY <1>7
  <2> QED
    BY <2>1 DEF Pipeline
<1>11. \A k \in DOMAIN batch : batch[k] # <<"hgetall">>
  <2> TAKE k \in DOMAIN batch
  <2>1. batch[k] \in Pipeline
    BY <1>7
  <2> QED
    BY <2>1 DEF Pipeline
<1>12. Once("hdel", batch)
  <2> SUFFICES ASSUME NEW p \in Peers, NEW k \in DOMAIN batch, NEW l \in DOMAIN batch,
                      batch[k] = <<"hdel", p>>, batch[l] = <<"hdel", p>>
               PROVE  k = l
    BY DEF Once
  <2>1. k \in DOMAIN old /\ l \in DOMAIN old /\ old[k] = <<"hdel", p>> /\ old[l] = <<"hdel", p>>
    BY <1>8
  <2> QED
    BY <1>4, <2>1 DEF Once
<1>13. /\ requests[i] = <<>> /\ Tail(answers[i]) = <<>>
       /\ \A c : ~Pending(i, c)
       /\ \A k \in DOMAIN answers[i] : answers[i][k] = Head(answers[i])
  BY <1>3, <1>4, OnlyAnswer
<1>14. batch \in Seq(Commands)
  <2>1. Pipeline \subseteq Commands
    BY DEF Pipeline, Commands
  <2> QED
    BY <1>7, <2>1, SeqMonotonic
<1>15. /\ answers'[i] = <<>> /\ DOMAIN answers'[i] = {}
       /\ Unanswered(i)' = batch
       /\ \A c : Pending(i, c)' <=> \E k \in DOMAIN batch : batch[k] = c
       /\ \A p \in Peers : ~Admitted(i, p)'
  <2>1. requests'[i] = requests[i] \o batch
    BY <1>t, <1>5 DEF Request
  <2> QED
    BY <1>1, <1>13, <1>14, <2>1, AnsweredAlone
<1>16. /\ Stage(i)' = "write" /\ recovery'[i].batch = batch
       /\ recovery'[i].peers = recovery[i].peers /\ recovery'[i].next = recovery[i].next
       /\ recovery'[i].emptied = recovery[i].emptied
  BY <1>t, <1>5 DEF RecoveryRecord, Stage
<1>17. WireOrdered(i)'
  <2>1. recovery'[i].pc = "write"
    BY <1>16 DEF Stage
  <2>2. PICK p \in Peers : p \in local[i]
    BY <1>s, <1>t DEF DoorsOK, Typed, TypeOK
  <2>3. \E q \in Peers : \E k \in DOMAIN batch : batch[k] \in {<<"hset", q>>, <<"hdel", q>>}
    BY <1>9, <2>2
  <2>4. Once("join", batch) /\ Once("leave", batch)
    BY <1>10 DEF Once
  <2>5. OrderOK(i, batch, client', local'[i], recovery'[i])
    BY <1>10, <1>11, <1>12, <1>16, <2>1, <2>3, <2>4 DEF OrderOK
  <2> QED
    BY <1>15, <2>5 DEF WireOrdered
<1>18. DoorsOK(i)'
  BY <1>s, <1>t, <1>1, <1>16 DEF DoorsOK, Stage
<1>19. ASSUME NEW p \in Peers PROVE EntryOK(i, p)'
  <2>1. ~Admitted(i, p)
    BY <1>3, <1>13 DEF Admitted
  <2>2. /\ ~Pending(i, <<"leave", p>>)'
        /\ Pending(i, <<"hset", p>>)' <=> p \in local[i]
        /\ Pending(i, <<"hdel", p>>)' <=> Has(i, p) /\ p \notin local[i]
    BY <1>9, <1>10, <1>15
  <2>3. Has(i, p)' <=> Has(i, p)
    BY <1>t DEF Has
  <2>4. p \in local[i] => ToRestore(i, p)'
    BY <1>1, <1>16, <2>2 DEF ToRestore
  <2>5. Has(i, p) /\ p \notin local[i] => ToPurge(i, p)'
    <3>1. local[i] # {}
      BY <1>s, <1>t DEF DoorsOK
    <3> QED
      BY <1>1, <1>t, <1>16, <2>2, <3>1 DEF ToPurge
  <2>6. EntryOK(i, p)
    BY <1>t
  <2> QED
    BY <1>t, <1>15, <1>16, <2>1, <2>2, <2>3, <2>4, <2>5, <2>6 DEF EntryOK
<1> QED
  BY <1>17, <1>18, <1>19 DEF RoomOK

\* The pipeline is written: the room has what it was to have.
LEMMA WrittenRoom ==
    ASSUME Typed, NEW i \in Instances, RoomOK(i), RecoveryStep(i), Written(i)
    PROVE  RoomOK(i)'
<1>s. Stage(i) = "write"
  BY DEF Written, Stage
<1>t. /\ redis' = redis /\ command' = command /\ subscriber' = subscriber
      /\ local' = local /\ client' = client /\ running' = running
      /\ command[i] /\ running[i] /\ ~open[i]
      /\ recovery \in [Instances -> RecoveryRecord]
      /\ requests \in [Instances -> Seq(Commands)] /\ answers \in [Instances -> Seq(Replies)]
      /\ DoorsOK(i) /\ WireOrdered(i) /\ \A p \in Peers : EntryOK(i, p)
  BY <1>s, RecoveryDoors
<1>1. /\ emptied' = emptied /\ open' = open /\ ~IsReady(i) /\ ~IsReady(i)'
      /\ requests' = requests
  BY <1>t DEF Written, IsReady
<1>2. /\ Unanswered(i) = recovery[i].batch /\ recovery[i].batch \in Seq(Pipeline)
  BY <1>s, <1>t DEF WireOrdered, OrderOK, Typed, RecoveryOK, Stage
<1>3. /\ recovery' = [recovery EXCEPT ![i] = [@ EXCEPT !.pc = recovery[i].next, !.batch = <<>>]]
      /\ Len(answers[i]) >= Len(recovery[i].batch)
      /\ answers'[i] = SubSeq(answers[i], Len(recovery[i].batch) + 1, Len(answers[i]))
  BY <1>t DEF Written
<1>4. /\ Len(answers[i]) \in Nat /\ Len(requests[i]) \in Nat
      /\ Len(Unanswered(i)) = Len(answers[i]) + Len(requests[i])
  BY OnTheWire
<1>5. Len(requests[i]) = 0 /\ Len(recovery[i].batch) = Len(answers[i])
  <2> DEFINE m == Len(answers[i])
             n == Len(requests[i])
             b == Len(recovery[i].batch)
  <2>1. m \in Nat /\ n \in Nat /\ b = m + n /\ m >= b
    BY <1>2, <1>3, <1>4
  <2> HIDE DEF m, n, b
  <2>2. n = 0 /\ b = m
    BY <2>1
  <2> QED
    BY <2>2 DEF m, n, b
<1>6. requests[i] = <<>> /\ requests'[i] = <<>>
  BY <1>1, <1>5, <1>t, EmptySeq
<1>7. answers'[i] = <<>>
  <2> DEFINE a == answers[i]
             n == Len(a)
  <2>1. a \in Seq(Replies) /\ n \in Nat /\ answers'[i] = SubSeq(a, n + 1, n)
    BY <1>t, <1>3, <1>4, <1>5
  <2> HIDE DEF a
  <2> QED
    BY <2>1, SubSeqEmpty
<1>8. DOMAIN requests[i] = {} /\ DOMAIN answers'[i] = {}
  BY <1>6, <1>7, EmptySeq
<1>9. /\ \A c : ~Pending(i, c)
      /\ \A c : ~Pending(i, c)'
      /\ \A p \in Peers : ~Admitted(i, p)'
  BY <1>1, <1>8 DEF Pending, Admitted
<1>10. ASSUME NEW p \in Peers PROVE ~Admitted(i, p)
  <2>1. \A k \in DOMAIN answers[i] :
            k \in DOMAIN Unanswered(i) /\ Unanswered(i)[k] = answers[i][k].to
    <3> DEFINE u == Unanswered(i)
               a == answers[i]
               q == requests[i]
    <3>1. /\ Len(a) \in Nat /\ DOMAIN a = 1..Len(a) /\ Len(q) \in Nat
          /\ DOMAIN u = 1..Len(a) + Len(q)
          /\ \A k \in DOMAIN a : u[k] = a[k].to
      BY OnTheWire
    <3> HIDE DEF u, a, q
    <3>2. \A k \in DOMAIN a : k \in DOMAIN u /\ u[k] = a[k].to
      BY <3>1
    <3> QED
      BY <3>2 DEF u, a
  <2>2. \A k \in DOMAIN Unanswered(i) : Unanswered(i)[k] \in Pipeline
    BY <1>s, <1>t, AloneOnWire
  <2>3. <<"join", p>> \notin Pipeline
    BY DEF Pipeline
  <2> QED
    BY <2>1, <2>2, <2>3 DEF Admitted
<1>11. /\ Stage(i)' = recovery[i].next /\ Stage(i)' \in Rests
       /\ recovery'[i].emptied = recovery[i].emptied
  BY <1>t, <1>3 DEF RecoveryRecord, Stage
<1>12. WireOrdered(i)'
  <2>1. Unanswered(i)' = OnWire(<<>>, <<>>) /\ <<>> \in Seq(Commands)
    BY <1>6, <1>7, EmptySeq DEF Unanswered, OnWire
  <2>2. Unanswered(i)' = <<>>
    BY <2>1, OnlyRequests
  <2>3. recovery'[i].pc \notin {"capacity", "write"}
    BY <1>11 DEF Stage, Rests
  <2> QED
    BY <2>2, <2>3, OrderEmpty DEF WireOrdered
<1>13. DoorsOK(i)'
  BY <1>s, <1>t, <1>1, <1>11 DEF DoorsOK, Stage, Rests
<1>14. ASSUME NEW p \in Peers PROVE EntryOK(i, p)'
  <2>1. Has(i, p)' <=> Has(i, p)
    BY <1>t DEF Has
  <2>2. ~ToRestore(i, p) /\ ~ToPurge(i, p)
    BY <1>s, <1>9 DEF ToRestore, ToPurge
  <2>3. EntryOK(i, p)
    BY <1>t
  <2>4. Has(i, p) <=> p \in local[i]
    BY <1>9, <1>10, <2>2, <2>3 DEF EntryOK
  <2>5. Stage(i)' # "capacity"
    BY <1>11 DEF Rests
  <2> QED
    BY <1>t, <1>8, <1>9, <2>1, <2>4, <2>5 DEF EntryOK
<1> QED
  BY <1>12, <1>13, <1>14 DEF RoomOK

\* Where nothing is left to write, neither is anything to be restored or removed.
LEMMA NothingToWrite ==
    ASSUME NEW i \in Instances, NEW p \in Peers, Stage(i) \in {"notices", "say"}
    PROVE  ~ToRestore(i, p) /\ ~ToPurge(i, p)
BY DEF ToRestore, ToPurge

\* A recovery ends.
LEMMA RecoveredRoom ==
    ASSUME Typed, NEW i \in Instances, RoomOK(i), RecoveryStep(i),
           Stage(i) \in {"notices", "say"}, NEW n \in Nat, Recovered(i, n), SameWrites(i),
           OrderOK(i, Unanswered(i)', client, local[i], recovery[i])
    PROVE  RoomOK(i)'
<1>t. /\ redis' = redis /\ command' = command /\ subscriber' = subscriber
      /\ local' = local /\ client' = client /\ running' = running
      /\ command[i] /\ running[i]
      /\ recovery \in [Instances -> RecoveryRecord]
      /\ open \in [Instances -> BOOLEAN] /\ emptied \in [Instances -> BOOLEAN]
      /\ DoorsOK(i)
  BY RecoveryDoors
<1>1. /\ recovery'[i] = Idle /\ open'[i] = TRUE
      /\ emptied'[i] = (emptied[i] /\ ~recovery[i].emptied)
  BY <1>t DEF Recovered
<1>2. ~emptied'[i]
  BY <1>t, <1>1 DEF DoorsOK
<1>3. DoorsOK(i)'
  BY <1>t, <1>1, <1>2 DEF DoorsOK, Stage, Idle
<1>4. WireOrdered(i)'
  <2> DEFINE v == Unanswered(i)'
  <2>1. OrderOK(i, v, client, local[i], recovery[i])
    OBVIOUS
  <2> HIDE DEF v
  <2>2. recovery[i].pc \in {"notices", "say"} /\ Idle.pc = "idle"
    BY DEF Stage, Idle
  <2>3. OrderOK(i, v, client, local[i], Idle)
    BY <2>1, <2>2 DEF OrderOK
  <2> QED
    BY <1>t, <1>1, <2>3 DEF WireOrdered, v
<1>5. Stage(i)' # "capacity"
  BY <1>1 DEF Stage, Idle
<1> QED
  BY <1>t, <1>3, <1>4, <1>5, NothingToWrite, RoomKept

\* A recovery says a notice.
LEMMA SayRoom ==
    ASSUME Typed, NEW i \in Instances, RoomOK(i), RecoveryStep(i),
           Stage(i) \in {"notices", "say"}, NEW ns, NEW n, Say(i, ns, n), SameWrites(i),
           NEW u \in Seq(Commands), OrderOK(i, u, client, local[i], recovery[i]),
           Unanswered(i)' = Append(u, <<"announce", ns[n + 1]>>),
           <<"announce", ns[n + 1]>> \in Commands
    PROVE  RoomOK(i)'
<1>t. /\ redis' = redis /\ command' = command /\ subscriber' = subscriber
      /\ local' = local /\ client' = client /\ running' = running
      /\ command[i] /\ running[i] /\ ~open[i]
      /\ recovery \in [Instances -> RecoveryRecord]
      /\ DoorsOK(i)
  BY RecoveryDoors
<1>1. /\ open' = open /\ emptied' = emptied
      /\ recovery'[i].pc = "say" /\ recovery'[i].emptied = recovery[i].emptied
  BY <1>t DEF Say, pending, RecoveryRecord
<1>2. DoorsOK(i)'
  BY <1>t, <1>1 DEF DoorsOK, Stage, IsReady
<1>3. WireOrdered(i)'
  <2> DEFINE x == <<"announce", ns[n + 1]>>
  <2>1. recovery[i].pc \in {"notices", "say"}
    BY DEF Stage
  <2>2. OrderOK(i, u, client, local[i], recovery'[i])
    BY <1>1, <2>1 DEF OrderOK
  <2>3. \A k \in DOMAIN u : u[k] # <<"hgetall">>
    BY <2>1 DEF OrderOK
  <2>4. OrderOK(i, Append(u, x), client, local[i], recovery'[i])
    BY <1>1, <2>2, <2>3, OrderRequested
  <2> QED
    BY <1>t, <2>4 DEF WireOrdered
<1>4. Stage(i)' # "capacity"
  BY <1>1 DEF Stage
<1> QED
  BY <1>t, <1>2, <1>3, <1>4, NothingToWrite, RoomKept

\* What is to be said is copied, or there is nothing to say.
LEMMA ReplayNoticesRoom ==
    ASSUME Typed, NEW i \in Instances, RoomOK(i), RecoveryStep(i), ReplayNotices(i)
    PROVE  RoomOK(i)'
<1>s. Stage(i) = "notices"
  BY DEF ReplayNotices, Stage
<1>1. answers' = answers /\ 0 \in Nat
  BY DEF ReplayNotices
<1>2. /\ Unanswered(i) \in Seq(Commands)
      /\ OrderOK(i, Unanswered(i), client, local[i], recovery[i])
  BY UnansweredTyped DEF RoomOK, WireOrdered
<1>3. CASE unsaid[i] = <<>>
  <2>1. Recovered(i, 0) /\ requests' = requests
    BY <1>3 DEF ReplayNotices
  <2>2. SameWrites(i) /\ Unanswered(i)' = Unanswered(i)
    BY <1>1, <2>1, WireStill
  <2> QED
    BY <1>s, <1>1, <1>2, <2>1, <2>2, RecoveredRoom
<1>4. CASE unsaid[i] # <<>>
  <2> DEFINE ns == unsaid[i]
             x == <<"announce", ns[0 + 1]>>
  <2>1. Say(i, ns, 0)
    BY <1>4 DEF ReplayNotices
  <2>2. ns[0 + 1] \in Peers
    <3>1. unsaid[i] \in Seq(Peers)
      BY DEF Typed, TypeOK
    <3> QED
      BY <1>4, <3>1, EmptySeq, LenProperties, ElementOfSeq
  <2>3. x \in Commands
    BY <2>2 DEF Commands
  <2>4. Request(i, <<x>>)
    BY <2>1 DEF Say
  <2>5. SameWrites(i) /\ Unanswered(i)' = Append(Unanswered(i), x)
    BY <1>1, <2>3, <2>4, WireMore
  <2> HIDE DEF ns
  <2> QED
    BY <1>s, <1>2, <2>1, <2>3, <2>5, SayRoom
<1> QED
  BY <1>3, <1>4

\* A notice was said.
LEMMA SaidRoom ==
    ASSUME Typed, NEW i \in Instances, RoomOK(i), RecoveryStep(i), Said(i)
    PROVE  RoomOK(i)'
<1> DEFINE ns == recovery[i].batch
           said == recovery[i].said + 1
           u == Unanswered(i)
<1>s. Stage(i) = "say" /\ answers[i] # <<>> /\ Take(i)
      /\ Head(answers[i]).to = <<"announce", ns[said]>>
  BY DEF Said, Stage, Answered
<1>1. /\ u \in Seq(Commands) /\ u # <<>> /\ Tail(u) \in Seq(Commands)
      /\ OrderOK(i, u, client, local[i], recovery[i])
      /\ OrderOK(i, Tail(u), client, local[i], recovery[i])
  <2>1. u \in Seq(Commands) /\ OrderOK(i, u, client, local[i], recovery[i])
    BY UnansweredTyped DEF RoomOK, WireOrdered
  <2>2. u # <<>>
    BY <1>s, TakenOne
  <2>3. recovery[i].pc \notin {"capacity", "write"}
    BY <1>s DEF Stage
  <2> HIDE DEF u
  <2>4. OrderOK(i, Tail(u), client, local[i], recovery[i]) /\ Tail(u) \in Seq(Commands)
    BY <2>1, <2>2, <2>3, OrderTaken, HeadTailProperties
  <2> QED
    BY <2>1, <2>2, <2>4
<1>2. /\ recovery[i].said \in Nat /\ ns \in Seq(Peers) /\ recovery[i].said < Len(ns)
  BY <1>s DEF Typed, RecoveryOK, RecoveryRecord, Stage
<1>3. \A p \in Peers : Head(answers[i]).to # <<"join", p>>
  BY <1>s
<1>4. CASE said = Len(ns)
  <2>1. Recovered(i, said) /\ requests' = requests
    BY <1>4 DEF Said
  <2>2. SameWrites(i) /\ Unanswered(i)' = Tail(u)
    BY <1>s, <1>3, <2>1, WireLess
  <2>3. said \in Nat
    BY <1>2
  <2> HIDE DEF u, said
  <2> QED
    BY <1>s, <1>1, <2>1, <2>2, <2>3, RecoveredRoom
<1>5. CASE said # Len(ns)
  <2> DEFINE x == <<"announce", ns[said + 1]>>
  <2>1. Say(i, ns, said)
    BY <1>5 DEF Said
  <2>2. x \in Commands
    <3>1. Len(ns) \in Nat /\ said + 1 \in 1..Len(ns)
      BY <1>2, <1>5, LenProperties
    <3>2. ns[said + 1] \in Peers
      BY <1>2, <3>1, ElementOfSeq
    <3> QED
      BY <3>2 DEF Commands
  <2>3. Request(i, <<x>>)
    BY <2>1 DEF Say
  <2>4. SameWrites(i) /\ Unanswered(i)' = Append(Tail(u), x)
    BY <1>s, <1>3, <2>2, <2>3, WirePassed
  <2> HIDE DEF u, ns, said
  <2> QED
    BY <1>s, <1>1, <2>1, <2>2, <2>4, SayRoom
<1> QED
  BY <1>4, <1>5

-----------------------------------------------------------------------------
\* Joins and leaves.

\* Nothing recovers while the doors are open.
LEMMA OpenDoors ==
    ASSUME Typed, NEW i \in Instances, RoomOK(i), IsReady(i)
    PROVE  /\ command[i] /\ running[i] /\ ~emptied[i]
           /\ recovery[i].pc = "idle" /\ Stage(i) = "idle"
           /\ \A p \in Peers : ~ToRestore(i, p) /\ ~ToPurge(i, p)
           /\ \A p \in Peers : p \in local[i] => Has(i, p)
           /\ Unanswered(i) \in Seq(Commands)
           /\ OrderOK(i, Unanswered(i), client, local[i], recovery[i])
           /\ \A k \in DOMAIN Unanswered(i) : Unanswered(i)[k] # <<"hgetall">>
<1>1. DoorsOK(i) /\ WireOrdered(i) /\ \A p \in Peers : EntryOK(i, p)
  BY DEF RoomOK
<1>2. command[i] /\ running[i] /\ ~emptied[i] /\ recovery[i] = Idle
  BY <1>1 DEF DoorsOK, IsReady, Ready, Typed, WireOK
<1>3. recovery[i].pc = "idle" /\ Stage(i) = "idle"
  BY <1>2 DEF Idle, Stage
<1>4. \A p \in Peers : ~ToRestore(i, p) /\ ~ToPurge(i, p)
  BY DEF ToRestore, ToPurge
<1>5. \A p \in Peers : p \in local[i] => Has(i, p)
  BY <1>1, <1>4 DEF EntryOK
<1> DEFINE u == Unanswered(i)
<1>6. u \in Seq(Commands) /\ OrderOK(i, u, client, local[i], recovery[i])
  BY <1>1, UnansweredTyped DEF WireOrdered
<1> HIDE DEF u
<1>7. \A k \in DOMAIN u : u[k] # <<"hgetall">>
  BY <1>3, <1>6 DEF OrderOK
<1> QED
  BY <1>2, <1>3, <1>4, <1>5, <1>6, <1>7 DEF u

\* A peer asks to be let in.
LEMMA JoinRoomOf ==
    ASSUME Typed, NEW i \in Instances, RoomOK(i), NEW r \in Peers, Join(r, i)
    PROVE  RoomOK(i)'
<1> DEFINE x == <<"join", r>>
           u == Unanswered(i)
<1>1. /\ redis' = redis /\ command' = command /\ subscriber' = subscriber /\ answers' = answers
      /\ local' = local /\ open' = open /\ emptied' = emptied /\ recovery' = recovery
      /\ running' = running
      /\ client' = [client EXCEPT ![r] = [pc |-> "joining", at |-> i]]
      /\ client[r] = Out /\ Request(i, <<x>>) /\ IsReady(i)
  BY DEF Join, pending
<1>2. x \in Commands /\ x[1] \notin {"leave", "hset", "hdel"}
  BY DEF Commands
<1>3. /\ command[i] /\ recovery[i].pc = "idle"
      /\ \A p \in Peers : ~ToRestore(i, p) /\ ~ToPurge(i, p)
      /\ u \in Seq(Commands) /\ OrderOK(i, u, client, local[i], recovery[i])
      /\ \A k \in DOMAIN u : u[k] # <<"hgetall">>
  BY <1>1, OpenDoors
<1>4. SameWrites(i) /\ Unanswered(i)' = Append(u, x)
  BY <1>1, <1>2, WireMore
<1>5. client \in [Peers -> [pc : {"out", "joining", "in"}, at : Instances \cup {NoInstance}]]
  BY DEF Typed, TypeOK
<1>6. WireOrdered(i)'
  <2> HIDE DEF u
  <2>1. \A p \in Peers : client[p] = [pc |-> "joining", at |-> i] =>
                             client'[p] = [pc |-> "joining", at |-> i]
    BY <1>1, <1>5
  <2>2. OrderOK(i, u, client', local[i], recovery[i])
    BY <1>3, <2>1 DEF OrderOK
  <2>3. \A k \in DOMAIN u : u[k] # <<"join", r>>
    BY <1>1, <1>3 DEF OrderOK, Out
  <2>4. client'[r] = [pc |-> "joining", at |-> i]
    BY <1>1, <1>5
  <2>5. \A p \in Peers :
            /\ x = <<"join", p>> => /\ client'[p] = [pc |-> "joining", at |-> i]
                                    /\ \A k \in DOMAIN u : u[k] # <<"join", p>>
            /\ x \notin {<<"leave", p>>, <<"hset", p>>, <<"hdel", p>>}
            /\ x # <<"hgetall">>
    BY <2>3, <2>4
  <2>6. x # <<"hgetall">>
    OBVIOUS
  <2> HIDE DEF x
  <2>7. OrderOK(i, Append(u, x), client', local[i], recovery[i])
    BY <1>2, <1>3, <2>2, <2>5, <2>6, OrderRequested
  <2> QED
    BY <1>1, <1>4, <2>7 DEF WireOrdered, u
<1>7. DoorsOK(i)'
  BY <1>1, <1>3 DEF RoomOK, DoorsOK, Stage, IsReady, Ready
<1>8. Stage(i)' # "capacity"
  BY <1>1, <1>3 DEF Stage
<1> QED
  BY <1>1, <1>3, <1>4, <1>6, <1>7, <1>8, RoomKept

\* A peer was let in, or was not.
LEMMA JoinedRoom ==
    ASSUME Typed, NEW i \in Instances, RoomOK(i), NEW r \in Peers, Joined(r, i), ~raced'
    PROVE  RoomOK(i)'
<1> DEFINE u == Unanswered(i)
           v == Tail(u)
<1>1. /\ redis' = redis /\ command' = command /\ subscriber' = subscriber /\ requests' = requests
      /\ open' = open /\ emptied' = emptied /\ recovery' = recovery
      /\ running' = running /\ IsReady(i) /\ IsReady(i)' /\ Take(i)
      /\ client[r] = [pc |-> "joining", at |-> i]
      /\ answers[i] # <<>> /\ Head(answers[i]).to = <<"join", r>>
  BY DEF Joined, pending, Answered, IsReady, Ready
<1>2. /\ command[i] /\ running[i] /\ ~emptied[i] /\ recovery[i].pc = "idle" /\ Stage(i) = "idle"
      /\ \A p \in Peers : ~ToRestore(i, p) /\ ~ToPurge(i, p)
      /\ \A p \in Peers : p \in local[i] => Has(i, p)
      /\ u \in Seq(Commands) /\ OrderOK(i, u, client, local[i], recovery[i])
      /\ \A k \in DOMAIN u : u[k] # <<"hgetall">>
  BY <1>1, OpenDoors
<1>3. /\ Unanswered(i)' = v /\ u # <<>> /\ 1 \in DOMAIN u /\ u[1] = <<"join", r>>
      /\ \A k \in DOMAIN answers'[i] : k + 1 \in DOMAIN answers[i] /\ answers'[i][k] = answers[i][k + 1]
      /\ \A p \in Peers : Admitted(i, p)' => Admitted(i, p)
      /\ \A p \in Peers :
             \/ Head(answers[i]).to # <<"join", p>>
             \/ JoinVerdict(Answer(i), p, MaxPeers) # "joined"
             => (Admitted(i, p) => Admitted(i, p)')
      /\ \A c : Pending(i, c)' <=> Pending(i, c)
  BY <1>1, TakenOne
<1>4. /\ client \in [Peers -> [pc : {"out", "joining", "in"}, at : Instances \cup {NoInstance}]]
      /\ local \in [Instances -> SUBSET Peers] /\ answers \in [Instances -> Seq(Replies)]
      /\ local[i] = {p \in Peers : client[p] = [pc |-> "in", at |-> i]}
      /\ \A p \in Peers : EntryOK(i, p)
  BY DEF Typed, TypeOK, Replies, RoomOK
<1>5. /\ v \in Seq(Commands)
      /\ \A k \in DOMAIN v : k + 1 \in DOMAIN u /\ v[k] = u[k + 1] /\ k + 1 # 1
      /\ OrderOK(i, v, client, local[i], recovery[i])
  <2> HIDE DEF u
  <2>1. /\ Len(u) \in Nat /\ DOMAIN u = 1..Len(u)
        /\ v \in Seq(Commands) /\ Len(v) = Len(u) - 1 /\ DOMAIN v = 1..Len(u) - 1
        /\ \A k \in 1..Len(u) - 1 : v[k] = u[k + 1]
    <3>1. v \in Seq(Commands) /\ Len(v) = Len(u) - 1 /\ \A k \in 1..Len(u) - 1 : v[k] = u[k + 1]
      BY <1>2, <1>3, HeadTailProperties
    <3> HIDE DEF v
    <3> QED
      BY <1>2, <3>1, LenProperties
  <2>2. OrderOK(i, v, client, local[i], recovery[i])
    BY <1>2, <1>3, OrderTaken
  <2> QED
    BY <2>1, <2>2
<1>6. \A k \in DOMAIN v : v[k] # <<"join", r>> /\ v[k] # <<"leave", r>>
  <2> TAKE k \in DOMAIN v
  <2> HIDE DEF u
  <2>1. k + 1 \in DOMAIN u /\ v[k] = u[k + 1] /\ k + 1 # 1 /\ k + 1 \in Nat /\ ~(k + 1 < 1)
    BY <1>2, <1>5, LenProperties
  <2>2. u[k + 1] # <<"join", r>>
    BY <1>2, <1>3, <2>1 DEF OrderOK, Once
  <2>3. u[k + 1] # <<"leave", r>>
    BY <1>2, <1>3, <2>1 DEF OrderOK
  <2> QED
    BY <2>1, <2>2, <2>3
<1>7. \A k \in DOMAIN answers'[i] : answers'[i][k].to # <<"hgetall">>
  <2>1. \A k \in DOMAIN answers[i] : answers[i][k].to # <<"hgetall">>
    BY <1>2, InFlight DEF RoomOK
  <2> QED
    BY <1>3, <2>1
<1>8. ASSUME NEW p \in Peers
      PROVE  ~Pending(i, <<"hset", p>>)' /\ ~Pending(i, <<"hdel", p>>)'
  BY <1>2, <1>3, InFlight DEF RoomOK
<1>9. ~Pending(i, <<"leave", r>>)'
  <2>1. \A k \in DOMAIN requests'[i] :
            \E l \in DOMAIN v : v[l] = requests'[i][k]
    <3> DEFINE a == answers'[i]
               q == requests'[i]
    <3>1. a \in Seq(Replies) /\ q \in Seq(Commands) /\ v = OnWire(a, q)
      <4>1. v = OnWire(a, q)
        BY <1>3 DEF Unanswered, OnWire
      <4>2. q \in Seq(Commands)
        BY <1>1 DEF Typed, TypeOK
      <4>3. answers' \in [Instances -> Seq(Replies)]
        BY <1>1, Taken DEF Answered
      <4> QED
        BY <4>1, <4>2, <4>3
    <3> HIDE DEF a, q, v
    <3>2. /\ Len(a) \in Nat /\ Len(q) \in Nat /\ DOMAIN q = 1..Len(q)
          /\ DOMAIN v = 1..(Len(a) + Len(q))
          /\ \A k \in 1..(Len(a) + Len(q)) : v[k] = IF k <= Len(a) THEN a[k].to ELSE q[k - Len(a)]
      BY <3>1, WireElements, LenProperties
    <3>3. ASSUME NEW k \in DOMAIN q PROVE Len(a) + k \in DOMAIN v /\ v[Len(a) + k] = q[k]
      <4>1. /\ Len(a) + k \in 1..(Len(a) + Len(q)) /\ ~(Len(a) + k <= Len(a))
            /\ (Len(a) + k) - Len(a) = k
        BY <3>2
      <4> QED
        BY <3>2, <4>1
    <3> QED
      BY <3>3 DEF q
  <2> QED
    BY <1>6, <2>1 DEF Pending
<1>d. DoorsOK(i)
  BY DEF RoomOK
<1>10. CASE JoinVerdict(Answer(i), r, MaxPeers) = "joined"
  <2>1. /\ local' = [local EXCEPT ![i] = @ \cup {r}]
        /\ client' = [client EXCEPT ![r].pc = "in"]
    BY <1>10 DEF Joined
  <2>2. /\ local'[i] = local[i] \cup {r}
        /\ \A p \in Peers \ {r} : client'[p] = client[p]
    BY <1>4, <2>1
  <2>3. Admitted(i, r)
    <3>1. Answer(i) = Head(answers[i]).room
      BY DEF Answer
    <3>2. 1 \in DOMAIN answers[i] /\ Head(answers[i]) = answers[i][1]
      <4> DEFINE a == answers[i]
      <4>1. a \in Seq(Replies) /\ a # <<>>
        BY <1>1, <1>4
      <4> HIDE DEF a
      <4>2. 1 \in DOMAIN a /\ Head(a) = a[1]
        BY <4>1, LenProperties, EmptySeq, HeadTailProperties
      <4> QED
        BY <4>2 DEF a
    <3> QED
      BY <1>1, <1>10, <3>1, <3>2 DEF Admitted
  <2>4. Has(i, r)
    BY <1>4, <2>3 DEF EntryOK
  <2>5. WireOrdered(i)'
    <3> HIDE DEF v
    <3>1. OrderOK(i, v, client', local'[i], recovery'[i])
      BY <1>1, <1>5, <1>6, <2>2 DEF OrderOK
    <3> QED
      BY <1>3, <3>1 DEF WireOrdered
  <2>6. DoorsOK(i)'
    BY <1>1, <1>2, <1>d DEF DoorsOK, Stage, IsReady, Ready
  <2>7. ASSUME NEW p \in Peers PROVE EntryOK(i, p)'
    <3>1. /\ Has(i, p)' <=> Has(i, p)
          /\ Stage(i)' = "idle"
      BY <1>1, <1>2 DEF Has, Stage
    <3>2. EntryOK(i, p)
      BY <1>4
    <3>3. CASE p = r
      BY <1>3, <1>7, <1>8, <1>9, <2>2, <2>4, <3>1, <3>2, <3>3 DEF EntryOK
    <3>4. CASE p # r
      <4>1. /\ p \in local'[i] <=> p \in local[i]
            /\ Admitted(i, p)' <=> Admitted(i, p)
        BY <1>1, <1>3, <2>2, <3>4
      <4>2. /\ p \in local[i] => Has(i, p)
            /\ Has(i, p) /\ p \notin local[i] => Pending(i, <<"leave", p>>) \/ Admitted(i, p)
        BY <1>2, <3>2 DEF EntryOK
      <4> QED
        BY <1>1, <1>2, <1>3, <1>7, <1>8, <3>1, <3>2, <4>1, <4>2 DEF EntryOK
    <3> QED
      BY <3>3, <3>4
  <2> QED
    BY <2>5, <2>6, <2>7 DEF RoomOK
<1>11. CASE JoinVerdict(Answer(i), r, MaxPeers) # "joined"
  <2>1. local' = local /\ client' = [client EXCEPT ![r] = Out]
    BY <1>11 DEF Joined
  <2>2. \A p \in Peers \ {r} : client'[p] = client[p]
    BY <1>4, <2>1
  <2>3. WireOrdered(i)'
    <3> HIDE DEF v
    <3>1. OrderOK(i, v, client', local'[i], recovery'[i])
      BY <1>1, <1>5, <1>6, <2>1, <2>2 DEF OrderOK
    <3> QED
      BY <1>3, <3>1 DEF WireOrdered
  <2>4. DoorsOK(i)'
    BY <1>1, <1>2, <1>d, <2>1 DEF DoorsOK, Stage, IsReady, Ready
  <2>5. \A p \in Peers : \/ Head(answers[i]).to # <<"join", p>>
                         \/ JoinVerdict(Answer(i), p, MaxPeers) # "joined"
    BY <1>1, <1>11
  <2>6. SameWrites(i)
    BY <1>1, <2>5, WireLess
  <2>7. Stage(i)' # "capacity"
    BY <1>1, <1>2 DEF Stage
  <2> QED
    BY <1>1, <1>2, <2>1, <2>3, <2>4, <2>6, <2>7, RoomKept
<1> QED
  BY <1>10, <1>11

\* A peer leaves: Redis is told, or a recovery will see to it.
LEMMA LeaveRoomOf ==
    ASSUME Typed, NEW i \in Instances, RoomOK(i), NEW r \in Peers, Leave(r, i), ~raced'
    PROVE  RoomOK(i)'
<1> DEFINE u == Unanswered(i)
           x == <<"leave", r>>
<1>1. /\ redis' = redis /\ command' = command /\ subscriber' = subscriber /\ answers' = answers
      /\ open' = open /\ recovery' = recovery /\ running' = running
      /\ client[r] = [pc |-> "in", at |-> i]
      /\ client' = [client EXCEPT ![r] = Out] /\ local' = [local EXCEPT ![i] = @ \ {r}]
      /\ recovery[i].pc \in {"idle", "rooms"}
      /\ IsReady(i)' = IsReady(i)
  BY DEF Leave, RemoveLocalPeer, IsReady, Ready
<1>2. /\ client \in [Peers -> [pc : {"out", "joining", "in"}, at : Instances \cup {NoInstance}]]
      /\ local \in [Instances -> SUBSET Peers] /\ emptied \in [Instances -> BOOLEAN]
      /\ local[i] = {p \in Peers : client[p] = [pc |-> "in", at |-> i]}
      /\ DoorsOK(i) /\ WireOrdered(i) /\ \A p \in Peers : EntryOK(i, p)
  BY DEF Typed, TypeOK, RoomOK
<1>3. /\ r \in local[i] /\ local'[i] = local[i] \ {r}
      /\ \A p \in Peers : client[p] = [pc |-> "joining", at |-> i] =>
                              client'[p] = [pc |-> "joining", at |-> i]
  BY <1>1, <1>2
<1>4. u \in Seq(Commands) /\ OrderOK(i, u, client, local[i], recovery[i])
  BY <1>2, UnansweredTyped DEF WireOrdered
<1>5. /\ OrderOK(i, u, client', local'[i], recovery[i])
      /\ \A k \in DOMAIN u : u[k] \notin {<<"leave", r>>, <<"join", r>>, <<"hgetall">>}
  <2> HIDE DEF u
  <2>1. OrderOK(i, u, client', local'[i], recovery[i])
    BY <1>1, <1>3, <1>4 DEF OrderOK
  <2>2. \A k \in DOMAIN u : u[k] # <<"leave", r>>
    BY <1>3, <1>4 DEF OrderOK
  <2>3. \A k \in DOMAIN u : u[k] # <<"join", r>>
    BY <1>1, <1>4 DEF OrderOK
  <2>4. \A k \in DOMAIN u : u[k] # <<"hgetall">>
    BY <1>1, <1>4 DEF OrderOK
  <2> QED
    BY <2>1, <2>2, <2>3, <2>4
<1>6. ASSUME NEW p \in Peers
      PROVE  /\ ~Pending(i, <<"hset", p>>) /\ ~Pending(i, <<"hdel", p>>)
             /\ ~Pending(i, <<"leave", r>>)
             /\ Admitted(i, p)' <=> Admitted(i, p)
             /\ Has(i, p)' <=> Has(i, p)
  <2>1. ~Pending(i, <<"hset", p>>) /\ ~Pending(i, <<"hdel", p>>)
    BY <1>1, <1>2, InFlight DEF Stage
  <2>2. ~Pending(i, <<"leave", r>>)
    BY <1>2, <1>3, InFlight
  <2>3. Admitted(i, p)' <=> Admitted(i, p)
    BY <1>1 DEF Admitted, JoinVerdict, CapacityFor, Members
  <2> QED
    BY <1>1, <2>1, <2>2, <2>3 DEF Has
<1>7. \A k \in DOMAIN answers'[i] : answers'[i][k].to # <<"hgetall">>
  BY <1>1, <1>2, InFlight DEF Stage
<1>8. Stage(i)' = Stage(i) /\ Stage(i) \in {"idle", "rooms"}
  BY <1>1 DEF Stage
<1>9. running[i]
  BY <1>2, <1>3 DEF DoorsOK
<1>10. CASE IsReady(i)
  <2>1. /\ emptied' = [emptied EXCEPT ![i] = FALSE] /\ Request(i, <<x>>)
    BY <1>10 DEF Leave
  <2>2. x \in Commands
    BY DEF Commands
  <2>3. /\ \A c : Pending(i, c)' <=> Pending(i, c) \/ c = x
        /\ Unanswered(i)' = Append(u, x)
    BY <1>1, <2>1, <2>2, RequestedOne
  <2>4. /\ command[i] /\ recovery[i].pc = "idle"
        /\ \A p \in Peers : ~ToRestore(i, p) /\ ~ToPurge(i, p)
        /\ \A p \in Peers : p \in local[i] => Has(i, p)
    BY <1>10, OpenDoors
  <2>5. WireOrdered(i)'
    <3> HIDE DEF u
    <3>1. \A p \in Peers :
              /\ x = <<"leave", p>> =>
                    /\ p \notin local'[i]
                    /\ \A k \in DOMAIN u : u[k] \notin {<<"leave", p>>, <<"join", p>>}
              /\ x \notin {<<"join", p>>, <<"hset", p>>, <<"hdel", p>>}
      BY <1>3, <1>5
    <3>2. \A k \in DOMAIN u : u[k] # <<"hgetall">>
      BY <1>5
    <3>3. x # <<"hgetall">>
      OBVIOUS
    <3> HIDE DEF x
    <3>4. OrderOK(i, Append(u, x), client', local'[i], recovery[i])
      BY <1>4, <1>5, <2>2, <2>4, <3>1, <3>2, <3>3, OrderRequested
    <3> QED
      BY <1>1, <2>3, <3>4 DEF WireOrdered, u
  <2>6. DoorsOK(i)'
    BY <1>1, <1>2, <1>8, <1>9, <2>1, <2>4 DEF DoorsOK, Stage
  <2>7. ASSUME NEW p \in Peers PROVE EntryOK(i, p)'
    <3>1. EntryOK(i, p)
      BY <1>2
    <3>2. /\ ~Pending(i, <<"hset", p>>)' /\ ~Pending(i, <<"hdel", p>>)'
          /\ Pending(i, <<"leave", p>>)' <=> Pending(i, <<"leave", p>>) \/ p = r
      BY <1>6, <2>3
    <3>3. p \in local'[i] <=> p \in local[i] /\ p # r
      BY <1>3
    <3> QED
      BY <1>1, <1>3, <1>6, <1>7, <1>8, <1>9, <2>4, <3>1, <3>2, <3>3 DEF EntryOK
  <2> QED
    BY <2>5, <2>6, <2>7 DEF RoomOK
<1>11. CASE ~IsReady(i)
  <2>1. /\ emptied' = [emptied EXCEPT ![i] = @ \/ local'[i] = {}] /\ requests' = requests
    BY <1>11 DEF Leave, NoteIfEmpty
  <2>2. emptied'[i] <=> local'[i] = {}
    <3>1. ~emptied[i]
      BY <1>2, <1>3 DEF DoorsOK
    <3> QED
      BY <1>2, <2>1, <3>1
  <2>3. Unanswered(i)' = u /\ WriteInFlight(i)' = WriteInFlight(i) /\ SameWrites(i)
    BY <1>1, <2>1, WireStill
  <2>4. WireOrdered(i)'
    <3> HIDE DEF u
    <3> QED
      BY <1>1, <1>5, <2>3 DEF WireOrdered
  <2>5. DoorsOK(i)'
    BY <1>1, <1>2, <1>8, <1>9, <1>11, <2>2, <2>3 DEF DoorsOK, Stage
  <2>6. ASSUME NEW p \in Peers PROVE EntryOK(i, p)'
    <3>1. EntryOK(i, p)
      BY <1>2
    <3>2. /\ ~Pending(i, <<"hset", p>>)' /\ ~Pending(i, <<"hdel", p>>)'
          /\ Pending(i, <<"leave", p>>)' <=> Pending(i, <<"leave", p>>)
      BY <1>6, <2>3 DEF SameWrites
    <3>3. p \in local'[i] <=> p \in local[i] /\ p # r
      BY <1>3
    <3>4. ToPurge(i, p)' /\ ToRestore(i, p)'
      BY <1>1, <1>8, <1>11, <2>2 DEF ToPurge, ToRestore
    <3>5. redis' = redis
      BY <1>1
    <3> QED
      BY <1>1, <1>3, <1>6, <1>7, <1>8, <1>9, <3>1, <3>2, <3>3, <3>4, <3>5 DEF EntryOK
  <2> QED
    BY <2>4, <2>5, <2>6 DEF RoomOK
<1> QED
  BY <1>10, <1>11

\* An answer is taken that is no admission, and nothing else happens.
LEMMA AnsweredRoom ==
    ASSUME Typed, NEW i \in Instances, RoomOK(i), Take(i), answers[i] # <<>>,
           NEW p \in Peers, NEW name \in {"leave", "publish"}, Head(answers[i]).to = <<name, p>>,
           UNCHANGED <<redis, command, subscriber, requests, local, open, emptied, recovery,
                       client, running>>
    PROVE  RoomOK(i)'
<1> DEFINE u == Unanswered(i)
<1>1. \A q \in Peers : Head(answers[i]).to # <<"join", q>>
  OBVIOUS
<1>2. SameWrites(i) /\ Unanswered(i)' = Tail(u)
  BY <1>1, WireLess
<1>3. 1 \in DOMAIN u /\ u[1] = <<name, p>> /\ u # <<>> /\ u \in Seq(Commands)
  BY OldestOnWire, TakenOne, UnansweredTyped
<1>4. DoorsOK(i) /\ WireOrdered(i)
  BY DEF RoomOK
<1>5. Stage(i) \notin {"capacity", "write"}
  <2>1. /\ Stage(i) = "capacity" => <<name, p>> = <<"get">>
        /\ Stage(i) = "write" => <<name, p>> \in Pipeline
    BY <1>3, <1>4, AloneOnWire
  <2>2. <<name, p>> # <<"get">> /\ <<name, p>> \notin Pipeline
    BY DEF Pipeline
  <2> QED
    BY <2>1, <2>2
<1>6. WireOrdered(i)'
  <2>1. OrderOK(i, u, client, local[i], recovery[i])
    BY <1>4 DEF WireOrdered
  <2>2. recovery[i].pc \notin {"capacity", "write"}
    BY <1>5 DEF Stage
  <2> HIDE DEF u
  <2>3. OrderOK(i, Tail(u), client, local[i], recovery[i])
    BY <1>3, <2>1, <2>2, OrderTaken
  <2> QED
    BY <1>2, <2>3 DEF WireOrdered
<1>7. command[i]
  BY DEF Typed, WireOK
<1>8. DoorsOK(i)'
  BY <1>4, <1>7 DEF DoorsOK, Stage, IsReady, Ready
<1>9. \A q \in Peers : /\ ToRestore(i, q)' <=> ToRestore(i, q)
                       /\ ToPurge(i, q)' <=> ToPurge(i, q)
  <2>1. \A q \in Peers : /\ Pending(i, <<"hset", q>>)' <=> Pending(i, <<"hset", q>>)
                         /\ Pending(i, <<"hdel", q>>)' <=> Pending(i, <<"hdel", q>>)
    BY <1>2 DEF SameWrites
  <2> QED
    BY <2>1 DEF ToRestore, ToPurge, Stage, IsReady, Ready
<1>10. Stage(i)' # "capacity"
  BY <1>5 DEF Stage
<1> QED
  BY <1>2, <1>6, <1>8, <1>9, <1>10, RoomKept

\* That a peer left is published now, or kept for later.
LEMMA PublishRoom ==
    ASSUME Typed, NEW i \in Instances, RoomOK(i), NEW r \in Peers, Publish(r, i)
    PROVE  RoomOK(i)'
<1> DEFINE u == Unanswered(i)
           x == <<"publish", r>>
<1>1. UNCHANGED <<redis, command, subscriber, answers, local, open, emptied, recovery,
                  client, running>>
  BY DEF Publish
<1>2. DoorsOK(i) /\ WireOrdered(i)
  BY DEF RoomOK
<1>3. CASE IsReady(i)
  <2>1. Request(i, <<x>>) /\ x \in Commands /\ x[1] \notin {"leave", "hset", "hdel"}
    BY <1>3 DEF Publish, Commands
  <2>2. SameWrites(i) /\ Unanswered(i)' = Append(u, x)
    BY <1>1, <2>1, WireMore
  <2>3. /\ command[i] /\ recovery[i].pc = "idle" /\ Stage(i) = "idle"
        /\ \A p \in Peers : ~ToRestore(i, p) /\ ~ToPurge(i, p)
        /\ u \in Seq(Commands) /\ OrderOK(i, u, client, local[i], recovery[i])
        /\ \A k \in DOMAIN u : u[k] # <<"hgetall">>
    BY <1>3, OpenDoors
  <2>4. WireOrdered(i)'
    <3>1. \A p \in Peers : x \notin {<<"join", p>>, <<"leave", p>>, <<"hset", p>>, <<"hdel", p>>}
      OBVIOUS
    <3>2. x # <<"hgetall">>
      OBVIOUS
    <3> HIDE DEF u, x
    <3>3. OrderOK(i, Append(u, x), client, local[i], recovery[i])
      BY <2>1, <2>3, <3>1, <3>2, OrderRequested
    <3> QED
      BY <1>1, <2>2, <3>3 DEF WireOrdered
  <2>5. DoorsOK(i)'
    BY <1>1, <1>2, <2>3 DEF DoorsOK, Stage, IsReady, Ready
  <2>6. Stage(i)' # "capacity"
    BY <1>1, <2>3 DEF Stage
  <2> QED
    BY <1>1, <2>2, <2>3, <2>4, <2>5, <2>6, RoomKept
<1>4. CASE ~IsReady(i)
  <2>1. requests' = requests
    BY <1>4 DEF Publish
  <2>2. \A p \in Peers : redis'.peers[p] = i <=> redis.peers[p] = i
    BY <1>1
  <2>3. Apart(i)
    BY <1>1, <2>1 DEF Apart
  <2> QED
    BY <2>3, OtherRoom
<1> QED
  BY <1>3, <1>4

\* A relay stops that has told Redis all: nothing of it stays there.
LEMMA StopRoom ==
    ASSUME Typed, NEW i \in Instances, RoomOK(i), Stop(i), ~raced'
    PROVE  RoomOK(i)'
<1>1. IsReady(i) /\ ~WriteInFlight(i) /\ \A p \in Peers : client[p] # [pc |-> "in", at |-> i]
  BY DEF Stop
<1>2. /\ requests \in [Instances -> Seq(Commands)] /\ answers \in [Instances -> Seq(Replies)]
      /\ {open, emptied, running, command} \subseteq [Instances -> BOOLEAN]
      /\ recovery \in [Instances -> RecoveryRecord]
      /\ local[i] = {p \in Peers : client[p] = [pc |-> "in", at |-> i]}
      /\ WireOrdered(i) /\ \A p \in Peers : EntryOK(i, p)
  BY DEF Typed, TypeOK, Replies, RecoveryOK, RoomOK
<1>3. local[i] = {}
  BY <1>1, <1>2
<1>4. /\ redis' = redis /\ local' = local /\ ~command'[i] /\ ~open'[i] /\ ~emptied'[i] /\ ~running'[i]
      /\ requests'[i] = <<>> /\ answers'[i] = <<>> /\ recovery'[i] = Idle
  BY <1>2 DEF Stop
<1>5. ASSUME NEW p \in Peers PROVE ~Has(i, p)
  <2>1. ~ToPurge(i, p)
    BY <1>1 DEF ToPurge
  <2>2. ~Admitted(i, p) /\ ~Pending(i, <<"leave", p>>)
    BY <1>1, <1>2, InFlight
  <2>3. EntryOK(i, p)
    BY <1>2
  <2> QED
    BY <1>3, <2>1, <2>2, <2>3 DEF EntryOK
<1>6. Unanswered(i)' = <<>>
  <2>1. Unanswered(i)' = OnWire(<<>>, <<>>) /\ <<>> \in Seq(Commands)
    BY <1>4, EmptySeq DEF Unanswered, OnWire
  <2> QED
    BY <2>1, OnlyRequests
<1>7. Stage(i)' = "idle" /\ ~IsReady(i)'
  BY <1>4 DEF Stage, Idle, IsReady, Ready
<1>8. WireOrdered(i)'
  <2>1. recovery'[i].pc \notin {"capacity", "write"}
    BY <1>7 DEF Stage
  <2> QED
    BY <1>6, <2>1, OrderEmpty DEF WireOrdered
<1>9. DoorsOK(i)'
  <2>1. ~WriteInFlight(i)'
    BY <1>6, EmptySeq DEF WriteInFlight
  <2> QED
    BY <1>3, <1>4, <1>7, <2>1 DEF DoorsOK, Stage
<1>10. ASSUME NEW p \in Peers PROVE EntryOK(i, p)'
  <2>1. DOMAIN requests'[i] = {} /\ DOMAIN answers'[i] = {}
    BY <1>4, EmptySeq
  <2>2. \A c : ~Pending(i, c)'
    BY <2>1 DEF Pending
  <2>3. ~Admitted(i, p)'
    BY <2>1 DEF Admitted
  <2>4. ~Has(i, p)'
    BY <1>4, <1>5 DEF Has
  <2> QED
    BY <1>3, <1>4, <1>7, <2>1, <2>2, <2>3, <2>4 DEF EntryOK
<1> QED
  BY <1>8, <1>9, <1>10 DEF RoomOK

\* A relay starts that Redis has nothing of.
LEMMA StartRoom ==
    ASSUME Typed, NEW i \in Instances, RoomOK(i), Start(i)
    PROVE  RoomOK(i)'
<1>1. /\ redis' = redis /\ requests' = requests /\ answers' = answers /\ local' = local
      /\ open' = open /\ emptied' = emptied /\ ~running[i]
      /\ client' = client
  BY DEF Start, pending
<1>2. /\ {running, command} \subseteq [Instances -> BOOLEAN]
      /\ recovery \in [Instances -> RecoveryRecord]
      /\ DoorsOK(i) /\ WireOrdered(i) /\ \A p \in Peers : EntryOK(i, p)
  BY DEF Typed, TypeOK, RecoveryOK, RoomOK
<1>3. /\ ~open[i] /\ ~emptied[i] /\ local[i] = {}
      /\ requests[i] = <<>> /\ answers[i] = <<>> /\ recovery[i] = Idle
  BY <1>1, <1>2 DEF DoorsOK, Typed, WireOK
<1>4. /\ command'[i] /\ running'[i] /\ Stage(i)' = "rooms" /\ ~IsReady(i)'
  BY <1>1, <1>2, <1>3 DEF Start, Stage, IsReady, Ready
<1>5. Unanswered(i)' = <<>>
  <2>1. Unanswered(i)' = OnWire(<<>>, <<>>) /\ <<>> \in Seq(Commands)
    BY <1>1, <1>3, EmptySeq DEF Unanswered, OnWire
  <2> QED
    BY <2>1, OnlyRequests
<1>6. WireOrdered(i)'
  <2>1. recovery'[i].pc \notin {"capacity", "write"}
    BY <1>4 DEF Stage
  <2> QED
    BY <1>5, <2>1, OrderEmpty DEF WireOrdered
<1>7. DoorsOK(i)'
  BY <1>1, <1>3, <1>4 DEF DoorsOK, Stage
<1>8. ASSUME NEW p \in Peers PROVE EntryOK(i, p)'
  <2>1. DOMAIN requests'[i] = {} /\ DOMAIN answers'[i] = {}
    BY <1>1, <1>3, EmptySeq
  <2>2. \A c : ~Pending(i, c)'
    BY <2>1 DEF Pending
  <2>3. ~Admitted(i, p)'
    BY <2>1 DEF Admitted
  <2>4. EntryOK(i, p)
    BY <1>2
  <2>5. ~Has(i, p)'
    <3>1. ~Has(i, p)
      BY <1>1, <1>3, <2>4 DEF EntryOK
    <3> QED
      BY <1>1, <3>1 DEF Has
  <2> QED
    BY <1>1, <1>3, <1>4, <2>1, <2>2, <2>3, <2>5 DEF EntryOK
<1> QED
  BY <1>6, <1>7, <1>8 DEF RoomOK

-----------------------------------------------------------------------------
\* Redis runs the oldest request.

\* What is then on the wire, requested and admitted.
LEMMA ExecutedWire ==
    ASSUME Typed, NEW i \in Instances, Execute(i)
    PROVE  LET c == Head(requests[i])
           IN  /\ c \in Commands /\ Pending(i, c) /\ Unanswered(i)' = Unanswered(i)
               /\ Len(answers[i]) + 1 \in DOMAIN Unanswered(i)
               /\ Unanswered(i)[Len(answers[i]) + 1] = c
               /\ \A x : /\ Pending(i, x)' => Pending(i, x)
                         /\ Pending(i, x) /\ x # c => Pending(i, x)'
               /\ \A x : Pending(i, x)' =>
                      \E k \in DOMAIN Unanswered(i) : k # Len(answers[i]) + 1 /\ Unanswered(i)[k] = x
               /\ \A k \in DOMAIN answers'[i] :
                      \/ k \in DOMAIN answers[i] /\ answers'[i][k] = answers[i][k]
                      \/ answers'[i][k] = [to |-> c, room |-> redis]
               /\ \A p \in Peers : Admitted(i, p)' <=>
                      Admitted(i, p) \/ (c = <<"join", p>> /\ JoinVerdict(redis, p, MaxPeers) = "joined")
               /\ \A j \in Instances \ {i} : requests'[j] = requests[j] /\ answers'[j] = answers[j]
<1> DEFINE a == answers[i]
           q == requests[i]
           u == Unanswered(i)
           c == Head(q)
           b == answers'[i]
           r == requests'[i]
           new == [to |-> c, room |-> redis]
<1>1. /\ a \in Seq(Replies) /\ q \in Seq(Commands) /\ redis \in RedisRoom
      /\ requests \in [Instances -> Seq(Commands)] /\ answers \in [Instances -> Seq(Replies)]
  BY DEF Typed, TypeOK, Replies
<1>2. /\ q # <<>> /\ b = Append(a, new) /\ r = Tail(q)
      /\ \A j \in Instances \ {i} : requests'[j] = requests[j] /\ answers'[j] = answers[j]
  BY <1>1 DEF Execute
<1>3. u = OnWire(a, q) /\ Unanswered(i)' = OnWire(b, r)
  BY DEF Unanswered, OnWire
<1>4. /\ Len(a) \in Nat /\ DOMAIN a = 1..Len(a) /\ Len(q) \in Nat /\ DOMAIN q = 1..Len(q)
      /\ DOMAIN u = 1..Len(a) + Len(q)
      /\ \A k \in DOMAIN q : u[Len(a) + k] = q[k]
  BY OnTheWire
<1>5. \A x : (Pending(i, x) <=> \E k \in DOMAIN q : q[k] = x)
  BY DEF Pending
<1>6. \A x : (Pending(i, x)' <=> \E k \in DOMAIN r : r[k] = x)
  BY DEF Pending
<1>7. \A p : Admitted(i, p) <=>
          \E k \in DOMAIN a : a[k].to = <<"join", p>> /\ JoinVerdict(a[k].room, p, MaxPeers) = "joined"
  BY DEF Admitted
<1>8. \A p : Admitted(i, p)' <=>
          \E k \in DOMAIN b : b[k].to = <<"join", p>> /\ JoinVerdict(b[k].room, p, MaxPeers) = "joined"
  BY DEF Admitted, JoinVerdict, CapacityFor, Members
<1>9. new.to = c /\ new.room = redis
  OBVIOUS
<1> HIDE DEF a, q, u, b, r
<1>10. Unanswered(i)' = u
  BY <1>1, <1>2, <1>3, WireExecuted
<1>11. /\ Len(q) >= 1 /\ c \in Commands /\ c = q[1]
       /\ r \in Seq(Commands) /\ Len(r) = Len(q) - 1 /\ DOMAIN r = 1..Len(q) - 1
       /\ \A k \in 1..Len(q) - 1 : r[k] = q[k + 1]
  BY <1>1, <1>2, <1>4, LenProperties, HeadTailProperties, EmptySeq
<1>12. new \in Replies
  BY <1>1, <1>11 DEF Replies
<1> HIDE DEF new, c
<1>13. /\ b \in Seq(Replies) /\ DOMAIN b = 1..Len(a) + 1
       /\ \A k \in 1..Len(a) : b[k] = a[k]
       /\ b[Len(a) + 1] = new
  BY <1>1, <1>2, <1>4, <1>12, AppendProperties, LenProperties
<1>14. 1 \in DOMAIN q /\ Len(a) + 1 \in DOMAIN u /\ u[Len(a) + 1] = c
  BY <1>4, <1>11
<1>15. Pending(i, c)
  BY <1>5, <1>11, <1>14
<1>16. \A k \in DOMAIN r : k + 1 \in DOMAIN q /\ r[k] = q[k + 1]
  BY <1>4, <1>11
<1>17. \A k \in DOMAIN q : k = 1 \/ (k - 1 \in DOMAIN r /\ r[k - 1] = q[k])
  BY <1>4, <1>11
<1>18. ASSUME NEW x
       PROVE  /\ Pending(i, x)' => Pending(i, x)
              /\ Pending(i, x) /\ x # c => Pending(i, x)'
  <2>1. Pending(i, x)' => Pending(i, x)
    BY <1>5, <1>6, <1>16
  <2>2. Pending(i, x) /\ x # c => Pending(i, x)'
    BY <1>5, <1>6, <1>11, <1>17
  <2> QED
    BY <2>1, <2>2
<1>19. ASSUME NEW x, Pending(i, x)'
       PROVE  \E k \in DOMAIN u : k # Len(a) + 1 /\ u[k] = x
  <2>1. PICK k \in DOMAIN r : r[k] = x
    BY <1>6, <1>19
  <2>2. k + 1 \in DOMAIN q /\ q[k + 1] = x /\ k \in Nat \ {0}
    BY <1>11, <1>16, <2>1
  <2>3. Len(a) + (k + 1) \in DOMAIN u /\ Len(a) + (k + 1) # Len(a) + 1
    BY <1>4, <2>2
  <2>4. u[Len(a) + (k + 1)] = x
    BY <1>4, <2>2
  <2> QED
    BY <2>3, <2>4
<1>20. \A k \in DOMAIN b : (k \in DOMAIN a /\ b[k] = a[k]) \/ b[k] = new
  BY <1>4, <1>13
<1>21. \A k \in DOMAIN a : k \in DOMAIN b /\ b[k] = a[k]
  BY <1>4, <1>13
<1>22. Len(a) + 1 \in DOMAIN b
  BY <1>4, <1>13
<1>23. ASSUME NEW p \in Peers
       PROVE  Admitted(i, p)' <=>
                  Admitted(i, p) \/ (c = <<"join", p>> /\ JoinVerdict(redis, p, MaxPeers) = "joined")
  <2>1. Admitted(i, p) => Admitted(i, p)'
    BY <1>7, <1>8, <1>21
  <2>2. c = <<"join", p>> /\ JoinVerdict(redis, p, MaxPeers) = "joined" => Admitted(i, p)'
    BY <1>8, <1>9, <1>13, <1>22
  <2>3. Admitted(i, p)' =>
            Admitted(i, p) \/ (c = <<"join", p>> /\ JoinVerdict(redis, p, MaxPeers) = "joined")
    BY <1>7, <1>8, <1>9, <1>20
  <2> QED
    BY <2>1, <2>2, <2>3
<1> QED
  BY <1>2, <1>10, <1>11, <1>14, <1>15, <1>18, <1>19, <1>20, <1>23 DEF a, q, u, b, r, c, new

\* The oldest request is in order with what else is on the wire.
LEMMA HeadInOrder ==
    ASSUME Typed, NEW i \in Instances, WireOrdered(i), Execute(i), NEW p \in Peers
    PROVE  LET c == Head(requests[i])
           IN  /\ c = <<"join", p>> => client[p] = [pc |-> "joining", at |-> i]
               /\ c = <<"leave", p>> => ~Pending(i, <<"leave", p>>)' /\ ~Admitted(i, p)
                                        /\ ~Pending(i, <<"hdel", p>>)
               /\ c = <<"hdel", p>> => ~Pending(i, <<"hdel", p>>)' /\ ~Admitted(i, p)
                                       /\ ~Pending(i, <<"leave", p>>)
               /\ Stage(i) = "capacity" => c = <<"get">>
               /\ \A k \in DOMAIN answers[i] : answers[i][k].to # <<"hgetall">>
<1> DEFINE c == Head(requests[i])
           u == Unanswered(i)
           n == Len(answers[i])
           a == answers[i]
<1>1. /\ n + 1 \in DOMAIN u /\ u[n + 1] = c
      /\ \A x : Pending(i, x)' => \E k \in DOMAIN u : k # n + 1 /\ u[k] = x
  BY ExecutedWire
<1>2. /\ n \in Nat /\ DOMAIN a = 1..n /\ Len(u) \in Nat /\ DOMAIN u = 1..Len(u)
      /\ \A k \in DOMAIN a : u[k] = a[k].to
  BY OnTheWire, LenProperties
<1>3. OrderOK(i, u, client, local[i], recovery[i])
  BY DEF WireOrdered
<1>4. \A x : Pending(i, x) => \E k \in DOMAIN u : u[k] = x
  BY InFlight
<1>5. \A k \in DOMAIN u : Stage(i) = "capacity" => u[k] = <<"get">>
  BY AloneOnWire
<1>6. \A k \in DOMAIN u : Stage(i) = "write" => u[k] \in Pipeline
  BY AloneOnWire
<1>7. Admitted(i, p) => \E k \in DOMAIN a : a[k].to = <<"join", p>>
  BY DEF Admitted
<1> DEFINE held == Admitted(i, p)
<1> HIDE DEF c, u, n, a, held
<1>8. \A k \in DOMAIN a : k \in DOMAIN u /\ k <= n /\ u[k] = a[k].to
  <2>1. n + 1 \in 1..Len(u)
    BY <1>1, <1>2
  <2> QED
    BY <1>2, <2>1
<1>9. c = <<"join", p>> => client[p] = [pc |-> "joining", at |-> i]
  BY <1>1, <1>3 DEF OrderOK
<1>10. held => \E k \in DOMAIN u : k <= n /\ k \in Nat /\ u[k] = <<"join", p>>
  <2>1. \A k \in DOMAIN u : k \in Nat
    BY <1>2
  <2> QED
    BY <1>7, <1>8, <2>1 DEF held
<1>11. <<"join", p>> \notin Pipeline /\ <<"leave", p>> \notin Pipeline
  BY DEF Pipeline
<1>12. ASSUME c = <<"leave", p>>
       PROVE  ~Pending(i, <<"leave", p>>)' /\ ~held /\ ~Pending(i, <<"hdel", p>>)
  <2>1. ~Pending(i, <<"leave", p>>)'
    BY <1>1, <1>3, <1>12 DEF OrderOK, Once
  <2>2. \A k \in DOMAIN u : u[k] = <<"join", p>> => n + 1 < k
    BY <1>1, <1>3, <1>12 DEF OrderOK
  <2>3. ~held
    BY <1>2, <1>10, <2>2
  <2>4. Stage(i) # "write"
    BY <1>1, <1>6, <1>11, <1>12
  <2>5. ~Pending(i, <<"hdel", p>>)
    BY <2>4, InFlight
  <2> QED
    BY <2>1, <2>3, <2>5
<1>13. ASSUME c = <<"hdel", p>>
       PROVE  ~Pending(i, <<"hdel", p>>)' /\ ~held /\ ~Pending(i, <<"leave", p>>)
  <2>1. ~Pending(i, <<"hdel", p>>)'
    BY <1>1, <1>3, <1>13 DEF OrderOK, Once
  <2>2. Stage(i) = "write"
    BY <1>1, <1>3, <1>13 DEF OrderOK, Stage
  <2>3. ~held
    BY <1>6, <1>10, <1>11, <2>2
  <2>4. ~Pending(i, <<"leave", p>>)
    BY <1>4, <1>6, <1>11, <2>2
  <2> QED
    BY <2>1, <2>3, <2>4
<1>14. Stage(i) = "capacity" => c = <<"get">>
  BY <1>1, <1>5
<1>15. ASSUME NEW k \in DOMAIN a PROVE a[k].to # <<"hgetall">>
  <2>1. k \in DOMAIN u /\ k <= n /\ u[k] = a[k].to
    BY <1>8
  <2>2. u[k] = <<"hgetall">> => k = Len(u)
    BY <1>3, <2>1 DEF OrderOK
  <2>3. n + 1 <= Len(u) /\ k \in Nat
    BY <1>1, <1>2, <2>1
  <2>4. k # Len(u)
    BY <1>2, <2>1, <2>3
  <2> QED
    BY <2>1, <2>2, <2>4
<1> QED
  BY <1>9, <1>12, <1>13, <1>14, <1>15 DEF c, a, held

\* What a command that is run was to do, and to whose entry.
LEMMA HeadIsDue ==
    ASSUME Typed, NEW i \in Instances, RoomOK(i), Execute(i), NEW p \in Peers
    PROVE  LET c == Head(requests[i])
           IN  /\ c = <<"join", p>> => p \notin local[i]
               /\ c = <<"leave", p>> => Has(i, p) /\ p \notin local[i]
               /\ c = <<"hset", p>> => p \in local[i]
               /\ c = <<"hdel", p>> => Has(i, p) /\ p \notin local[i]
<1>1. Pending(i, Head(requests[i]))
  BY ExecutedWire
<1>2. EntryOK(i, p) /\ WireOrdered(i)
  BY DEF RoomOK
<1>3. local[i] = {r \in Peers : client[r] = [pc |-> "in", at |-> i]}
  BY DEF Typed, TypeOK
<1>4. ASSUME Head(requests[i]) = <<"join", p>> PROVE p \notin local[i]
  <2>1. client[p] = [pc |-> "joining", at |-> i]
    BY <1>2, <1>4, HeadInOrder
  <2>2. client[p].pc = "joining"
    BY <2>1
  <2> QED
    BY <1>3, <2>2
<1>5. Pending(i, <<"leave", p>>) => Has(i, p) /\ p \notin local[i]
  BY <1>2, InFlight DEF EntryOK
<1> QED
  BY <1>1, <1>2, <1>4, <1>5 DEF EntryOK

\* What it does to the entry of a peer.
LEMMA ExecutedEntries ==
    ASSUME Typed, NEW i \in Instances, Execute(i), NEW p \in Peers
    PROVE  LET c == Head(requests[i])
           IN  redis'.peers[p] =
                   IF \/ c = <<"join", p>> /\ JoinVerdict(redis, p, MaxPeers) = "joined"
                      \/ c = <<"hset", p>>
                   THEN i
                   ELSE IF c \in {<<"leave", p>>, <<"hdel", p>>} THEN NoInstance
                   ELSE redis.peers[p]
<1> DEFINE c == Head(requests[i])
<1>1. redis' = Ran(i, c) /\ redis \in RedisRoom
  BY DEF Execute, Typed, TypeOK
<1>2. c \in Commands
  BY ExecutedWire
<1> HIDE DEF c
<1>3. Ran(i, c).peers[p] =
          IF \/ c = <<"join", p>> /\ JoinVerdict(redis, p, MaxPeers) = "joined"
             \/ c = <<"hset", p>>
          THEN i
          ELSE IF c \in {<<"leave", p>>, <<"hdel", p>>} THEN NoInstance
          ELSE redis.peers[p]
  BY <1>1, <1>2, RanEntries
<1> QED
  BY <1>1, <1>3 DEF c

\* What it is to its instance: who is admitted, restored or gone is so at once.
LEMMA ExecuteRoom ==
    ASSUME Typed, NEW i \in Instances, RoomOK(i), Execute(i)
    PROVE  RoomOK(i)'
<1> DEFINE c == Head(requests[i])
           u == Unanswered(i)
<1>1. /\ command' = command /\ subscriber' = subscriber /\ local' = local /\ open' = open
      /\ emptied' = emptied /\ recovery' = recovery /\ client' = client /\ running' = running
      /\ command[i] /\ requests[i] # <<>>
  BY DEF Execute, pending
<1>2. running[i]
  BY <1>1 DEF Typed, WireOK
<1>3. DoorsOK(i) /\ WireOrdered(i)
  BY DEF RoomOK
<1>4. c \in Commands /\ Unanswered(i)' = u
  BY ExecutedWire
<1>5. DoorsOK(i)'
  <2>1. WriteInFlight(i)' <=> WriteInFlight(i)
    BY <1>4 DEF WriteInFlight
  <2> QED
    BY <1>1, <1>3, <2>1 DEF DoorsOK, Stage, IsReady, Ready
<1>6. WireOrdered(i)'
  BY <1>1, <1>3, <1>4 DEF WireOrdered
<1>7. ASSUME NEW p \in Peers PROVE EntryOK(i, p)'
  <2> DEFINE joined == c = <<"join", p>> /\ JoinVerdict(redis, p, MaxPeers) = "joined"
  <2>e. EntryOK(i, p)
    BY DEF RoomOK
  <2>1. redis'.peers[p] = IF joined \/ c = <<"hset", p>> THEN i
                          ELSE IF c \in {<<"leave", p>>, <<"hdel", p>>} THEN NoInstance
                          ELSE redis.peers[p]
    BY ExecutedEntries
  <2>2. /\ \A x : Pending(i, x)' => Pending(i, x)
        /\ \A x : Pending(i, x) /\ x # c => Pending(i, x)'
        /\ Admitted(i, p)' <=> Admitted(i, p) \/ joined
        /\ \A k \in DOMAIN answers'[i] :
               \/ k \in DOMAIN answers[i] /\ answers'[i][k] = answers[i][k]
               \/ answers'[i][k] = [to |-> c, room |-> redis]
    BY ExecutedWire
  <2>3. /\ c = <<"join", p>> => p \notin local[i]
        /\ c = <<"leave", p>> => Has(i, p) /\ p \notin local[i]
        /\ c = <<"hset", p>> => p \in local[i]
        /\ c = <<"hdel", p>> => Has(i, p) /\ p \notin local[i]
    BY HeadIsDue
  <2>4. /\ c = <<"leave", p>> => ~Pending(i, <<"leave", p>>)' /\ ~Admitted(i, p)
                                 /\ ~Pending(i, <<"hdel", p>>)
        /\ c = <<"hdel", p>> => ~Pending(i, <<"hdel", p>>)' /\ ~Admitted(i, p)
                                /\ ~Pending(i, <<"leave", p>>)
        /\ Stage(i) = "capacity" => c = <<"get">>
        /\ \A k \in DOMAIN answers[i] : answers[i][k].to # <<"hgetall">>
    BY <1>3, HeadInOrder
  <2>5. /\ Stage(i)' = Stage(i) /\ IsReady(i)' = IsReady(i)
        /\ \A x : InBatch(i, x)' <=> InBatch(i, x)
    BY <1>1 DEF Stage, IsReady, Ready, InBatch
  <2> HIDE DEF c
  <2>6. /\ joined => Has(i, p)' /\ p \notin local[i]
        /\ c = <<"hset", p>> => Has(i, p)' /\ p \in local[i]
        /\ c \in {<<"leave", p>>, <<"hdel", p>>} =>
               ~Has(i, p)' /\ Has(i, p) /\ p \notin local[i] /\ redis'.peers[p] = NoInstance
        /\ ~joined /\ c \notin {<<"hset", p>>, <<"leave", p>>, <<"hdel", p>>} =>
               (Has(i, p)' <=> Has(i, p)) /\ redis'.peers[p] = redis.peers[p]
    <3>1. c = <<"leave", p>> => c # <<"hset", p>> /\ ~joined
      OBVIOUS
    <3>2. c = <<"hdel", p>> => c # <<"hset", p>> /\ ~joined
      OBVIOUS
    <3> HIDE DEF joined
    <3>3. joined => Has(i, p)' /\ p \notin local[i]
      BY <2>1, <2>3 DEF Has, joined
    <3>4. c = <<"hset", p>> => Has(i, p)' /\ p \in local[i]
      BY <2>1, <2>3 DEF Has
    <3>5. c \in {<<"leave", p>>, <<"hdel", p>>} =>
              ~Has(i, p)' /\ Has(i, p) /\ p \notin local[i] /\ redis'.peers[p] = NoInstance
      BY <2>1, <2>3, <3>1, <3>2, NoInstanceIsNone DEF Has
    <3>6. ~joined /\ c \notin {<<"hset", p>>, <<"leave", p>>, <<"hdel", p>>} =>
              (Has(i, p)' <=> Has(i, p)) /\ redis'.peers[p] = redis.peers[p]
      BY <2>1 DEF Has
    <3> QED
      BY <3>3, <3>4, <3>5, <3>6
  <2> HIDE DEF joined
  <2>7. p \in local'[i] =>
            Has(i, p)' \/ (redis'.peers[p] = NoInstance /\ ToRestore(i, p)')
    <3>1. CASE c = <<"hset", p>> \/ joined
      BY <2>6, <3>1
    <3>2. CASE c # <<"hset", p>> /\ ~joined
      <4>1. Pending(i, <<"hset", p>>)' <=> Pending(i, <<"hset", p>>)
        BY <2>2, <3>2
      <4>2. ToRestore(i, p)' <=> ToRestore(i, p)
        BY <2>5, <4>1 DEF ToRestore
      <4> QED
        BY <1>1, <2>e, <2>6, <3>2, <4>2 DEF EntryOK
    <3> QED
      BY <3>1, <3>2
  <2>8. Pending(i, <<"leave", p>>)' => Has(i, p)'
    <3>1. Pending(i, <<"leave", p>>)' => Pending(i, <<"leave", p>>) /\ Has(i, p)
      BY <2>2, <2>e DEF EntryOK
    <3> QED
      BY <2>4, <2>6, <3>1
  <2>9. Pending(i, <<"hset", p>>)' => p \in local'[i]
    BY <1>1, <2>2, <2>e DEF EntryOK
  <2>10. Pending(i, <<"hdel", p>>)' => Has(i, p)' /\ p \notin local'[i]
    <3>1. Pending(i, <<"hdel", p>>)' => Pending(i, <<"hdel", p>>) /\ Has(i, p) /\ p \notin local[i]
      BY <2>2, <2>e DEF EntryOK
    <3> QED
      BY <1>1, <2>4, <2>6, <3>1
  <2>11. Stage(i)' = "capacity" =>
             /\ InBatch(i, <<"hdel", p>>)' <=> (Has(i, p)' /\ p \notin local'[i])
             /\ InBatch(i, <<"hset", p>>)' <=> (p \in local'[i])
    <3> SUFFICES ASSUME Stage(i) = "capacity"
                 PROVE  /\ InBatch(i, <<"hdel", p>>)' <=> (Has(i, p)' /\ p \notin local'[i])
                        /\ InBatch(i, <<"hset", p>>)' <=> (p \in local'[i])
      BY <2>5
    <3>1. c = <<"get">>
      BY <2>4
    <3>2. c \notin {<<"hset", p>>, <<"leave", p>>, <<"hdel", p>>} /\ ~joined
      BY <3>1 DEF joined
    <3>3. Has(i, p)' <=> Has(i, p)
      BY <2>6, <3>2
    <3> QED
      BY <1>1, <2>e, <2>5, <3>3 DEF EntryOK
  <2>12. Admitted(i, p)' => Has(i, p)'
    <3>1. Admitted(i, p) => Has(i, p)
      BY <2>e DEF EntryOK
    <3> QED
      BY <2>2, <2>4, <2>6, <3>1
  <2>13. ASSUME NEW k \in DOMAIN answers'[i], answers'[i][k].to = <<"hgetall">>
         PROVE  answers'[i][k].room.peers[p] = i <=> Has(i, p)'
    <3>1. answers'[i][k] = [to |-> c, room |-> redis]
      BY <2>2, <2>4, <2>13
    <3>2. c = <<"hgetall">>
      BY <2>13, <3>1
    <3>3. c \notin {<<"hset", p>>, <<"leave", p>>, <<"hdel", p>>} /\ ~joined
      BY <3>2 DEF joined
    <3>4. answers'[i][k].room.peers[p] = redis.peers[p]
      BY <3>1
    <3> QED
      BY <2>6, <3>3, <3>4 DEF Has
  <2>14. ASSUME Has(i, p)', p \notin local'[i]
         PROVE  running'[i] /\ (Pending(i, <<"leave", p>>)' \/ Admitted(i, p)' \/ ToPurge(i, p)')
    <3>1. CASE joined
      BY <1>1, <1>2, <2>2, <3>1
    <3>2. CASE ~joined
      <4>1. c \notin {<<"hset", p>>, <<"leave", p>>, <<"hdel", p>>}
        BY <1>1, <2>6, <2>14
      <4>2. Has(i, p) /\ p \notin local[i]
        BY <1>1, <2>6, <2>14, <3>2, <4>1
      <4>3. Pending(i, <<"leave", p>>) \/ Admitted(i, p) \/ ToPurge(i, p)
        BY <2>e, <4>2 DEF EntryOK
      <4>4. /\ Pending(i, <<"leave", p>>) => Pending(i, <<"leave", p>>)'
            /\ Pending(i, <<"hdel", p>>) => Pending(i, <<"hdel", p>>)'
        BY <2>2, <4>1
      <4>5. ToPurge(i, p) => ToPurge(i, p)'
        BY <1>1, <2>5, <4>4 DEF ToPurge
      <4> QED
        BY <1>1, <1>2, <2>2, <4>3, <4>4, <4>5
    <3> QED
      BY <3>1, <3>2
  <2> QED
    BY <2>7, <2>8, <2>9, <2>10, <2>11, <2>12, <2>13, <2>14 DEF EntryOK
<1> QED
  BY <1>5, <1>6, <1>7 DEF RoomOK

\* What it is to the others: no entry of theirs is written.
LEMMA ExecuteApart ==
    ASSUME Typed, NEW i \in Instances, RoomOK(i), Execute(i), NEW j \in Instances \ {i}
    PROVE  Apart(j)
<1> DEFINE c == Head(requests[i])
<1>1. /\ command' = command /\ subscriber' = subscriber /\ local' = local /\ open' = open
      /\ emptied' = emptied /\ recovery' = recovery /\ client' = client /\ running' = running
  BY DEF Execute, pending
<1>2. c \in Commands /\ requests'[j] = requests[j] /\ answers'[j] = answers[j]
  BY ExecutedWire
<1>3. ASSUME NEW p \in Peers
      PROVE  /\ redis'.peers[p] = j <=> redis.peers[p] = j
             /\ p \in local[j] /\ redis.peers[p] = NoInstance => redis'.peers[p] = NoInstance
  <2>1. redis'.peers[p] = IF \/ c = <<"join", p>> /\ JoinVerdict(redis, p, MaxPeers) = "joined"
                             \/ c = <<"hset", p>>
                          THEN i
                          ELSE IF c \in {<<"leave", p>>, <<"hdel", p>>} THEN NoInstance
                          ELSE redis.peers[p]
    BY ExecutedEntries
  <2>2. /\ c = <<"leave", p>> => Has(i, p)
        /\ c = <<"hset", p>> => p \in local[i]
        /\ c = <<"hdel", p>> => Has(i, p)
    BY HeadIsDue
  <2>3. c = <<"join", p>> => client[p] = [pc |-> "joining", at |-> i]
    BY HeadInOrder DEF RoomOK
  <2>4. /\ local[i] = {r \in Peers : client[r] = [pc |-> "in", at |-> i]}
        /\ local[j] = {r \in Peers : client[r] = [pc |-> "in", at |-> j]}
    BY DEF Typed, TypeOK
  <2>5. p \in local[i] => p \notin local[j]
    <3>1. [pc |-> "in", at |-> i].at = i /\ [pc |-> "in", at |-> j].at = j
      OBVIOUS
    <3> QED
      BY <2>4, <3>1
  <2>6. c = <<"join", p>> => p \notin local[j]
    <3>1. [pc |-> "joining", at |-> i].pc = "joining" /\ [pc |-> "in", at |-> j].pc = "in"
      OBVIOUS
    <3> QED
      BY <2>3, <2>4, <3>1
  <2>7. p \in local[i] => redis.peers[p] \in {i, NoInstance}
    BY DEF RoomOK, EntryOK, Has
  <2> HIDE DEF c
  <2>8. CASE c = <<"join", p>> /\ JoinVerdict(redis, p, MaxPeers) = "joined"
    <3>1. redis.peers[p] = NoInstance /\ redis'.peers[p] = i
      BY <2>1, <2>8, AdmittedWasAbsent
    <3> QED
      BY <2>6, <2>8, <3>1, NoInstanceIsNone
  <2>9. CASE c = <<"hset", p>>
    <3>1. redis.peers[p] \in {i, NoInstance} /\ redis'.peers[p] = i /\ p \notin local[j]
      BY <2>1, <2>2, <2>5, <2>7, <2>9
    <3> QED
      BY <3>1, NoInstanceIsNone
  <2>10. CASE c \in {<<"leave", p>>, <<"hdel", p>>}
    <3>1. redis.peers[p] = i
      BY <2>2, <2>10 DEF Has
    <3>2. redis'.peers[p] = NoInstance
      BY <2>1, <2>10
    <3> QED
      BY <3>1, <3>2, NoInstanceIsNone
  <2>11. CASE redis'.peers[p] = redis.peers[p]
    BY <2>11
  <2> QED
    BY <2>1, <2>8, <2>9, <2>10, <2>11
<1> QED
  BY <1>1, <1>2, <1>3 DEF Apart

-----------------------------------------------------------------------------
\* Every step.

\* That a change of the room met an outage is not forgotten.
LEMMA RacedStays == [Next]_vars /\ raced => raced'
<1> SUFFICES ASSUME [Next]_vars, raced PROVE raced'
  OBVIOUS
<1>1. CASE UNCHANGED vars
  BY <1>1 DEF vars
<1>2. CASE Restart
  BY <1>2 DEF Restart
<1>3. ASSUME NEW i \in Instances, Execute(i) \/ Break(i) \/ GiveUp(i) \/ Reconnect(i) PROVE raced'
  BY <1>3 DEF Execute, Break, GiveUp, Reconnect, history
<1>4. ASSUME NEW i \in Instances, RecoveryStep(i) \/ Stop(i) \/ Start(i) PROVE raced'
  BY <1>4 DEF RecoveryStep, Stop, Start, history
<1>5. ASSUME NEW i \in Instances, NEW p \in Peers, Join(p, i) \/ Leave(p, i) PROVE raced'
  BY <1>5 DEF Join, Leave, history
<1>6. ASSUME NEW i \in Instances, NEW p \in Peers, HandlerStep(p, i) PROVE raced'
  BY <1>6 DEF HandlerStep, Joined, Left, Publish, Published, history
<1> QED
  BY <1>1, <1>2, <1>3, <1>4, <1>5, <1>6 DEF Next

\* A step of an instance that does not change the room is nothing to the others.
LEMMA LocalStepApart ==
    ASSUME Typed, NEW i \in Instances, NEW j \in Instances \ {i},
           \/ Break(i) \/ GiveUp(i) \/ Reconnect(i) \/ RecoveryStep(i) \/ Stop(i) \/ Start(i)
           \/ \E p \in Peers : Join(p, i) \/ Leave(p, i) \/ HandlerStep(p, i)
    PROVE  Apart(j)
<1>t. /\ command \in [Instances -> BOOLEAN] /\ subscriber \in [Instances -> BOOLEAN]
      /\ open \in [Instances -> BOOLEAN] /\ emptied \in [Instances -> BOOLEAN]
      /\ running \in [Instances -> BOOLEAN]
      /\ requests \in [Instances -> Seq(Commands)] /\ answers \in [Instances -> Seq(Replies)]
      /\ local \in [Instances -> SUBSET Peers] /\ recovery \in [Instances -> RecoveryRecord]
      /\ client \in [Peers -> [pc : {"out", "joining", "in"}, at : Instances \cup {NoInstance}]]
  BY DEF Typed, TypeOK, RecoveryOK, Replies
<1> DEFINE joiningAtJ == [pc |-> "joining", at |-> j]
<1>j. /\ joiningAtJ # Out /\ joiningAtJ # [pc |-> "joining", at |-> i]
      /\ joiningAtJ # [pc |-> "in", at |-> i]
  <2>1. /\ joiningAtJ.pc = "joining" /\ joiningAtJ.at = j /\ Out.pc = "out"
        /\ [pc |-> "joining", at |-> i].at = i /\ [pc |-> "in", at |-> i].pc = "in"
    BY DEF Out
  <2> QED
    BY <2>1
<1> HIDE DEF joiningAtJ
<1>1. ASSUME redis' = redis,
             command'[j] = command[j], subscriber'[j] = subscriber[j],
             open'[j] = open[j], emptied'[j] = emptied[j], running'[j] = running[j],
             local'[j] = local[j], recovery'[j] = recovery[j],
             requests'[j] = requests[j], answers'[j] = answers[j],
             \A p \in Peers : client[p] = joiningAtJ => client'[p] = client[p]
      PROVE  Apart(j)
  BY <1>1 DEF Apart, joiningAtJ
<1>2. CASE Break(i)
  <2>1. open'[j] = open[j] /\ requests'[j] = requests[j] /\ answers'[j] = answers[j]
    BY <1>t, <1>2 DEF Break, Lost
  <2> QED
    BY <1>t, <1>1, <1>2, <2>1 DEF Break, pending
<1>3. CASE GiveUp(i)
  <2>1. recovery'[j] = recovery[j] /\ open'[j] = open[j] /\ emptied'[j] = emptied[j]
    BY <1>t, <1>3 DEF GiveUp, Recovered, RecoveryFails, pending
  <2>2. requests'[j] = requests[j]
    BY <1>t, <1>3 DEF GiveUp
  <2>3. \A p \in Peers : client[p] = joiningAtJ => client'[p] = client[p]
    BY <1>j, <1>3 DEF GiveUp
  <2> QED
    BY <1>1, <1>3, <2>1, <2>2, <2>3 DEF GiveUp
<1>4. CASE Reconnect(i)
  BY <1>t, <1>1, <1>4 DEF Reconnect, pending
<1>5. CASE RecoveryStep(i)
  <2>1. CASE SyncRooms(i) \/ SyncEmpties(i)
    BY <1>t, <1>1, <1>5, <2>1 DEF RecoveryStep, SyncRooms, SyncEmpties, Sync, Request
  <2>2. CASE ReadRoom(i)
    <3>1. recovery'[j] = recovery[j] /\ requests'[j] = requests[j]
      BY <1>t, <2>2 DEF ReadRoom, Request
    <3>2. answers'[j] = answers[j]
      BY <1>t, <2>2 DEF ReadRoom, Take
    <3> QED
      BY <1>1, <1>5, <2>2, <3>1, <3>2 DEF RecoveryStep, ReadRoom
  <2>3. CASE ReadCapacity(i)
    <3>1. recovery'[j] = recovery[j] /\ requests'[j] = requests[j]
      BY <1>t, <2>3 DEF ReadCapacity, Request
    <3>2. answers'[j] = answers[j]
      BY <1>t, <2>3 DEF ReadCapacity, Take
    <3> QED
      BY <1>1, <1>5, <2>3, <3>1, <3>2 DEF RecoveryStep, ReadCapacity
  <2>4. CASE Written(i)
    BY <1>t, <1>1, <1>5, <2>4 DEF RecoveryStep, Written
  <2>5. CASE ReplayNotices(i)
    BY <1>t, <1>1, <1>5, <2>5 DEF RecoveryStep, ReplayNotices, Recovered, Say, Request, pending
  <2>6. CASE Said(i)
    <3>1. answers'[j] = answers[j]
      BY <1>t, <2>6 DEF Said, Take
    <3>2. /\ recovery'[j] = recovery[j] /\ requests'[j] = requests[j]
          /\ open'[j] = open[j] /\ emptied'[j] = emptied[j]
      BY <1>t, <2>6 DEF Said, Recovered, Say, Request, pending
    <3> QED
      BY <1>1, <1>5, <3>1, <3>2 DEF RecoveryStep
  <2> QED
    BY <1>5, <2>1, <2>2, <2>3, <2>4, <2>5, <2>6 DEF RecoveryStep
<1>6. CASE Stop(i)
  <2>1. \A p \in Peers : client[p] = joiningAtJ => client'[p] = client[p]
    BY <1>j, <1>6 DEF Stop
  <2> QED
    BY <1>t, <1>1, <1>6, <2>1 DEF Stop
<1>7. CASE Start(i)
  BY <1>t, <1>1, <1>7 DEF Start, pending
<1>8. ASSUME NEW p \in Peers, Join(p, i) PROVE Apart(j)
  <2>1. \A r \in Peers : client[r] = joiningAtJ => client'[r] = client[r]
    BY <1>t, <1>j, <1>8 DEF Join
  <2> QED
    BY <1>t, <1>1, <1>8, <2>1 DEF Join, Request, pending
<1>9. ASSUME NEW p \in Peers, Leave(p, i) PROVE Apart(j)
  <2>1. \A r \in Peers : client[r] = joiningAtJ => client'[r] = client[r]
    BY <1>t, <1>j, <1>9 DEF Leave
  <2>2. local'[j] = local[j] /\ emptied'[j] = emptied[j] /\ requests'[j] = requests[j]
    BY <1>t, <1>9 DEF Leave, RemoveLocalPeer, NoteIfEmpty, Request
  <2> QED
    BY <1>1, <1>9, <2>1, <2>2 DEF Leave
<1>10. ASSUME NEW p \in Peers, HandlerStep(p, i) PROVE Apart(j)
  <2>1. CASE Joined(p, i)
    <3>1. \A r \in Peers : client[r] = joiningAtJ => client'[r] = client[r]
      BY <1>t, <1>j, <2>1 DEF Joined
    <3>2. local'[j] = local[j] /\ answers'[j] = answers[j]
      BY <1>t, <2>1 DEF Joined, Take
    <3> QED
      BY <1>1, <2>1, <3>1, <3>2 DEF Joined, pending
  <2>2. CASE Left(p, i)
    BY <1>t, <1>1, <2>2 DEF Left, Take, pending
  <2>3. CASE Publish(p, i)
    BY <1>t, <1>1, <2>3 DEF Publish, Request
  <2>4. CASE Published(p, i)
    BY <1>t, <1>1, <2>4 DEF Published, Take, pending
  <2> QED
    BY <1>10, <2>1, <2>2, <2>3, <2>4 DEF HandlerStep
<1> QED
  BY <1>2, <1>3, <1>4, <1>5, <1>6, <1>7, <1>8, <1>9, <1>10

\* A connection of an instance breaks.
LEMMA BreakRoom ==
    ASSUME Typed, NEW i \in Instances, RoomOK(i), Break(i), ~raced'
    PROVE  RoomOK(i)'
<1>1. /\ command \in [Instances -> BOOLEAN] /\ subscriber \in [Instances -> BOOLEAN]
      /\ open \in [Instances -> BOOLEAN]
  BY DEF Typed, TypeOK
<1>2. /\ redis' = redis /\ local' = local /\ emptied' = emptied /\ recovery' = recovery
      /\ client' = client /\ running' = running
      /\ command'[i] => command[i]
      /\ ~command'[i] => ~WriteInFlight(i)
  BY <1>1 DEF Break, pending
<1>3. /\ ~open'[i]
      /\ command'[i] => answers'[i] = answers[i]
      /\ IF command'[i] THEN requests'[i] = requests[i]
                        ELSE answers'[i] = <<>> /\ requests'[i] = Unanswered(i)
  BY <1>1 DEF Break, Lost
<1> QED
  BY <1>2, <1>3, LostRoom

\* Redis restarts, and has lost all.
LEMMA RestartRoom ==
    ASSUME Typed, NEW i \in Instances, RoomOK(i), Restart, ~raced'
    PROVE  RoomOK(i)'
<1>1. /\ redis' = EmptyRoom /\ local' = local /\ emptied' = emptied /\ recovery' = recovery
      /\ client' = client /\ running' = running
      /\ ~command'[i] /\ ~WriteInFlight(i) /\ recovery[i] = Idle
  BY DEF Restart, pending
<1>2. ~open'[i] /\ answers'[i] = <<>> /\ requests'[i] = Unanswered(i)
  BY <1>1 DEF Restart, Lost
<1> QED
  BY <1>1, <1>2, LostRoom

\* A recovery goes on.
LEMMA RecoveryRoom ==
    ASSUME Typed, NEW i \in Instances, RoomOK(i), RecoveryStep(i)
    PROVE  RoomOK(i)'
<1>1. \/ SyncRooms(i) \/ SyncEmpties(i) \/ ReadRoom(i) \/ ReadCapacity(i) \/ Written(i)
      \/ ReplayNotices(i) \/ Said(i)
  BY DEF RecoveryStep
<1> QED
  BY <1>1, SyncRoom, ReadRoomRoom, ReadCapacityRoom, WrittenRoom, ReplayNoticesRoom, SaidRoom

\* A handler goes on.
LEMMA HandlerRoom ==
    ASSUME Typed, NEW i \in Instances, RoomOK(i), NEW p \in Peers, HandlerStep(p, i), ~raced'
    PROVE  RoomOK(i)'
<1>1. CASE Joined(p, i)
  BY <1>1, JoinedRoom
<1>2. CASE Left(p, i)
  BY <1>2, AnsweredRoom DEF Left, Answered, pending
<1>3. CASE Publish(p, i)
  BY <1>3, PublishRoom
<1>4. CASE Published(p, i)
  BY <1>4, AnsweredRoom DEF Published, Answered, pending
<1> QED
  BY <1>1, <1>2, <1>3, <1>4 DEF HandlerStep

\* Every step keeps the rooms.
LEMMA RoomsStep == Typed /\ RoomsOK /\ [Next]_vars => RoomsOK'
<1> SUFFICES ASSUME Typed, RoomsOK, [Next]_vars, ~raced', NEW j \in Instances
             PROVE  RoomOK(j)'
  BY DEF RoomsOK
<1>1. \A i \in Instances : RoomOK(i)
  BY RacedStays DEF RoomsOK
<1>2. CASE UNCHANGED vars
  <2>1. Apart(j)
    BY <1>2 DEF vars, Apart
  <2> QED
    BY <1>1, <2>1, OtherRoom
<1>3. CASE Restart
  BY <1>1, <1>3, RestartRoom
<1>4. ASSUME NEW i \in Instances, Execute(i) PROVE RoomOK(j)'
  <2>1. CASE j = i
    BY <1>1, <1>4, <2>1, ExecuteRoom
  <2>2. CASE j # i
    BY <1>1, <1>4, <2>2, ExecuteApart, OtherRoom
  <2> QED
    BY <2>1, <2>2
<1>5. ASSUME NEW i \in Instances,
             \/ Break(i) \/ GiveUp(i) \/ Reconnect(i) \/ RecoveryStep(i) \/ Stop(i) \/ Start(i)
             \/ \E p \in Peers : Join(p, i) \/ Leave(p, i) \/ HandlerStep(p, i)
      PROVE  RoomOK(j)'
  <2>1. CASE j # i
    <3>1. Apart(j)
      BY <1>5, <2>1, LocalStepApart
    <3> QED
      BY <1>1, <3>1, OtherRoom
  <2>2. RoomOK(i)
    BY <1>1
  <2>3. CASE Break(i) \/ GiveUp(i) \/ Reconnect(i)
    <3>1. RoomOK(i)'
      BY <2>2, <2>3, BreakRoom, GivenUpRoom, ReconnectRoom
    <3> QED
      BY <2>1, <3>1
  <2>4. CASE RecoveryStep(i) \/ Stop(i) \/ Start(i)
    <3>1. RoomOK(i)'
      BY <2>2, <2>4, RecoveryRoom, StopRoom, StartRoom
    <3> QED
      BY <2>1, <3>1
  <2>5. ASSUME NEW p \in Peers, Join(p, i) \/ Leave(p, i) \/ HandlerStep(p, i)
        PROVE  RoomOK(j)'
    <3>1. RoomOK(i)'
      BY <2>2, <2>5, JoinRoomOf, LeaveRoomOf, HandlerRoom
    <3> QED
      BY <2>1, <3>1
  <2> QED
    BY <1>5, <2>3, <2>4, <2>5
<1> QED
  BY <1>2, <1>3, <1>4, <1>5 DEF Next

\* At first Redis has nothing, and nobody is there.
LEMMA RoomsInit == Init => RoomsOK
<1> SUFFICES ASSUME Init, NEW i \in Instances PROVE RoomOK(i)
  BY DEF RoomsOK
<1>1. /\ command[i] /\ open[i] /\ ~emptied[i] /\ running[i] /\ IsReady(i)
      /\ requests[i] = <<>> /\ answers[i] = <<>> /\ recovery[i] = Idle /\ local[i] = {}
      /\ Stage(i) = "idle"
  BY DEF Init, IsReady, Ready, Stage, Idle
<1>2. Unanswered(i) = <<>>
  <2>1. Unanswered(i) = OnWire(<<>>, <<>>) /\ <<>> \in Seq(Commands)
    BY <1>1, EmptySeq DEF Unanswered, OnWire
  <2> QED
    BY <2>1, OnlyRequests
<1>3. WireOrdered(i)
  <2>1. recovery[i].pc \notin {"capacity", "write"}
    BY <1>1 DEF Stage
  <2> QED
    BY <1>2, <2>1, OrderEmpty DEF WireOrdered
<1>4. DoorsOK(i)
  BY <1>1 DEF DoorsOK
<1>5. ASSUME NEW p \in Peers PROVE EntryOK(i, p)
  <2>1. DOMAIN requests[i] = {} /\ DOMAIN answers[i] = {}
    BY <1>1, EmptySeq
  <2>2. \A c : ~Pending(i, c)
    BY <2>1 DEF Pending
  <2>3. ~Admitted(i, p)
    BY <2>1 DEF Admitted
  <2>4. ~Has(i, p)
    BY NoInstanceIsNone DEF Init, EmptyRoom, Has
  <2> QED
    BY <1>1, <2>1, <2>2, <2>3, <2>4 DEF EntryOK
<1> QED
  BY <1>3, <1>4, <1>5 DEF RoomOK

-----------------------------------------------------------------------------
\* What follows for an instance at rest, and for the others.

\* Nothing is restored or removed any more, and Redis has what the instance has.
LEMMA RoomAtRest ==
    ASSUME Typed, NEW i \in Instances, RoomOK(i), AtRest(i), NEW p \in Peers
    PROVE  redis.peers[p] = i <=> p \in local[i]
<1>1. DoorsOK(i) /\ EntryOK(i, p)
  BY DEF RoomOK
<1>2. IsReady(i) \/ (~running[i] /\ local[i] = {} /\ ~emptied[i])
  BY <1>1 DEF AtRest, DoorsOK
<1>3. DOMAIN requests[i] = {} /\ DOMAIN answers[i] = {}
  BY EmptySeq DEF AtRest
<1>4. ~Pending(i, <<"leave", p>>) /\ ~Admitted(i, p)
  BY <1>3 DEF Pending, Admitted
<1>5. ~ToPurge(i, p) /\ (p \in local[i] => ~ToRestore(i, p))
  BY <1>2 DEF ToPurge, ToRestore
<1> QED
  BY <1>1, <1>4, <1>5 DEF EntryOK, Has

\* Unless a change of the room met the outage, Redis has every peer of an instance
\* that has recovered.
THEOREM RestoredCorrect == Spec => []Restored
<1>1. Typed /\ RoomsOK => Restored
  BY RoomAtRest DEF RoomsOK, Restored, Typed, TypeOK
<1> QED
  BY <1>1, TypedInit, TypedStep, RoomsInit, RoomsStep, PTL DEF Spec

\* ... and none that left during the outage.
THEOREM NoGhostsCorrect == Spec => []NoGhosts
<1>1. Typed /\ RoomsOK => NoGhosts
  BY RoomAtRest DEF RoomsOK, NoGhosts
<1> QED
  BY <1>1, TypedInit, TypedStep, RoomsInit, RoomsStep, PTL DEF Spec

\* A recovery writes no entry of a peer that another instance has.
THEOREM OthersKeptCorrect == Spec => []OthersKept
<1>1. ASSUME Typed, RoomsOK PROVE OthersKept
  <2> SUFFICES ASSUME ~raced, NEW i \in Instances, requests[i] # <<>>,
                      Head(requests[i])[1] \in {"hset", "hdel"},
                      NEW j \in Instances \ {i}
               PROVE  Head(requests[i])[2] \notin local[j]
    BY DEF OthersKept
  <2> DEFINE c == Head(requests[i])
             q == requests[i]
  <2>1. q \in Seq(Commands) /\ q # <<>> /\ c = Head(q)
    BY <1>1 DEF Typed, TypeOK
  <2>2. Pending(i, c) <=> \E k \in DOMAIN q : q[k] = c
    BY DEF Pending
  <2>3. RoomOK(i) /\ RoomOK(j)
    BY <1>1 DEF RoomsOK
  <2>4. /\ local[i] = {r \in Peers : client[r] = [pc |-> "in", at |-> i]}
        /\ local[j] = {r \in Peers : client[r] = [pc |-> "in", at |-> j]}
    BY <1>1 DEF Typed, TypeOK
  <2>5. c[1] \in {"hset", "hdel"}
    OBVIOUS
  <2> HIDE DEF c, q
  <2>6. c \in Commands /\ 1 \in DOMAIN q /\ c = q[1]
    BY <2>1, HeadTailProperties, LenProperties, EmptySeq
  <2>7. Pending(i, c)
    BY <2>2, <2>6
  <2>8. PICK p \in Peers : c = <<"hset", p>> \/ c = <<"hdel", p>>
    BY <2>5, <2>6 DEF Commands
  <2>9. EntryOK(i, p) /\ EntryOK(j, p)
    BY <2>3 DEF RoomOK
  <2>10. p \notin local[j]
    <3>1. CASE c = <<"hset", p>>
      <4>1. p \in local[i]
        BY <2>7, <2>9, <3>1 DEF EntryOK
      <4>2. [pc |-> "in", at |-> i].at = i /\ [pc |-> "in", at |-> j].at = j
        OBVIOUS
      <4> QED
        BY <2>4, <4>1, <4>2
    <3>2. CASE c = <<"hdel", p>>
      <4>1. redis.peers[p] = i
        BY <2>7, <2>9, <3>2 DEF EntryOK, Has
      <4> QED
        BY <2>9, <4>1, NoInstanceIsNone DEF EntryOK, Has
    <3> QED
      BY <2>8, <3>1, <3>2
  <2>11. c[2] = p
    BY <2>8
  <2> QED
    BY <2>10, <2>11 DEF c
<1> QED
  BY <1>1, TypedInit, TypedStep, RoomsInit, RoomsStep, PTL DEF Spec
===============================================================================
