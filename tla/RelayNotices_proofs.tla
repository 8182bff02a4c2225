-------------------------- MODULE RelayNotices_proofs --------------------------
(***************************************************************************)
(* Proof about RelayRecovery that no departure is forgotten, but where the *)
(* code loses its notice, for every set of instances and peers and every   *)
(* bound.                                                                  *)
(*                                                                         *)
(* The argument looks at the commands that an instance has no answer for,  *)
(* those that Redis has run and those it has not, as one sequence.  A      *)
(* departure is on it once as the publication of its handler, which waits  *)
(* for the answer, or once as the notice that a recovery is saying, and    *)
(* it is due no more as soon as that command is run.  Nor is it once its   *)
(* publication has failed or the relay was stopped: that notice is lost.   *)
(***************************************************************************)
EXTENDS RelayRecovery_proofs

(* The invariant *)

\* The command on the wire at this place has been run.
Run(i, k) == k <= Len(answers[i])

\* A departure is published once, by its handler, which waits for the answer: the
\* one that has been run has told the others.
PublishedOnce(i) ==
    \A p \in Peers : \A k \in DOMAIN Unanswered(i) :
        Unanswered(i)[k] = <<"publish", p>> =>
            /\ leaving[i][p] = "publish"
            /\ Run(i, k) => p \notin Due(i)
            /\ \A l \in DOMAIN Unanswered(i) :
                   Unanswered(i)[l] = <<"publish", p>> => l = k

\* A recovery says what it copied from the head of the pending notices, ...
SayingCopy(i) ==
    recovery[i].pc = "say" =>
        /\ Len(recovery[i].batch) <= Len(unsaid[i])
        /\ \A k \in 1..Len(recovery[i].batch) : recovery[i].batch[k] = unsaid[i][k]

\* ... one by one.
AnnouncedOnce(i) ==
    \A p \in Peers : \A k \in DOMAIN Unanswered(i) :
        Unanswered(i)[k] = <<"announce", p>> =>
            /\ recovery[i].pc = "say"
            /\ p = recovery[i].batch[recovery[i].said + 1]
            /\ \A q \in Peers : \A l \in DOMAIN Unanswered(i) :
                   Unanswered(i)[l] = <<"announce", q>> => l = k

\* The notice that is being said has been run.
SaidLatest(i) ==
    \E p \in Peers : \E k \in DOMAIN Unanswered(i) :
        Unanswered(i)[k] = <<"announce", p>> /\ Run(i, k)

\* This notice is still to be said.
ToBeSaid(i, k) ==
    recovery[i].pc = "say" =>
        k > recovery[i].said /\ (k = recovery[i].said + 1 => ~SaidLatest(i))

Kept(i) ==
    \A p \in Due(i) :
        leaving[i][p] # "no" \/ \E k \in DOMAIN unsaid[i] : unsaid[i][k] = p /\ ToBeSaid(i, k)

NoticesOK(i) == PublishedOnce(i) /\ SayingCopy(i) /\ AnnouncedOnce(i) /\ Kept(i)

-----------------------------------------------------------------------------
(* The wire *)

\* The first n answers are taken, and commands are added.
LEMMA WireMoved ==
    ASSUME NEW a \in Seq(Replies), NEW q \in Seq(Commands), NEW cs \in Seq(Commands),
           NEW n \in 0..Len(a)
    PROVE  LET b == SubSeq(a, n + 1, Len(a))
               u == OnWire(a, q)
               v == OnWire(b, q \o cs)
           IN  /\ b \in Seq(Replies) /\ Len(b) = Len(a) - n
               /\ DOMAIN u = 1..(Len(a) + Len(q))
               /\ DOMAIN v = 1..(Len(a) + Len(q) - n + Len(cs))
               /\ \A k \in DOMAIN v :
                      v[k] = IF k + n <= Len(a) + Len(q) THEN u[k + n]
                             ELSE cs[k + n - (Len(a) + Len(q))]
<1> DEFINE b == SubSeq(a, n + 1, Len(a))
           r == q \o cs
           u == OnWire(a, q)
           v == OnWire(b, r)
<1>0. Len(a) \in Nat /\ Len(q) \in Nat /\ Len(cs) \in Nat /\ n \in Nat
  BY LenProperties
<1>1. b \in Seq(Replies) /\ Len(b) = Len(a) - n /\ \A k \in 1..(Len(a) - n) : b[k] = a[k + n]
  BY <1>0
<1>2. r \in Seq(Commands) /\ Len(r) = Len(q) + Len(cs)
      /\ \A k \in 1..(Len(q) + Len(cs)) : r[k] = IF k <= Len(q) THEN q[k] ELSE cs[k - Len(q)]
  BY <1>0, ConcatProperties
<1> HIDE DEF b, r
<1>3. /\ DOMAIN u = 1..(Len(a) + Len(q))
      /\ \A k \in 1..(Len(a) + Len(q)) : u[k] = IF k <= Len(a) THEN a[k].to ELSE q[k - Len(a)]
  BY WireElements
<1>4. /\ DOMAIN v = 1..(Len(b) + Len(r))
      /\ \A k \in 1..(Len(b) + Len(r)) : v[k] = IF k <= Len(b) THEN b[k].to ELSE r[k - Len(b)]
  BY <1>1, <1>2, WireElements
<1> HIDE DEF u, v
<1>5. DOMAIN v = 1..(Len(a) + Len(q) - n + Len(cs))
  BY <1>0, <1>1, <1>2, <1>4
<1>6. ASSUME NEW k \in 1..(Len(a) + Len(q) - n + Len(cs))
      PROVE  v[k] = IF k + n <= Len(a) + Len(q) THEN u[k + n]
                    ELSE cs[k + n - (Len(a) + Len(q))]
  <2>1. CASE k <= Len(b)
    <3>1. k \in 1..(Len(b) + Len(r)) /\ k + n \in 1..(Len(a) + Len(q))
          /\ k + n <= Len(a) /\ k \in 1..(Len(a) - n)
      BY <1>0, <1>1, <1>2, <2>1
    <3>2. v[k] = b[k].to /\ u[k + n] = a[k + n].to
      BY <1>3, <1>4, <2>1, <3>1
    <3>3. k + n <= Len(a) + Len(q)
      BY <1>0, <3>1
    <3> QED
      BY <1>1, <3>1, <3>2, <3>3
  <2>2. CASE k > Len(b) /\ k + n <= Len(a) + Len(q)
    <3>1. v[k] = r[k - Len(b)] /\ k - Len(b) \in 1..Len(q)
      BY <1>0, <1>1, <1>2, <1>4, <2>2
    <3>2. r[k - Len(b)] = q[k - Len(b)]
      <4>1. k - Len(b) \in 1..(Len(q) + Len(cs)) /\ k - Len(b) <= Len(q)
        BY <1>0, <3>1
      <4> QED
        BY <1>2, <4>1
    <3>3. u[k + n] = q[k + n - Len(a)] /\ k + n - Len(a) = k - Len(b)
      BY <1>0, <1>1, <1>3, <2>2
    <3> QED
      BY <2>2, <3>1, <3>2, <3>3
  <2>3. CASE k + n > Len(a) + Len(q)
    <3>1. v[k] = r[k - Len(b)] /\ k - Len(b) \in 1..(Len(q) + Len(cs)) /\ ~(k - Len(b) <= Len(q))
      BY <1>0, <1>1, <1>2, <1>4, <2>3
    <3>2. r[k - Len(b)] = cs[k - Len(b) - Len(q)]
      BY <1>2, <3>1
    <3>3. k - Len(b) - Len(q) = k + n - (Len(a) + Len(q)) /\ ~(k + n <= Len(a) + Len(q))
      BY <1>0, <1>1, <2>3
    <3> QED
      BY <3>1, <3>2, <3>3
  <2> QED
    BY <1>0, <1>1, <2>1, <2>2, <2>3
<1> QED
  BY <1>1, <1>3, <1>5, <1>6 DEF b, r, u, v

\* The oldest request is run.
LEMMA WireRun ==
    ASSUME NEW a \in Seq(Replies), NEW q \in Seq(Commands), q # <<>>, NEW room \in RedisRoom
    PROVE  LET b == Append(a, [to |-> Head(q), room |-> room])
           IN  /\ OnWire(b, Tail(q)) = OnWire(a, q)
               /\ Len(b) = Len(a) + 1
               /\ OnWire(a, q)[Len(a) + 1] = Head(q)
               /\ Len(a) + 1 \in DOMAIN OnWire(a, q)
<1> DEFINE reply == [to |-> Head(q), room |-> room]
           b == Append(a, reply)
           t == Tail(q)
           u == OnWire(a, q)
           v == OnWire(b, t)
<1>0. Len(a) \in Nat /\ Len(q) \in Nat \ {0} /\ Head(q) \in Commands /\ Head(q) = q[1]
  BY HeadTailProperties, EmptySeq, LenProperties
<1>1. reply \in Replies /\ reply.to = Head(q)
  BY <1>0 DEF Replies
<1> HIDE DEF reply
<1>2. b \in Seq(Replies) /\ Len(b) = Len(a) + 1
      /\ \A k \in 1..Len(b) : b[k] = IF k = Len(a) + 1 THEN reply ELSE a[k]
  BY <1>0, <1>1, AppendProperties
<1>3. t \in Seq(Commands) /\ Len(t) = Len(q) - 1 /\ \A k \in 1..Len(t) : t[k] = q[k + 1]
  BY <1>0, HeadTailProperties
<1> HIDE DEF b, t
<1>4. u \in Seq(Commands) /\ DOMAIN u = 1..(Len(a) + Len(q)) /\ Len(u) = Len(a) + Len(q)
      /\ \A k \in 1..(Len(a) + Len(q)) : u[k] = IF k <= Len(a) THEN a[k].to ELSE q[k - Len(a)]
  BY WireElements
<1>5. v \in Seq(Commands) /\ Len(v) = Len(b) + Len(t)
      /\ \A k \in 1..(Len(b) + Len(t)) : v[k] = IF k <= Len(b) THEN b[k].to ELSE t[k - Len(b)]
  BY <1>2, <1>3, WireElements
<1> HIDE DEF u, v
<1>6. Len(v) = Len(u)
  BY <1>0, <1>2, <1>3, <1>4, <1>5
<1>7. ASSUME NEW k \in 1..Len(u) PROVE u[k] = v[k]
  <2>0. k \in 1..(Len(a) + Len(q)) /\ k \in 1..(Len(b) + Len(t))
    BY <1>0, <1>2, <1>3, <1>4
  <2>1. CASE k <= Len(a)
    <3>1. k \in 1..Len(b) /\ k <= Len(b) /\ k # Len(a) + 1
      BY <1>0, <1>2, <2>0, <2>1
    <3>2. u[k] = a[k].to /\ v[k] = b[k].to /\ b[k] = a[k]
      BY <1>2, <1>4, <1>5, <2>0, <2>1, <3>1
    <3> QED
      BY <3>2
  <2>2. CASE k = Len(a) + 1
    <3>1. u[k] = q[1]
      BY <1>0, <1>4, <2>2
    <3>2. v[k] = b[k].to /\ b[k] = reply
      <4>1. k \in 1..Len(b) /\ k <= Len(b)
        BY <1>0, <1>2, <2>2
      <4> QED
        BY <1>2, <1>5, <2>0, <2>2, <4>1
    <3> QED
      BY <1>0, <1>1, <3>1, <3>2
  <2>3. CASE k > Len(a) + 1
    <3>1. u[k] = q[k - Len(a)]
      BY <1>0, <1>4, <2>3
    <3>2. v[k] = t[k - Len(b)] /\ k - Len(b) \in 1..Len(t)
      <4>1. ~(k <= Len(b)) /\ k - Len(b) \in 1..Len(t)
        BY <1>0, <1>2, <1>3, <2>0, <2>3
      <4> QED
        BY <1>5, <2>0, <4>1
    <3>3. t[k - Len(b)] = q[k - Len(b) + 1] /\ k - Len(b) + 1 = k - Len(a)
      BY <1>0, <1>2, <1>3, <3>2
    <3> QED
      BY <3>1, <3>2, <3>3
  <2> QED
    BY <1>0, <2>1, <2>2, <2>3
<1>8. u = v
  BY <1>4, <1>5, <1>6, <1>7, SeqEqual
<1>9. u[Len(a) + 1] = Head(q) /\ Len(a) + 1 \in DOMAIN u
  BY <1>0, <1>4
<1> QED
  BY <1>2, <1>8, <1>9 DEF b, t, u, v, reply

\* Commands that are no notices.
Routine == ({"join", "leave", "hdel", "hset"} \X Peers) \cup {<<"hgetall">>, <<"get">>, <<"set">>}

\* No routine command says that a peer left.
LEMMA RoutineIsQuiet ==
    /\ \A c \in Routine : \A p \in Peers : c # <<"publish", p>> /\ c # <<"announce", p>>
    /\ Pipeline \subseteq Routine /\ Routine \subseteq Commands
    /\ \A p, q \in Peers : <<"publish", p>> # <<"announce", q>>
<1>1. \A c \in Routine : c[1] \in {"join", "leave", "hdel", "hset", "hgetall", "get", "set"}
  BY DEF Routine
<1>2. \A p : <<"publish", p>>[1] = "publish" /\ <<"announce", p>>[1] = "announce"
  OBVIOUS
<1>3. Pipeline \subseteq Routine /\ Routine \subseteq Commands
  BY DEF Pipeline, Routine, Commands
<1> QED
  BY <1>1, <1>2, <1>3

\* What the notices of an instance depend on, beside its wire, is as it was, but for
\* handlers of a leave that begin or go on before they publish it.
SameNotices(i) ==
    /\ \A p \in Peers :
           \/ leaving'[i][p] = leaving[i][p] /\ (p \in Due(i)' => p \in Due(i))
           \/ leaving[i][p] # "publish" /\ leaving'[i][p] # "no"
    /\ Due(i)' \subseteq Peers
    /\ unsaid'[i] = unsaid[i]
    /\ recovery'[i] = recovery[i] \/ (recovery[i].pc # "say" /\ recovery'[i].pc # "say")

\* A wire on which answers are taken, or sent again, and routine commands are added
\* has no notices but those it had.
LEMMA QuietWire ==
    ASSUME NEW i \in Instances, NoticesOK(i), NEW n \in Nat,
           DOMAIN Unanswered(i)' \subseteq Nat,
           \A k \in DOMAIN Unanswered(i)' :
               \/ /\ k + n \in DOMAIN Unanswered(i)
                  /\ Unanswered(i)'[k] = Unanswered(i)[k + n]
                  /\ Run(i, k)' => Run(i, k + n)
               \/ Unanswered(i)'[k] \in Routine,
           SameNotices(i)
    PROVE  NoticesOK(i)'
<1> DEFINE u == Unanswered(i)
           v == Unanswered(i)'
<1>1. ASSUME NEW p \in Peers, NEW k \in DOMAIN v,
             v[k] = <<"publish", p>> \/ v[k] = <<"announce", p>>
      PROVE  k + n \in DOMAIN u /\ u[k + n] = v[k] /\ (Run(i, k)' => Run(i, k + n)) /\ k \in Nat
  BY <1>1, RoutineIsQuiet
<1> HIDE DEF u, v
<1>2. PublishedOnce(i)'
  <2> SUFFICES ASSUME NEW p \in Peers, NEW k \in DOMAIN v, v[k] = <<"publish", p>>
               PROVE  /\ leaving'[i][p] = "publish"
                      /\ Run(i, k)' => p \notin Due(i)'
                      /\ \A l \in DOMAIN v : v[l] = <<"publish", p>> => l = k
    BY DEF PublishedOnce, v
  <2>1. k + n \in DOMAIN u /\ u[k + n] = <<"publish", p>>
    BY <1>1
  <2>2. \A l \in DOMAIN v : v[l] = <<"publish", p>> => l + n = k + n
    BY <1>1, <2>1 DEF NoticesOK, PublishedOnce, u
  <2>3. leaving[i][p] = "publish" /\ (Run(i, k + n) => p \notin Due(i))
    BY <2>1 DEF NoticesOK, PublishedOnce, u
  <2> QED
    BY <1>1, <2>2, <2>3 DEF SameNotices
<1>3. SayingCopy(i)'
  BY DEF NoticesOK, SayingCopy, SameNotices
<1>4. AnnouncedOnce(i)'
  <2> SUFFICES ASSUME NEW p \in Peers, NEW k \in DOMAIN v, v[k] = <<"announce", p>>
               PROVE  /\ recovery'[i].pc = "say"
                      /\ p = recovery'[i].batch[recovery'[i].said + 1]
                      /\ \A q \in Peers : \A l \in DOMAIN v : v[l] = <<"announce", q>> => l = k
    BY DEF AnnouncedOnce, v
  <2>1. k + n \in DOMAIN u /\ u[k + n] = <<"announce", p>>
    BY <1>1
  <2>2. /\ recovery[i].pc = "say"
        /\ p = recovery[i].batch[recovery[i].said + 1]
        /\ \A q \in Peers : \A l \in DOMAIN u : u[l] = <<"announce", q>> => l = k + n
    BY <2>1 DEF NoticesOK, AnnouncedOnce, u
  <2>3. \A q \in Peers : \A l \in DOMAIN v : v[l] = <<"announce", q>> => l + n = k + n
    BY <1>1, <2>2
  <2> QED
    BY <1>1, <2>2, <2>3 DEF SameNotices
<1>5. Kept(i)'
  <2>1. recovery'[i] = recovery[i] /\ SaidLatest(i)' => SaidLatest(i)
    BY <1>1 DEF SaidLatest, u, v
  <2>2. ASSUME NEW k, ToBeSaid(i, k) PROVE ToBeSaid(i, k)'
    BY <2>1, <2>2 DEF ToBeSaid, SameNotices
  <2> QED
    BY <2>2 DEF NoticesOK, Kept, SameNotices
<1> QED
  BY <1>2, <1>3, <1>4, <1>5 DEF NoticesOK

\* The same of routine commands, place by place.
LEMMA QuietCommands ==
    ASSUME NEW a \in Seq(Replies), NEW q \in Seq(Commands), NEW cs \in Seq(Routine),
           NEW n \in 0..Len(a)
    PROVE  LET b == SubSeq(a, n + 1, Len(a))
               u == OnWire(a, q)
               v == OnWire(b, q \o cs)
           IN  /\ DOMAIN v \subseteq Nat \ {0}
               /\ \A k \in DOMAIN v :
                      \/ /\ k + n \in DOMAIN u
                         /\ v[k] = u[k + n]
                         /\ k <= Len(b) => k + n <= Len(a)
                      \/ v[k] \in Routine
<1> DEFINE b == SubSeq(a, n + 1, Len(a))
           u == OnWire(a, q)
           v == OnWire(b, q \o cs)
           m == Len(a) + Len(q)
<1>0. cs \in Seq(Commands)
  BY RoutineIsQuiet, SeqMonotonic
<1>1. /\ Len(b) = Len(a) - n
      /\ DOMAIN u = 1..m
      /\ DOMAIN v = 1..(m - n + Len(cs))
      /\ \A k \in DOMAIN v : v[k] = IF k + n <= m THEN u[k + n] ELSE cs[k + n - m]
  BY <1>0, WireMoved
<1>2. Len(a) \in Nat /\ Len(cs) \in Nat /\ m \in Nat /\ n \in Nat /\ n <= m
  BY <1>0, LenProperties
<1> HIDE DEF b, u, v, m
<1>3. ASSUME NEW k \in DOMAIN v
      PROVE  \/ k + n \in DOMAIN u /\ v[k] = u[k + n] /\ (k <= Len(b) => k + n <= Len(a))
             \/ v[k] \in Routine
  <2>0. k \in 1..(m - n + Len(cs))
    BY <1>1
  <2>1. CASE k + n <= m
    <3>1. k + n \in DOMAIN u /\ v[k] = u[k + n]
      BY <1>1, <1>2, <2>0, <2>1
    <3>2. k <= Len(b) => k + n <= Len(a)
      BY <1>1, <1>2, <2>0
    <3> QED
      BY <3>1, <3>2
  <2>2. CASE ~(k + n <= m)
    <3>1. k + n - m \in 1..Len(cs)
      BY <1>2, <2>0, <2>2
    <3>2. cs[k + n - m] \in Routine
      BY <3>1, ElementOfSeq
    <3> QED
      BY <1>1, <2>2, <3>2
  <2> QED
    BY <2>1, <2>2
<1>4. DOMAIN v \subseteq Nat \ {0}
  BY <1>1, <1>2
<1> QED
  BY <1>3, <1>4 DEF b, u, v

\* The first n answers are taken, and these commands are requested.
Moved(i, n, cs) ==
    /\ answers'[i] = SubSeq(answers[i], n + 1, Len(answers[i]))
    /\ requests'[i] = requests[i] \o cs

\* What the wire is then: the rest of what it was, and the routine commands.
LEMMA MovedWire ==
    ASSUME Typed, NEW i \in Instances,
           NEW n \in 0..Len(answers[i]), NEW cs \in Seq(Routine), Moved(i, n, cs)
    PROVE  /\ DOMAIN Unanswered(i)' \subseteq Nat \ {0}
           /\ \A k \in DOMAIN Unanswered(i)' :
                  \/ /\ k + n \in DOMAIN Unanswered(i)
                     /\ Unanswered(i)'[k] = Unanswered(i)[k + n]
                     /\ Run(i, k)' => Run(i, k + n)
                  \/ Unanswered(i)'[k] \in Routine
<1> DEFINE a == answers[i]
           q == requests[i]
           b == SubSeq(a, n + 1, Len(a))
<1>0. a \in Seq(Replies) /\ q \in Seq(Commands) /\ n \in 0..Len(a)
  BY DEF Typed, TypeOK, Replies
<1>1. Unanswered(i) = OnWire(a, q) /\ Unanswered(i)' = OnWire(b, q \o cs)
  <2>1. Unanswered(i)' = OnWire(answers'[i], requests'[i])
    BY DEF Unanswered, OnWire
  <2> QED
    BY <2>1 DEF Unanswered, OnWire, Moved
<1>2. answers'[i] = b
  BY DEF Moved
<1> HIDE DEF a, q, b
<1>3. /\ DOMAIN OnWire(b, q \o cs) \subseteq Nat \ {0}
      /\ \A k \in DOMAIN OnWire(b, q \o cs) :
             \/ /\ k + n \in DOMAIN OnWire(a, q)
                /\ OnWire(b, q \o cs)[k] = OnWire(a, q)[k + n]
                /\ k <= Len(b) => k + n <= Len(a)
             \/ OnWire(b, q \o cs)[k] \in Routine
  BY <1>0, QuietCommands, Zenon DEF b
<1>4. \A k : (Run(i, k)' <=> k <= Len(b)) /\ (Run(i, k) <=> k <= Len(a))
  BY <1>2 DEF Run, a
<1> QED
  BY <1>1, <1>3, <1>4, Zenon

\* That leaves the notices as they are.
LEMMA QuietMove ==
    ASSUME Typed, NEW i \in Instances, NoticesOK(i), SameNotices(i),
           NEW n \in 0..Len(answers[i]), NEW cs \in Seq(Routine), Moved(i, n, cs)
    PROVE  NoticesOK(i)'
<1>1. n \in Nat
  OBVIOUS
<1>2. /\ DOMAIN Unanswered(i)' \subseteq Nat
      /\ \A k \in DOMAIN Unanswered(i)' :
             \/ /\ k + n \in DOMAIN Unanswered(i)
                /\ Unanswered(i)'[k] = Unanswered(i)[k + n]
                /\ Run(i, k)' => Run(i, k + n)
             \/ Unanswered(i)'[k] \in Routine
  BY MovedWire, Zenon
<1> QED
  BY <1>1, <1>2, QuietWire, Zenon

\* The wire is as it was.
LEMMA SameWire ==
    ASSUME Typed, NEW i \in Instances, NoticesOK(i), SameNotices(i),
           answers'[i] = answers[i], requests'[i] = requests[i]
    PROVE  NoticesOK(i)'
<1>1. answers[i] \in Seq(Replies) /\ requests[i] \in Seq(Commands)
  BY DEF Typed, TypeOK, Replies
<1>2. <<>> \in Seq(Routine) /\ requests'[i] = requests[i] \o <<>>
  BY <1>1, EmptySeq, ConcatEmptySeq
<1>3. 0 \in 0..Len(answers[i]) /\ answers'[i] = SubSeq(answers[i], 0 + 1, Len(answers[i]))
  BY <1>1, LenProperties, SubSeqFull
<1> QED
  BY <1>2, <1>3, QuietMove DEF Moved

\* Routine commands are requested.
LEMMA RoutineRequested ==
    ASSUME Typed, NEW i \in Instances, NoticesOK(i), SameNotices(i),
           NEW cs \in Seq(Routine), Request(i, cs), answers'[i] = answers[i]
    PROVE  NoticesOK(i)'
<1>1. answers[i] \in Seq(Replies) /\ requests'[i] = requests[i] \o cs
  BY DEF Typed, TypeOK, Replies, Request
<1>2. 0 \in 0..Len(answers[i]) /\ answers'[i] = SubSeq(answers[i], 0 + 1, Len(answers[i]))
  BY <1>1, LenProperties, SubSeqFull
<1> QED
  BY <1>1, <1>2, QuietMove DEF Moved

\* An answer is taken, and routine commands may be requested.
LEMMA AnswerTaken ==
    ASSUME Typed, NEW i \in Instances, NoticesOK(i), SameNotices(i), NEW c, Answered(i, c), Take(i),
           requests'[i] = requests[i] \/ \E cs \in Seq(Routine) : Request(i, cs)
    PROVE  NoticesOK(i)'
<1>1. answers[i] \in Seq(Replies) /\ requests[i] \in Seq(Commands) /\ answers[i] # <<>>
  BY DEF Typed, TypeOK, Replies, Answered
<1>2. answers'[i] = Tail(answers[i])
  BY DEF Typed, TypeOK, Take
<1>3. Len(answers[i]) \in Nat \ {0}
  BY <1>1, EmptySeq, LenProperties
<1>4. 1 \in 0..Len(answers[i]) /\ answers'[i] = SubSeq(answers[i], 1 + 1, Len(answers[i]))
  BY <1>1, <1>2, <1>3, TailIsSubSeq
<1>5. \E cs \in Seq(Routine) : requests'[i] = requests[i] \o cs
  <2>1. CASE requests'[i] = requests[i]
    BY <1>1, <2>1, EmptySeq, ConcatEmptySeq
  <2>2. ASSUME NEW cs \in Seq(Routine), Request(i, cs) PROVE requests'[i] = requests[i] \o cs
    BY <2>2 DEF Typed, TypeOK, Request
  <2> QED
    BY <2>1, <2>2
<1> QED
  BY <1>4, <1>5, QuietMove DEF Moved

\* The connections of some instances break.
LEMMA LostNotices ==
    ASSUME Typed, NEW broken \in SUBSET Instances, Lost(broken),
           NEW i \in Instances, NoticesOK(i), SameNotices(i)
    PROVE  NoticesOK(i)'
<1>1. answers[i] \in Seq(Replies) /\ requests[i] \in Seq(Commands)
  BY DEF Typed, TypeOK, Replies
<1>2. CASE answers'[i] = answers[i] /\ requests'[i] = requests[i]
  BY <1>2, SameWire
<1>3. CASE answers'[i] = <<>> /\ requests'[i] = Unanswered(i)
  <2>1. Unanswered(i)' = OnWire(<<>>, Unanswered(i))
    BY <1>3 DEF Unanswered, OnWire
  <2>2. Unanswered(i)' = Unanswered(i)
    BY <2>1, OnlyRequests, UnansweredTyped
  <2>3. DOMAIN Unanswered(i) \subseteq Nat
    BY UnansweredTyped
  <2>4. \A k \in DOMAIN Unanswered(i) : ~Run(i, k)'
    <3>1. DOMAIN Unanswered(i) \subseteq Nat \ {0}
      BY UnansweredTyped
    <3>2. Len(answers'[i]) = 0
      BY <1>3
    <3> QED
      BY <3>1, <3>2 DEF Run
  <2> QED
    BY <2>2, <2>3, <2>4, QuietWire
<1>4. \/ answers'[i] = answers[i] /\ requests'[i] = requests[i]
      \/ answers'[i] = <<>> /\ requests'[i] = Unanswered(i)
  BY DEF Lost
<1> QED
  BY <1>2, <1>3, <1>4

\* The notices of an instance with nothing on its wire.
LEMMA SilentWire ==
    ASSUME NEW i \in Instances, Unanswered(i)' = <<>>, recovery'[i].pc # "say",
           \A p \in Due(i)' :
               leaving'[i][p] # "no" \/ \E k \in DOMAIN unsaid'[i] : unsaid'[i][k] = p
    PROVE  NoticesOK(i)'
<1>1. DOMAIN Unanswered(i)' = {}
  BY EmptySeq
<1> QED
  BY <1>1 DEF NoticesOK, PublishedOnce, SayingCopy, AnnouncedOnce, Kept, ToBeSaid

\* A command is run: a departure that it says is due no more.
LEMMA NoticesExecuted ==
    ASSUME Typed, NEW i \in Instances, NoticesOK(i), Execute(i)
    PROVE  NoticesOK(i)'
<1> DEFINE a == answers[i]
           q == requests[i]
           c == Head(q)
           u == Unanswered(i)
<1>0. /\ a \in Seq(Replies) /\ q \in Seq(Commands) /\ q # <<>> /\ redis \in RedisRoom
  BY DEF Typed, TypeOK, Replies, Execute
<1>1. /\ answers'[i] = Append(a, [to |-> c, room |-> redis])
      /\ requests'[i] = Tail(q)
      /\ UNCHANGED <<leaving, unsaid, recovery>>
  BY DEF Execute, Typed, TypeOK, pending
<1>d. /\ {owed, unheard} \subseteq [Instances -> SUBSET Peers] /\ UNCHANGED unheard
      /\ owed'[i] = IF c[1] \in {"publish", "announce"} THEN owed[i] \ {c[2]} ELSE owed[i]
  BY DEF Execute, Typed, TypeOK
<1>2. u = OnWire(a, q) /\ Unanswered(i)' = OnWire(answers'[i], requests'[i])
  BY DEF Unanswered, OnWire
<1> HIDE DEF a, q, c, u
<1>3. /\ Unanswered(i)' = u
      /\ Len(answers'[i]) = Len(a) + 1
      /\ u[Len(a) + 1] = c
      /\ Len(a) + 1 \in DOMAIN u
  <2> DEFINE b == Append(a, [to |-> Head(q), room |-> redis])
  <2>1. /\ OnWire(b, Tail(q)) = OnWire(a, q)
        /\ Len(b) = Len(a) + 1
        /\ OnWire(a, q)[Len(a) + 1] = Head(q)
        /\ Len(a) + 1 \in DOMAIN OnWire(a, q)
    BY <1>0, WireRun, Zenon
  <2>2. answers'[i] = b /\ requests'[i] = Tail(q)
    BY <1>1 DEF c
  <2> HIDE DEF b
  <2> QED
    BY <1>2, <2>1, <2>2, Zenon DEF c
<1>4. Len(a) \in Nat /\ DOMAIN u \subseteq Nat
  BY <1>0, UnansweredTyped, LenProperties DEF u
<1>5. ASSUME NEW k \in DOMAIN u, Run(i, k)'
      PROVE  Run(i, k) \/ (k = Len(a) + 1 /\ u[k] = c)
  BY <1>3, <1>4, <1>5 DEF Run, a
<1>6. Due(i)' \subseteq Due(i) /\ Due(i) \subseteq Peers
      /\ \A p : c = <<"publish", p>> \/ c = <<"announce", p>> => p \notin Due(i)'
  BY <1>d DEF Due
<1>7. PublishedOnce(i)'
  BY <1>1, <1>3, <1>5, <1>6 DEF NoticesOK, PublishedOnce, u
<1>8. SayingCopy(i)' /\ AnnouncedOnce(i)'
  BY <1>1, <1>3 DEF NoticesOK, SayingCopy, AnnouncedOnce, u
<1>9. Kept(i)'
  <2> SUFFICES ASSUME NEW p \in Due(i)', leaving[i][p] = "no"
               PROVE  \E k \in DOMAIN unsaid[i] : unsaid[i][k] = p /\ ToBeSaid(i, k)'
    BY <1>1 DEF Kept
  <2>1. PICK k \in DOMAIN unsaid[i] : unsaid[i][k] = p /\ ToBeSaid(i, k)
    BY <1>6 DEF NoticesOK, Kept
  <2>2. SUFFICES ASSUME recovery[i].pc = "say", k = recovery[i].said + 1, SaidLatest(i)'
                 PROVE  FALSE
    BY <1>1, <2>1 DEF ToBeSaid
  <2>3. PICK r \in Peers, l \in DOMAIN u : u[l] = <<"announce", r>> /\ Run(i, l)'
    BY <1>3, <2>2 DEF SaidLatest
  <2>4. ~Run(i, l)
    BY <2>1, <2>2, <2>3 DEF ToBeSaid, SaidLatest, u
  <2>5. c = <<"announce", r>>
    BY <1>5, <2>3, <2>4
  <2>6. r = recovery[i].batch[recovery[i].said + 1]
    BY <2>3 DEF NoticesOK, AnnouncedOnce, u
  <2>7. r = unsaid[i][k]
    <3>1. recovery[i].said + 1 \in 1..Len(recovery[i].batch)
      BY <2>2 DEF Typed, RecoveryOK, RecoveryRecord
    <3> QED
      BY <2>2, <2>6, <3>1 DEF NoticesOK, SayingCopy
  <2> QED
    BY <1>6, <2>1, <2>5, <2>7
<1> QED
  BY <1>7, <1>8, <1>9 DEF NoticesOK

\* The sequence of one command that is added.
LEMMA AddedOne ==
    ASSUME NEW a \in Seq(Replies), NEW q \in Seq(Commands), NEW cs \in Seq(Commands),
           NEW n \in 0..Len(a)
    PROVE  LET b == SubSeq(a, n + 1, Len(a))
               u == OnWire(a, q)
               v == OnWire(b, q \o cs)
               m == Len(a) + Len(q)
           IN  Len(cs) = 1 =>
               /\ Len(b) = Len(a) - n
               /\ DOMAIN u = 1..m
               /\ DOMAIN v = 1..(m - n + 1)
               /\ \A k \in DOMAIN v : v[k] = IF k + n <= m THEN u[k + n] ELSE cs[k + n - m]
<1> DEFINE b == SubSeq(a, n + 1, Len(a))
           u == OnWire(a, q)
           v == OnWire(b, q \o cs)
           m == Len(a) + Len(q)
<1>1. /\ Len(b) = Len(a) - n
      /\ DOMAIN u = 1..(Len(a) + Len(q))
      /\ DOMAIN v = 1..(Len(a) + Len(q) - n + Len(cs))
      /\ \A k \in DOMAIN v :
             v[k] = IF k + n <= Len(a) + Len(q) THEN u[k + n]
                    ELSE cs[k + n - (Len(a) + Len(q))]
  BY WireMoved
<1>2. /\ Len(b) = Len(a) - n
      /\ DOMAIN u = 1..m
      /\ DOMAIN v = 1..(m - n + Len(cs))
      /\ \A k \in DOMAIN v : v[k] = IF k + n <= m THEN u[k + n] ELSE cs[k + n - m]
  BY <1>1
<1> HIDE DEF b, u, v, m
<1> QED
  BY <1>2 DEF b, u, v, m

\* One command is requested.
LEMMA OneMore ==
    ASSUME NEW a \in Seq(Replies), NEW q \in Seq(Commands), NEW c \in Commands,
           NEW n \in 0..Len(a)
    PROVE  LET b == SubSeq(a, n + 1, Len(a))
               u == OnWire(a, q)
               v == OnWire(b, q \o <<c>>)
           IN  /\ DOMAIN v \subseteq Nat \ {0}
               /\ \E last \in DOMAIN v :
                      /\ v[last] = c /\ ~(last <= Len(b))
                      /\ \A k \in DOMAIN v :
                             \/ k = last
                             \/ /\ k + n \in DOMAIN u
                                /\ v[k] = u[k + n]
                                /\ k <= Len(b) => k + n <= Len(a)
<1> DEFINE b == SubSeq(a, n + 1, Len(a))
           u == OnWire(a, q)
           v == OnWire(b, q \o <<c>>)
           m == Len(a) + Len(q)
           last == m - n + 1
<1>0. <<c>> \in Seq(Commands) /\ Len(<<c>>) = 1 /\ <<c>>[1] = c
  OBVIOUS
<1>1. /\ Len(b) = Len(a) - n
      /\ DOMAIN u = 1..m
      /\ DOMAIN v = 1..(m - n + 1)
      /\ \A k \in DOMAIN v : v[k] = IF k + n <= m THEN u[k + n] ELSE <<c>>[k + n - m]
  BY <1>0, AddedOne, Zenon
<1>2. Len(a) \in Nat /\ m \in Nat /\ n \in Nat /\ n <= m /\ Len(a) <= m /\ n <= Len(a)
  BY LenProperties
<1> HIDE DEF b, u, v, m
<1>3. last \in DOMAIN v /\ last + n - m = 1 /\ ~(last + n <= m) /\ ~(last <= Len(b))
  BY <1>1, <1>2
<1>4. v[last] = c
  BY <1>0, <1>1, <1>3
<1>5. ASSUME NEW k \in DOMAIN v, k # last
      PROVE  k + n \in DOMAIN u /\ v[k] = u[k + n] /\ (k <= Len(b) => k + n <= Len(a))
  <2>1. k + n <= m /\ k \in 1..(m - n + 1)
    BY <1>1, <1>2, <1>5
  <2>2. k + n \in DOMAIN u /\ (k <= Len(b) => k + n <= Len(a))
    BY <1>1, <1>2, <2>1
  <2> QED
    BY <1>1, <2>1, <2>2
<1>6. DOMAIN v \subseteq Nat \ {0}
  BY <1>1, <1>2
<1> HIDE DEF last
<1> QED
  BY <1>3, <1>4, <1>5, <1>6 DEF b, u, v

\* The same, on the wire of an instance.
LEMMA OneMoreRequest ==
    ASSUME Typed, NEW i \in Instances, NEW n \in 0..Len(answers[i]),
           NEW c \in Commands, Moved(i, n, <<c>>)
    PROVE  /\ DOMAIN Unanswered(i)' \subseteq Nat \ {0}
           /\ \E last \in DOMAIN Unanswered(i)' :
                  /\ Unanswered(i)'[last] = c /\ ~Run(i, last)'
                  /\ \A k \in DOMAIN Unanswered(i)' :
                         \/ k = last
                         \/ /\ k + n \in DOMAIN Unanswered(i)
                            /\ Unanswered(i)'[k] = Unanswered(i)[k + n]
                            /\ Run(i, k)' => Run(i, k + n)
<1> DEFINE a == answers[i]
           q == requests[i]
           b == SubSeq(a, n + 1, Len(a))
           u == OnWire(a, q)
           v == OnWire(b, q \o <<c>>)
<1>0. a \in Seq(Replies) /\ q \in Seq(Commands) /\ n \in 0..Len(a)
  BY DEF Typed, TypeOK, Replies
<1>1. Unanswered(i) = u /\ Unanswered(i)' = v
  <2>1. Unanswered(i)' = OnWire(answers'[i], requests'[i])
    BY DEF Unanswered, OnWire
  <2> QED
    BY <2>1 DEF Unanswered, OnWire, Moved
<1>2. answers'[i] = b
  BY DEF Moved
<1> HIDE DEF a, q
<1>3. /\ DOMAIN v \subseteq Nat \ {0}
      /\ \E last \in DOMAIN v :
             /\ v[last] = c /\ ~(last <= Len(b))
             /\ \A k \in DOMAIN v :
                    \/ k = last
                    \/ /\ k + n \in DOMAIN u
                       /\ v[k] = u[k + n]
                       /\ k <= Len(b) => k + n <= Len(a)
  BY <1>0, OneMore, ZenonT(60)
<1> HIDE DEF b, u, v
<1>4. \A k : (Run(i, k)' <=> k <= Len(b)) /\ (Run(i, k) <=> k <= Len(a))
  BY <1>2 DEF Run, a
<1> QED
  BY <1>1, <1>3, <1>4, Zenon

\* The answer that is taken next is that to the oldest command.
LEMMA OldestAnswered ==
    ASSUME Typed, NEW i \in Instances, NEW c, Answered(i, c)
    PROVE  /\ 1 \in DOMAIN Unanswered(i) /\ Unanswered(i)[1] = c /\ Run(i, 1)
           /\ 1 \in 0..Len(answers[i])
           /\ Take(i) => answers'[i] = SubSeq(answers[i], 1 + 1, Len(answers[i]))
<1> DEFINE a == answers[i]
           q == requests[i]
<1>1. a \in Seq(Replies) /\ q \in Seq(Commands) /\ a # <<>> /\ Head(a).to = c
  BY DEF Typed, TypeOK, Replies, Answered
<1>2. Take(i) => answers'[i] = Tail(a)
  BY DEF Typed, TypeOK, Take
<1>3. Unanswered(i) = OnWire(a, q)
  BY DEF Unanswered, OnWire
<1>4. Run(i, 1) <=> 1 <= Len(a)
  BY DEF Run
<1> HIDE DEF a, q
<1>5. Len(a) \in Nat \ {0} /\ Len(q) \in Nat
  BY <1>1, EmptySeq, LenProperties
<1>6. 1 \in 1..(Len(a) + Len(q)) /\ 1 <= Len(a)
  BY <1>5
<1>7. 1 \in DOMAIN OnWire(a, q) /\ OnWire(a, q)[1] = a[1].to
  BY <1>1, <1>6, WireElements
<1>8. a[1].to = c
  BY <1>1
<1>9. Tail(a) = SubSeq(a, 1 + 1, Len(a)) /\ 1 \in 0..Len(a)
  BY <1>1, <1>5, TailIsSubSeq
<1> QED
  BY <1>2, <1>3, <1>4, <1>6, <1>7, <1>8, <1>9 DEF a

-----------------------------------------------------------------------------
(* The handlers and the recovery *)

\* What is left of the wire has no publication but those it had.
LEMMA PublishedShifted ==
    ASSUME NEW i \in Instances, NoticesOK(i), NEW n \in Nat,
           DOMAIN Unanswered(i)' \subseteq Nat,
           NEW p \in Peers, NEW k \in DOMAIN Unanswered(i)',
           Unanswered(i)'[k] = <<"publish", p>>,
           \A l \in DOMAIN Unanswered(i)' :
               Unanswered(i)'[l] = <<"publish", p>> =>
                   /\ l + n \in DOMAIN Unanswered(i)
                   /\ Unanswered(i)'[l] = Unanswered(i)[l + n]
                   /\ Run(i, l)' => Run(i, l + n)
    PROVE  /\ k + n \in DOMAIN Unanswered(i) /\ Unanswered(i)[k + n] = <<"publish", p>>
           /\ leaving[i][p] = "publish"
           /\ Run(i, k)' => p \notin Due(i)
           /\ \A l \in DOMAIN Unanswered(i)' :
                  Unanswered(i)'[l] = <<"publish", p>> => l = k
<1> DEFINE u == Unanswered(i)
           v == Unanswered(i)'
<1> HIDE DEF u, v
<1>1. k + n \in DOMAIN u /\ u[k + n] = <<"publish", p>> /\ (Run(i, k)' => Run(i, k + n))
  BY DEF u, v
<1>2. ASSUME NEW l \in DOMAIN v, v[l] = <<"publish", p>> PROVE l = k
  <2>1. l + n = k + n
    BY <1>1, <1>2 DEF NoticesOK, PublishedOnce, u, v
  <2>2. l \in Nat /\ k \in Nat
    BY DEF v
  <2> QED
    BY <2>1, <2>2
<1>3. leaving[i][p] = "publish" /\ (Run(i, k + n) => p \notin Due(i))
  BY <1>1 DEF NoticesOK, PublishedOnce, u
<1> QED
  BY <1>1, <1>2, <1>3 DEF u, v

\* A departure is published at once, or its notice is kept.
LEMMA PublishNotices ==
    ASSUME Typed, NEW i \in Instances, NEW p \in Peers, NoticesOK(i), Publish(p, i)
    PROVE  NoticesOK(i)'
<1> DEFINE u == Unanswered(i)
           v == Unanswered(i)'
           c == <<"publish", p>>
<1>0. /\ leaving[i][p] = "left"
      /\ leaving \in [Instances -> [Peers -> {"no", "leave", "left", "publish"}]]
      /\ unsaid \in [Instances -> Seq(Peers)]
      /\ requests \in [Instances -> Seq(Commands)]
      /\ answers[i] \in Seq(Replies)
      /\ Due(i) \subseteq Peers
      /\ UNCHANGED <<answers, recovery, owed, unheard>>
  <2>1. leaving[i][p] = "left" /\ UNCHANGED <<answers, recovery, owed, unheard>>
    BY DEF Publish, history
  <2>2. answers \in [Instances -> Seq(Replies)] /\ {owed, unheard} \subseteq [Instances -> SUBSET Peers]
    BY DEF Typed, TypeOK, Replies
  <2> QED
    BY <2>1, <2>2 DEF Typed, TypeOK, Due
<1>1. CASE IsReady(i)
  <2>1. /\ leaving'[i] = [leaving[i] EXCEPT ![p] = "publish"]
        /\ unsaid'[i] = unsaid[i]
        /\ requests'[i] = requests[i] \o <<c>>
    BY <1>0, <1>1 DEF Publish, Request
  <2>2. c \in Commands
    BY DEF Commands
  <2>3. 0 \in 0..Len(answers[i]) /\ Moved(i, 0, <<c>>)
    <3>1. answers'[i] = SubSeq(answers[i], 0 + 1, Len(answers[i])) /\ 0 \in 0..Len(answers[i])
      BY <1>0, LenProperties, SubSeqFull
    <3> QED
      BY <2>1, <3>1 DEF Moved
  <2> HIDE DEF u, v
  <2>4. PICK last \in DOMAIN v :
            /\ v[last] = c /\ ~Run(i, last)'
            /\ \A k \in DOMAIN v :
                   k = last \/ (k \in DOMAIN u /\ v[k] = u[k] /\ (Run(i, k)' => Run(i, k)))
    <3>1. /\ DOMAIN v \subseteq Nat \ {0}
          /\ \E last \in DOMAIN v :
                 /\ v[last] = c /\ ~Run(i, last)'
                 /\ \A k \in DOMAIN v :
                        \/ k = last
                        \/ k + 0 \in DOMAIN u /\ v[k] = u[k + 0] /\ (Run(i, k)' => Run(i, k + 0))
      BY <2>2, <2>3, OneMoreRequest DEF u, v
    <3>2. \A k \in DOMAIN v : k + 0 = k
      BY <3>1
    <3> QED
      BY <3>1, <3>2
  <2>5. ASSUME NEW q \in Peers, NEW k \in DOMAIN v, v[k] = <<"announce", q>>
        PROVE  k \in DOMAIN u /\ u[k] = <<"announce", q>> /\ (Run(i, k)' => Run(i, k))
    BY <2>4, <2>5, RoutineIsQuiet
  <2>6. PublishedOnce(i)'
    <3> SUFFICES ASSUME NEW q \in Peers, NEW k \in DOMAIN v, v[k] = <<"publish", q>>
                 PROVE  /\ leaving'[i][q] = "publish"
                        /\ Run(i, k)' => q \notin Due(i)'
                        /\ \A l \in DOMAIN v : v[l] = <<"publish", q>> => l = k
      BY DEF PublishedOnce, v
    <3>1. \A l \in DOMAIN u : u[l] # c
      BY <1>0 DEF NoticesOK, PublishedOnce, u
    <3>2. CASE k = last
      <4>1. q = p
        BY <2>4, <3>2
      <4> QED
        BY <1>0, <2>1, <2>4, <3>1, <3>2, <4>1
    <3>3. CASE k # last
      <4>1. k \in DOMAIN u /\ u[k] = <<"publish", q>> /\ (Run(i, k)' => Run(i, k))
        BY <2>4, <3>3
      <4>2. /\ leaving[i][q] = "publish" /\ q # p
            /\ Run(i, k) => q \notin Due(i)
            /\ \A l \in DOMAIN u : u[l] = <<"publish", q>> => l = k
        BY <1>0, <4>1 DEF NoticesOK, PublishedOnce, u
      <4>3. \A l \in DOMAIN v : v[l] = <<"publish", q>> => l = k
        BY <2>4, <4>2
      <4> QED
        BY <1>0, <2>1, <4>1, <4>2, <4>3 DEF Due
    <3> QED
      BY <3>2, <3>3
  <2>7. SayingCopy(i)'
    BY <1>0, <2>1 DEF NoticesOK, SayingCopy
  <2>8. AnnouncedOnce(i)'
    <3> SUFFICES ASSUME NEW q \in Peers, NEW k \in DOMAIN v, v[k] = <<"announce", q>>
                 PROVE  /\ recovery'[i].pc = "say"
                        /\ q = recovery'[i].batch[recovery'[i].said + 1]
                        /\ \A r \in Peers : \A l \in DOMAIN v : v[l] = <<"announce", r>> => l = k
      BY DEF AnnouncedOnce, v
    <3>1. k \in DOMAIN u /\ u[k] = <<"announce", q>>
      BY <2>5
    <3>2. /\ recovery[i].pc = "say"
          /\ q = recovery[i].batch[recovery[i].said + 1]
          /\ \A r \in Peers : \A l \in DOMAIN u : u[l] = <<"announce", r>> => l = k
      BY <3>1 DEF NoticesOK, AnnouncedOnce, u
    <3>3. \A r \in Peers : \A l \in DOMAIN v : v[l] = <<"announce", r>> => l = k
      BY <2>5, <3>2
    <3> QED
      BY <1>0, <3>2, <3>3
  <2>9. Kept(i)'
    <3>1. SaidLatest(i)' => SaidLatest(i)
      BY <2>5 DEF SaidLatest, u, v
    <3>2. ASSUME NEW k, ToBeSaid(i, k) PROVE ToBeSaid(i, k)'
      BY <1>0, <3>1, <3>2 DEF ToBeSaid
    <3>3. \A q \in Due(i) : leaving[i][q] # "no" => leaving'[i][q] # "no"
      BY <1>0, <2>1
    <3> QED
      BY <1>0, <2>1, <3>2, <3>3 DEF NoticesOK, Kept, Due
  <2> QED
    BY <2>6, <2>7, <2>8, <2>9 DEF NoticesOK
<1>2. CASE ~IsReady(i)
  <2>1. /\ leaving'[i] = [leaving[i] EXCEPT ![p] = "no"]
        /\ unsaid'[i] = Append(unsaid[i], p)
        /\ requests' = requests
    BY <1>0, <1>2 DEF Publish
  <2>2. v = u /\ \A k : Run(i, k)' = Run(i, k)
    BY <1>0, <2>1 DEF Unanswered, Run
  <2> HIDE DEF u, v
  <2>3. /\ Len(unsaid[i]) \in Nat /\ Len(unsaid'[i]) = Len(unsaid[i]) + 1
        /\ \A k \in 1..Len(unsaid[i]) : unsaid'[i][k] = unsaid[i][k]
        /\ unsaid'[i][Len(unsaid[i]) + 1] = p
        /\ DOMAIN unsaid[i] = 1..Len(unsaid[i])
        /\ DOMAIN unsaid'[i] = 1..(Len(unsaid[i]) + 1)
    BY <1>0, <2>1, AppendProperties
  <2>4. recovery[i].pc = "say" =>
            /\ recovery[i].said \in Nat /\ Len(recovery[i].batch) \in Nat
            /\ recovery[i].said < Len(recovery[i].batch)
            /\ Len(recovery[i].batch) <= Len(unsaid[i])
    BY LenProperties DEF Typed, RecoveryOK, RecoveryRecord, NoticesOK, SayingCopy
  <2>5. PublishedOnce(i)'
    <3>1. \A q \in Peers : leaving[i][q] = "publish" => leaving'[i][q] = "publish"
      BY <1>0, <2>1
    <3> QED
      BY <1>0, <2>2, <3>1 DEF NoticesOK, PublishedOnce, u, v, Due
  <2>6. SayingCopy(i)'
    <3> SUFFICES ASSUME recovery[i].pc = "say"
                 PROVE  /\ Len(recovery[i].batch) <= Len(unsaid'[i])
                        /\ \A k \in 1..Len(recovery[i].batch) :
                               recovery[i].batch[k] = unsaid'[i][k]
      BY <1>0 DEF SayingCopy
    <3>1. \A k \in 1..Len(recovery[i].batch) :
              k \in 1..Len(unsaid[i]) /\ recovery[i].batch[k] = unsaid[i][k]
      BY <2>3, <2>4 DEF NoticesOK, SayingCopy
    <3>2. Len(recovery[i].batch) <= Len(unsaid'[i])
      BY <2>3, <2>4
    <3> QED
      BY <2>3, <3>1, <3>2
  <2>7. AnnouncedOnce(i)'
    BY <1>0, <2>2 DEF NoticesOK, AnnouncedOnce, u, v
  <2>8. Kept(i)'
    <3>1. SaidLatest(i)' = SaidLatest(i)
      BY <2>2 DEF SaidLatest, u, v
    <3> SUFFICES ASSUME NEW q \in Due(i)
                 PROVE  \/ leaving'[i][q] # "no"
                        \/ \E k \in DOMAIN unsaid'[i] : unsaid'[i][k] = q /\ ToBeSaid(i, k)'
      BY <1>0 DEF Kept, Due
    <3>2. CASE q = p
      <4>1. PICK k \in Nat : k = Len(unsaid[i]) + 1
        BY <2>3
      <4>2. k \in DOMAIN unsaid'[i] /\ unsaid'[i][k] = q
        BY <2>3, <3>2, <4>1
      <4>3. ToBeSaid(i, k)'
        BY <1>0, <2>3, <2>4, <4>1 DEF ToBeSaid
      <4> QED
        BY <4>2, <4>3
    <3>3. CASE q # p
      <4>1. CASE leaving[i][q] # "no"
        BY <1>0, <2>1, <3>3, <4>1
      <4>2. CASE leaving[i][q] = "no"
        <5>1. PICK k \in DOMAIN unsaid[i] : unsaid[i][k] = q /\ ToBeSaid(i, k)
          BY <4>2 DEF NoticesOK, Kept
        <5>2. k \in DOMAIN unsaid'[i] /\ unsaid'[i][k] = q
          BY <2>3, <5>1
        <5>3. ToBeSaid(i, k)'
          BY <1>0, <3>1, <5>1 DEF ToBeSaid
        <5> QED
          BY <5>2, <5>3
      <4> QED
        BY <4>1, <4>2
    <3> QED
      BY <3>2, <3>3
  <2> QED
    BY <2>5, <2>6, <2>7, <2>8 DEF NoticesOK
<1> QED
  BY <1>1, <1>2

\* The answer to a notice is taken, and the wire is the rest.
LEMMA RestOfWire ==
    ASSUME Typed, NEW i \in Instances, NEW c, Answered(i, c), Take(i), requests'[i] = requests[i]
    PROVE  /\ DOMAIN Unanswered(i)' \subseteq Nat \ {0}
           /\ \A k \in DOMAIN Unanswered(i)' :
                  \/ /\ k + 1 \in DOMAIN Unanswered(i)
                     /\ Unanswered(i)'[k] = Unanswered(i)[k + 1]
                     /\ Run(i, k)' => Run(i, k + 1)
                  \/ Unanswered(i)'[k] \in Routine
<1>1. 1 \in 0..Len(answers[i]) /\ answers'[i] = SubSeq(answers[i], 1 + 1, Len(answers[i]))
  BY OldestAnswered
<1>2. requests[i] \in Seq(Commands)
  BY DEF Typed, TypeOK
<1>3. <<>> \in Seq(Routine) /\ requests'[i] = requests[i] \o <<>>
  BY <1>2, EmptySeq, ConcatEmptySeq
<1> QED
  BY <1>1, <1>3, MovedWire DEF Moved

\* The handler of a leave hears that its notice was published.
LEMMA PublishedNotices ==
    ASSUME Typed, NEW i \in Instances, NEW p \in Peers, NoticesOK(i), Published(p, i)
    PROVE  NoticesOK(i)'
<1> DEFINE u == Unanswered(i)
           v == Unanswered(i)'
           c == <<"publish", p>>
<1>0. /\ Answered(i, c) /\ Take(i)
      /\ leaving \in [Instances -> [Peers -> {"no", "leave", "left", "publish"}]]
      /\ Due(i) \subseteq Peers
      /\ leaving' = [leaving EXCEPT ![i][p] = "no"]
      /\ UNCHANGED <<requests, recovery, owed, unheard, unsaid>>
  <2>1. Answered(i, c) /\ Take(i) /\ UNCHANGED <<requests, recovery, owed, unheard, unsaid>>
    BY DEF Published, history, pending
  <2>2. leaving' = [leaving EXCEPT ![i][p] = "no"]
    BY DEF Published
  <2> QED
    BY <2>1, <2>2 DEF Typed, TypeOK, Due
<1>1. 1 \in DOMAIN u /\ u[1] = c /\ Run(i, 1)
  BY <1>0, OldestAnswered
<1>2. /\ DOMAIN v \subseteq Nat \ {0}
      /\ \A k \in DOMAIN v :
             \/ k + 1 \in DOMAIN u /\ v[k] = u[k + 1] /\ (Run(i, k)' => Run(i, k + 1))
             \/ v[k] \in Routine
  BY <1>0, RestOfWire
<1> HIDE DEF u, v
<1>3. ASSUME NEW q \in Peers, NEW k \in DOMAIN v,
             v[k] = <<"publish", q>> \/ v[k] = <<"announce", q>>
      PROVE  k + 1 \in DOMAIN u /\ u[k + 1] = v[k] /\ (Run(i, k)' => Run(i, k + 1))
  BY <1>2, <1>3, RoutineIsQuiet
<1>4. p \notin Due(i) /\ \A l \in DOMAIN u : u[l] = c => l = 1
  BY <1>1 DEF NoticesOK, PublishedOnce, u
<1>5. \A k \in DOMAIN v : k \in Nat /\ k + 1 # 1
  BY <1>2
<1>6. PublishedOnce(i)'
  <2> SUFFICES ASSUME NEW q \in Peers, NEW k \in DOMAIN v, v[k] = <<"publish", q>>
               PROVE  /\ leaving'[i][q] = "publish"
                      /\ Run(i, k)' => q \notin Due(i)'
                      /\ \A l \in DOMAIN v : v[l] = <<"publish", q>> => l = k
    BY DEF PublishedOnce, v
  <2>1. /\ k + 1 \in DOMAIN u /\ u[k + 1] = <<"publish", q>>
        /\ leaving[i][q] = "publish"
        /\ Run(i, k)' => q \notin Due(i)
        /\ \A l \in DOMAIN v : v[l] = <<"publish", q>> => l = k
    <3>1. \A l \in DOMAIN v :
              v[l] = <<"publish", q>> =>
                  l + 1 \in DOMAIN u /\ v[l] = u[l + 1] /\ (Run(i, l)' => Run(i, l + 1))
      BY <1>3
    <3>2. DOMAIN v \subseteq Nat /\ 1 \in Nat
      BY <1>2
    <3> QED
      BY <3>1, <3>2, PublishedShifted DEF u, v
  <2>2. q # p
    BY <1>4, <1>5, <2>1
  <2> QED
    BY <1>0, <2>1, <2>2 DEF Due
<1>7. SayingCopy(i)'
  BY <1>0 DEF NoticesOK, SayingCopy
<1>8. AnnouncedOnce(i)'
  <2> SUFFICES ASSUME NEW q \in Peers, NEW k \in DOMAIN v, v[k] = <<"announce", q>>
               PROVE  /\ recovery'[i].pc = "say"
                      /\ q = recovery'[i].batch[recovery'[i].said + 1]
                      /\ \A r \in Peers : \A l \in DOMAIN v : v[l] = <<"announce", r>> => l = k
    BY DEF AnnouncedOnce, v
  <2>1. k + 1 \in DOMAIN u /\ u[k + 1] = <<"announce", q>>
    BY <1>3
  <2>2. /\ recovery[i].pc = "say"
        /\ q = recovery[i].batch[recovery[i].said + 1]
        /\ \A r \in Peers : \A l \in DOMAIN u : u[l] = <<"announce", r>> => l = k + 1
    BY <2>1 DEF NoticesOK, AnnouncedOnce, u
  <2>3. \A r \in Peers : \A l \in DOMAIN v : v[l] = <<"announce", r>> => l + 1 = k + 1
    BY <1>3, <2>2
  <2>4. \A r \in Peers : \A l \in DOMAIN v : v[l] = <<"announce", r>> => l = k
    BY <1>5, <2>3
  <2> QED
    BY <1>0, <2>2, <2>4
<1>9. Kept(i)'
  <2>1. SaidLatest(i)' => SaidLatest(i)
    BY <1>3 DEF SaidLatest, u, v
  <2>2. ASSUME NEW k, ToBeSaid(i, k) PROVE ToBeSaid(i, k)'
    BY <1>0, <2>1, <2>2 DEF ToBeSaid
  <2>3. \A q \in Due(i) : leaving[i][q] # "no" => leaving'[i][q] # "no"
    BY <1>0, <1>4
  <2> QED
    BY <1>0, <2>2, <2>3 DEF NoticesOK, Kept, Due
<1> QED
  BY <1>6, <1>7, <1>8, <1>9 DEF NoticesOK

\* Past this place of the wire no notice is being said, ...
NoneSaidPast(i, n) ==
    \A q \in Peers : \A k \in DOMAIN Unanswered(i) :
        k > n => Unanswered(i)[k] # <<"announce", q>>

\* ... and the departures that are not with a handler are past this many notices.
OwedPast(i, said) ==
    \A p \in Due(i) :
        leaving[i][p] # "no" \/ \E k \in DOMAIN unsaid[i] : unsaid[i][k] = p /\ k > said

CopyOfUnsaid(i, notices) ==
    /\ notices \in Seq(Peers) /\ Len(notices) <= Len(unsaid[i])
    /\ \A k \in 1..Len(notices) : notices[k] = unsaid[i][k]

\* A recovery that is saying nothing begins to say this many-th notice.
LEMMA SayNotices ==
    ASSUME Typed, NEW i \in Instances, NoticesOK(i),
           NEW notices, CopyOfUnsaid(i, notices), NEW said \in Nat, said < Len(notices),
           NEW n \in 0..Len(answers[i]),
           Moved(i, n, << <<"announce", notices[said + 1]>> >>),
           recovery'[i].pc = "say", recovery'[i].batch = notices, recovery'[i].said = said,
           leaving'[i] = leaving[i], Due(i)' = Due(i), unsaid'[i] = unsaid[i],
           NoneSaidPast(i, n), OwedPast(i, said)
    PROVE  NoticesOK(i)'
<1> DEFINE u == Unanswered(i)
           v == Unanswered(i)'
           c == <<"announce", notices[said + 1]>>
<1>0. notices[said + 1] \in Peers /\ c \in Commands /\ n \in Nat
  <2>1. said + 1 \in 1..Len(notices)
    BY LenProperties DEF CopyOfUnsaid
  <2> QED
    BY <2>1, ElementOfSeq DEF Commands, CopyOfUnsaid
<1>0a. /\ DOMAIN v \subseteq Nat \ {0}
      /\ \E last \in DOMAIN v :
             /\ v[last] = c /\ ~Run(i, last)'
             /\ \A k \in DOMAIN v :
                    \/ k = last
                    \/ /\ k + n \in DOMAIN u
                       /\ v[k] = u[k + n]
                       /\ Run(i, k)' => Run(i, k + n)
  <2> HIDE DEF c
  <2>1. Moved(i, n, <<c>>)
    BY DEF c
  <2> QED
    BY <1>0, <2>1, OneMoreRequest
<1> HIDE DEF u, v
<1>1. PICK last \in DOMAIN v :
          /\ v[last] = c /\ ~Run(i, last)'
          /\ \A k \in DOMAIN v :
                 k = last \/ (k + n \in DOMAIN u /\ v[k] = u[k + n] /\ (Run(i, k)' => Run(i, k + n)))
  BY <1>0a
<1>2. DOMAIN v \subseteq Nat \ {0}
  BY <1>0a
<1>3. ASSUME NEW q \in Peers, NEW k \in DOMAIN v, v[k] = <<"announce", q>>
      PROVE  k = last
  <2>1. SUFFICES ASSUME k # last PROVE FALSE
    OBVIOUS
  <2>2. k + n \in DOMAIN u /\ u[k + n] = <<"announce", q>>
    BY <1>1, <1>3, <2>1
  <2>3. k + n > n
    BY <1>0, <1>2
  <2> QED
    BY <2>2, <2>3 DEF u, NoneSaidPast
<1>4. PublishedOnce(i)'
  <2> SUFFICES ASSUME NEW q \in Peers, NEW k \in DOMAIN v, v[k] = <<"publish", q>>
               PROVE  /\ leaving'[i][q] = "publish"
                      /\ Run(i, k)' => q \notin Due(i)'
                      /\ \A l \in DOMAIN v : v[l] = <<"publish", q>> => l = k
    BY DEF PublishedOnce, v
  <2>1. \A l \in DOMAIN v :
            v[l] = <<"publish", q>> =>
                l + n \in DOMAIN u /\ v[l] = u[l + n] /\ (Run(i, l)' => Run(i, l + n))
    BY <1>0, <1>1, RoutineIsQuiet
  <2>2. DOMAIN v \subseteq Nat
    BY <1>2
  <2> QED
    BY <1>0, <2>1, <2>2, PublishedShifted DEF u, v
<1>5. SayingCopy(i)'
  BY DEF SayingCopy, CopyOfUnsaid
<1>6. AnnouncedOnce(i)'
  <2> SUFFICES ASSUME NEW q \in Peers, NEW k \in DOMAIN v, v[k] = <<"announce", q>>
               PROVE  /\ q = notices[said + 1]
                      /\ \A r \in Peers : \A l \in DOMAIN v : v[l] = <<"announce", r>> => l = k
    BY DEF AnnouncedOnce, v
  <2> QED
    BY <1>1, <1>3
<1>7. Kept(i)'
  <2>1. ~SaidLatest(i)'
    BY <1>1, <1>3 DEF SaidLatest, v
  <2> QED
    BY <2>1 DEF Kept, ToBeSaid, OwedPast
<1> QED
  BY <1>4, <1>5, <1>6, <1>7 DEF NoticesOK

\* A recovery has heard the answer to the last of its notices.
LEMMA SaidNotices ==
    ASSUME Typed, NEW i \in Instances, NoticesOK(i),
           NEW c, Answered(i, c), Take(i), requests'[i] = requests[i],
           NEW said \in Nat, said <= Len(unsaid[i]),
           recovery'[i].pc = "idle", unsaid'[i] = SubSeq(unsaid[i], said + 1, Len(unsaid[i])),
           leaving'[i] = leaving[i], Due(i)' = Due(i),
           NoneSaidPast(i, 1), OwedPast(i, said)
    PROVE  NoticesOK(i)'
<1> DEFINE u == Unanswered(i)
           v == Unanswered(i)'
<1>1. /\ DOMAIN v \subseteq Nat \ {0}
      /\ \A k \in DOMAIN v :
             \/ k + 1 \in DOMAIN u /\ v[k] = u[k + 1] /\ (Run(i, k)' => Run(i, k + 1))
             \/ v[k] \in Routine
  BY RestOfWire
<1> HIDE DEF u, v
<1>2. ASSUME NEW q \in Peers, NEW k \in DOMAIN v,
             v[k] = <<"publish", q>> \/ v[k] = <<"announce", q>>
      PROVE  k + 1 \in DOMAIN u /\ u[k + 1] = v[k] /\ (Run(i, k)' => Run(i, k + 1))
  BY <1>1, <1>2, RoutineIsQuiet
<1>3. PublishedOnce(i)'
  <2> SUFFICES ASSUME NEW q \in Peers, NEW k \in DOMAIN v, v[k] = <<"publish", q>>
               PROVE  /\ leaving'[i][q] = "publish"
                      /\ Run(i, k)' => q \notin Due(i)'
                      /\ \A l \in DOMAIN v : v[l] = <<"publish", q>> => l = k
    BY DEF PublishedOnce, v
  <2>1. \A l \in DOMAIN v :
            v[l] = <<"publish", q>> =>
                l + 1 \in DOMAIN u /\ v[l] = u[l + 1] /\ (Run(i, l)' => Run(i, l + 1))
    BY <1>2
  <2>2. DOMAIN v \subseteq Nat /\ 1 \in Nat
    BY <1>1
  <2> QED
    BY <2>1, <2>2, PublishedShifted DEF u, v
<1>4. SayingCopy(i)'
  BY DEF SayingCopy
<1>5. \A q \in Peers : \A k \in DOMAIN v : v[k] # <<"announce", q>>
  <2> SUFFICES ASSUME NEW q \in Peers, NEW k \in DOMAIN v, v[k] = <<"announce", q>>
               PROVE  FALSE
    OBVIOUS
  <2>1. k + 1 \in DOMAIN u /\ u[k + 1] = <<"announce", q>>
    BY <1>2
  <2>2. k + 1 > 1
    BY <1>1
  <2> QED
    BY <2>1, <2>2 DEF u, NoneSaidPast
<1>6. AnnouncedOnce(i)'
  BY <1>5 DEF AnnouncedOnce, v
<1>7. Kept(i)'
  <2> SUFFICES ASSUME NEW p \in Due(i), leaving[i][p] = "no"
               PROVE  \E k \in DOMAIN unsaid'[i] : unsaid'[i][k] = p
    BY DEF Kept, ToBeSaid
  <2>1. unsaid[i] \in Seq(Peers)
    BY DEF Typed, TypeOK
  <2>2. PICK k \in DOMAIN unsaid[i] : unsaid[i][k] = p /\ k > said
    BY DEF OwedPast
  <2>3. k - said \in DOMAIN unsaid'[i] /\ unsaid'[i][k - said] = unsaid[i][k]
    BY <2>1, <2>2
  <2> QED
    BY <2>2, <2>3
<1> QED
  BY <1>3, <1>4, <1>6, <1>7 DEF NoticesOK

\* Everything the notices of an instance depend on is as it was.
Untouched(i) ==
    /\ leaving'[i] = leaving[i]
    /\ owed'[i] = owed[i] /\ unheard'[i] = unheard[i]
    /\ unsaid'[i] = unsaid[i] /\ recovery'[i] = recovery[i]
    /\ answers'[i] = answers[i] /\ requests'[i] = requests[i]

\* Whatever an instance does, the notices of the others are not its concern.
LEMMA OthersUntouched ==
    ASSUME Typed, NEW i \in Instances, NEW j \in Instances \ {i},
           \/ Execute(i) \/ Break(i) \/ GiveUp(i) \/ Reconnect(i) \/ RecoveryStep(i)
           \/ Stop(i) \/ Start(i)
           \/ \E p \in Peers : Join(p, i) \/ Leave(p, i) \/ HandlerStep(p, i)
    PROVE  Untouched(j)
<1>t. /\ recovery \in [Instances -> RecoveryRecord]
      /\ requests \in [Instances -> Seq(Commands)] /\ answers \in [Instances -> Seq(Replies)]
      /\ unsaid \in [Instances -> Seq(Peers)] /\ {owed, unheard} \subseteq [Instances -> SUBSET Peers]
      /\ leaving \in [Instances -> [Peers -> {"no", "leave", "left", "publish"}]]
  BY DEF Typed, TypeOK, RecoveryOK, Replies
<1>1. CASE Execute(i)
  BY <1>1, <1>t DEF Execute, Untouched, pending
<1>2. CASE Break(i)
  BY <1>2, <1>t DEF Break, Lost, Untouched, pending
<1>3. CASE GiveUp(i)
  <2>1. unsaid'[j] = unsaid[j] /\ recovery'[j] = recovery[j]
    BY <1>3, <1>t DEF GiveUp, Recovered, RecoveryFails, pending
  <2>2. UNCHANGED answers /\ requests'[j] = requests[j] /\ leaving'[j] = leaving[j]
        /\ owed'[j] = owed[j] /\ unheard'[j] = unheard[j]
    BY <1>3, <1>t DEF GiveUp
  <2> QED
    BY <2>1, <2>2 DEF Untouched
<1>4. CASE Reconnect(i)
  <2>1. recovery'[j] = recovery[j]
    BY <1>4, <1>t DEF Reconnect
  <2>2. UNCHANGED <<requests, answers, leaving, owed, unheard, unsaid>>
    BY <1>4 DEF Reconnect, pending, history
  <2> QED
    BY <2>1, <2>2 DEF Untouched
<1>5. CASE RecoveryStep(i)
  <2>1. UNCHANGED <<leaving, owed, unheard>>
    BY <1>5 DEF RecoveryStep, history
  <2>2. CASE SyncRooms(i)
    BY <1>t, <2>1, <2>2 DEF SyncRooms, Sync, Request, Untouched
  <2>3. CASE SyncEmpties(i)
    BY <1>t, <2>1, <2>3 DEF SyncEmpties, Sync, Request, Untouched
  <2>4. CASE ReadRoom(i)
    BY <1>t, <2>1, <2>4 DEF ReadRoom, Request, Take, Untouched
  <2>5. CASE ReadCapacity(i)
    BY <1>t, <2>1, <2>5 DEF ReadCapacity, Request, Take, Untouched
  <2>6. CASE Written(i)
    BY <1>t, <2>1, <2>6 DEF Written, Untouched
  <2>7. CASE ReplayNotices(i)
    BY <1>t, <2>1, <2>7 DEF ReplayNotices, Recovered, Say, Request, Untouched, pending
  <2>8. CASE Said(i)
    BY <1>t, <2>1, <2>8 DEF Said, Recovered, Say, Request, Take, Untouched, pending
  <2> QED
    BY <1>5, <2>2, <2>3, <2>4, <2>5, <2>6, <2>7, <2>8 DEF RecoveryStep
<1>6. CASE Stop(i)
  BY <1>6, <1>t DEF Stop, Untouched
<1>7. CASE Start(i)
  BY <1>7, <1>t DEF Start, Untouched, pending, history
<1>8. ASSUME NEW p \in Peers, Join(p, i) PROVE Untouched(j)
  BY <1>8, <1>t DEF Join, Request, Untouched, pending, history
<1>9. ASSUME NEW p \in Peers, Leave(p, i) PROVE Untouched(j)
  BY <1>9, <1>t DEF Leave, Request, Untouched
<1>10. ASSUME NEW p \in Peers, Joined(p, i) PROVE Untouched(j)
  BY <1>10, <1>t DEF Joined, Take, Untouched, pending
<1>11. ASSUME NEW p \in Peers, Left(p, i) PROVE Untouched(j)
  BY <1>11, <1>t DEF Left, Take, Untouched, pending, history
<1>12. ASSUME NEW p \in Peers, Publish(p, i) PROVE Untouched(j)
  BY <1>12, <1>t DEF Publish, Request, Untouched, pending, history
<1>13. ASSUME NEW p \in Peers, Published(p, i) PROVE Untouched(j)
  BY <1>13, <1>t DEF Published, Take, Untouched, pending, history
<1> QED
  BY <1>1, <1>2, <1>3, <1>4, <1>5, <1>6, <1>7, <1>8, <1>9, <1>10, <1>11, <1>12, <1>13
     DEF HandlerStep

\* What they depend on being as it was, so are they.
LEMMA UntouchedNotices ==
    ASSUME Typed, NEW i \in Instances, NoticesOK(i), Untouched(i)
    PROVE  NoticesOK(i)'
<1>1. Due(i) \subseteq Peers
  BY DEF Typed, TypeOK, Due
<1> QED
  BY <1>1, SameWire DEF Untouched, SameNotices, Due

\* Steps of a recovery that say nothing.
LEMMA SilentRecoveryNotices ==
    ASSUME Typed, Typed', NEW i \in Instances, NoticesOK(i), UNCHANGED <<leaving, owed, unheard>>,
           SyncRooms(i) \/ SyncEmpties(i) \/ ReadRoom(i) \/ ReadCapacity(i) \/ Written(i)
    PROVE  NoticesOK(i)'
<1>t. /\ recovery \in [Instances -> RecoveryRecord] /\ recovery[i] \in RecoveryRecord
      /\ recovery'[i] \in RecoveryRecord
      /\ requests \in [Instances -> Seq(Commands)] /\ answers \in [Instances -> Seq(Replies)]
      /\ Due(i) \subseteq Peers
  BY DEF Typed, TypeOK, RecoveryOK, Replies, Due
<1>0. ASSUME UNCHANGED unsaid, recovery[i].pc # "say", recovery'[i].pc # "say"
      PROVE  SameNotices(i)
  BY <1>0, <1>t DEF SameNotices, Due
<1>1. ASSUME NEW peers, NEW next, Sync(i, peers, next) PROVE recovery'[i].pc = "read"
  <2> DEFINE r == [recovery[i] EXCEPT !.pc = "read", !.peers = peers, !.next = next,
                                      !.emptied = (next = "notices")]
  <2>1. recovery' = [recovery EXCEPT ![i] = r] /\ r.pc = "read"
    BY <1>1, <1>t DEF Sync, RecoveryRecord
  <2> HIDE DEF r
  <2> QED
    BY <1>t, <2>1
<1>2. << <<"hgetall">> >> \in Seq(Routine) /\ << <<"get">> >> \in Seq(Routine)
  BY DEF Routine
<1>3. CASE SyncRooms(i) \/ SyncEmpties(i)
  <2>1. /\ UNCHANGED <<answers, unsaid>> /\ recovery[i].pc # "say"
        /\ \/ \E peers, next : Sync(i, peers, next)
           \/ /\ UNCHANGED requests
              /\ \E pc \in {"empties", "notices"} : recovery' = [recovery EXCEPT ![i].pc = pc]
    BY <1>3 DEF SyncRooms, SyncEmpties
  <2>2. ASSUME NEW peers, NEW next, Sync(i, peers, next) PROVE NoticesOK(i)'
    <3>1. SameNotices(i)
      BY <1>0, <1>1, <2>1, <2>2
    <3>2. Request(i, << <<"hgetall">> >>)
      BY <2>2 DEF Sync
    <3> QED
      BY <1>2, <2>1, <3>1, <3>2, RoutineRequested
  <2>3. ASSUME UNCHANGED requests, NEW pc \in {"empties", "notices"},
               recovery' = [recovery EXCEPT ![i].pc = pc]
        PROVE  NoticesOK(i)'
    <3>1. recovery'[i].pc = pc
      BY <1>t, <2>3 DEF RecoveryRecord
    <3>2. SameNotices(i)
      BY <1>0, <2>1, <3>1
    <3> QED
      BY <2>1, <2>3, <3>2, SameWire
  <2> QED
    BY <2>1, <2>2, <2>3
<1>4. ASSUME NEW pc \in Stages \ {"say"}, NEW batch,
             recovery' = [recovery EXCEPT ![i] = [@ EXCEPT !.pc = pc, !.batch = batch]]
      PROVE  recovery'[i].pc = pc /\ recovery'[i].batch = batch /\ recovery'[i].pc # "say"
  <2> DEFINE r == [recovery[i] EXCEPT !.pc = pc, !.batch = batch]
  <2>1. recovery' = [recovery EXCEPT ![i] = r] /\ r.pc = pc /\ r.batch = batch
    BY <1>4, <1>t DEF RecoveryRecord
  <2> HIDE DEF r
  <2> QED
    BY <1>t, <2>1
<1>5. recovery[i].next \in Stages \ {"say"} /\ {"capacity", "write"} \subseteq Stages \ {"say"}
  BY <1>t DEF RecoveryRecord, Stages, Rests
<1>6. \A batch \in Seq(Pipeline) : batch \in Seq(Routine)
  BY RoutineIsQuiet, SeqMonotonic
<1>7. recovery'[i].pc \in {"capacity", "write"} => recovery'[i].batch \in Seq(Pipeline)
  BY DEF Typed, RecoveryOK
<1>8. CASE ReadRoom(i)
  <2> DEFINE batch == SetToSeq({<<"hdel", p>> : p \in Stale(i, Answer(i))})
                      \o SetToSeq({<<"hset", p>> : p \in recovery[i].peers})
  <2>0. /\ recovery[i].pc # "say" /\ UNCHANGED unsaid
        /\ Answered(i, <<"hgetall">>) /\ Take(i)
    BY <1>8 DEF ReadRoom
  <2>1. CASE recovery[i].peers # {} /\ MaxPeers # NoCapacity
    <3>1. /\ recovery' = [recovery EXCEPT ![i] = [@ EXCEPT !.pc = "capacity", !.batch = batch]]
          /\ Request(i, << <<"get">> >>)
      BY <1>8, <2>1 DEF ReadRoom
    <3> HIDE DEF batch
    <3>2. SameNotices(i)
      BY <1>0, <1>4, <1>5, <2>0, <3>1
    <3> QED
      BY <1>2, <2>0, <3>1, <3>2, AnswerTaken
  <2>2. CASE ~(recovery[i].peers # {} /\ MaxPeers # NoCapacity)
    <3> DEFINE pc == IF batch = <<>> THEN recovery[i].next ELSE "write"
    <3>1. /\ recovery' = [recovery EXCEPT ![i] = [@ EXCEPT !.pc = pc, !.batch = batch]]
          /\ Request(i, batch)
      BY <1>8, <2>2 DEF ReadRoom
    <3> HIDE DEF batch
    <3>2. pc \in Stages \ {"say"} /\ (batch # <<>> => pc = "write")
      BY <1>5
    <3> HIDE DEF pc
    <3>3. recovery'[i].pc = pc /\ recovery'[i].batch = batch /\ SameNotices(i)
      BY <1>0, <1>4, <2>0, <3>1, <3>2
    <3>4. batch \in Seq(Routine)
      BY <1>6, <1>7, <3>2, <3>3, EmptySeq
    <3> QED
      BY <2>0, <3>1, <3>3, <3>4, AnswerTaken
  <2> QED
    BY <2>1, <2>2
<1>9. CASE ReadCapacity(i)
  <2> DEFINE batch == recovery[i].batch
                      \o IF Answer(i).capacity = NoCapacity THEN << <<"set">> >> ELSE <<>>
  <2>1. /\ recovery[i].pc # "say" /\ UNCHANGED unsaid
        /\ Answered(i, <<"get">>) /\ Take(i)
        /\ recovery' = [recovery EXCEPT ![i] = [@ EXCEPT !.pc = "write", !.batch = batch]]
        /\ Request(i, batch)
    BY <1>9 DEF ReadCapacity
  <2> HIDE DEF batch
  <2>2. recovery'[i].pc = "write" /\ recovery'[i].batch = batch /\ SameNotices(i)
    BY <1>0, <1>4, <1>5, <2>1
  <2>3. batch \in Seq(Routine)
    BY <1>6, <1>7, <2>2
  <2> QED
    BY <2>1, <2>2, <2>3, AnswerTaken
<1>10. CASE Written(i)
  <2>1. /\ recovery[i].pc = "write" /\ UNCHANGED <<requests, unsaid>>
        /\ Len(recovery[i].batch) <= Len(answers[i])
        /\ recovery' = [recovery EXCEPT ![i] = [@ EXCEPT !.pc = recovery[i].next, !.batch = <<>>]]
        /\ answers'[i] = SubSeq(answers[i], Len(recovery[i].batch) + 1, Len(answers[i]))
    BY <1>10, <1>t DEF Written
  <2>2. SameNotices(i)
    BY <1>0, <1>4, <1>5, <2>1
  <2>3. Len(recovery[i].batch) \in 0..Len(answers[i])
    <3>1. recovery[i].batch \in Seq(Pipeline)
      BY <2>1 DEF Typed, RecoveryOK
    <3>2. answers[i] \in Seq(Replies)
      BY <1>t
    <3>3. Len(recovery[i].batch) \in Nat /\ Len(answers[i]) \in Nat
      BY <3>1, <3>2, LenProperties
    <3> QED
      BY <2>1, <3>3
  <2>4. <<>> \in Seq(Routine) /\ requests'[i] = requests[i] \o <<>>
    BY <1>t, <2>1, EmptySeq, ConcatEmptySeq
  <2>5. Moved(i, Len(recovery[i].batch), <<>>)
    BY <2>1, <2>4 DEF Moved
  <2> QED
    BY <2>2, <2>3, <2>4, <2>5, QuietMove
<1> QED
  BY <1>3, <1>8, <1>9, <1>10

\* Steps of a recovery that copy the notices and say them.
LEMMA SayingNotices ==
    ASSUME Typed, Typed', NEW i \in Instances, NoticesOK(i), UNCHANGED <<leaving, owed, unheard>>,
           ReplayNotices(i) \/ Said(i)
    PROVE  NoticesOK(i)'
<1>t. /\ recovery \in [Instances -> RecoveryRecord] /\ recovery[i] \in RecoveryRecord
      /\ requests \in [Instances -> Seq(Commands)] /\ answers \in [Instances -> Seq(Replies)]
      /\ answers[i] \in Seq(Replies)
      /\ unsaid \in [Instances -> Seq(Peers)] /\ unsaid[i] \in Seq(Peers)
      /\ Due(i) \subseteq Peers
  BY DEF Typed, TypeOK, RecoveryOK, Replies, Due
<1>1. ASSUME NEW said \in Nat, Recovered(i, said)
      PROVE  /\ recovery'[i] = Idle /\ recovery'[i].pc = "idle"
             /\ unsaid'[i] = SubSeq(unsaid[i], said + 1, Len(unsaid[i]))
  BY <1>1, <1>t DEF Recovered, Idle
<1>2. ASSUME NEW notices, NEW said \in Nat, Say(i, notices, said)
      PROVE  /\ recovery'[i].pc = "say" /\ recovery'[i].batch = notices /\ recovery'[i].said = said
             /\ UNCHANGED unsaid
             /\ requests'[i] = requests[i] \o << <<"announce", notices[said + 1]>> >>
  <2> DEFINE r == [recovery[i] EXCEPT !.pc = "say", !.batch = notices, !.said = said]
  <2>1. recovery' = [recovery EXCEPT ![i] = r] /\ r.pc = "say" /\ r.batch = notices /\ r.said = said
    BY <1>2, <1>t DEF Say, RecoveryRecord
  <2>2. UNCHANGED unsaid /\ Request(i, << <<"announce", notices[said + 1]>> >>)
    BY <1>2 DEF Say, pending
  <2> HIDE DEF r
  <2> QED
    BY <1>t, <2>1, <2>2 DEF Request
<1>3. CASE ReplayNotices(i)
  <2>0. recovery[i].pc = "notices" /\ UNCHANGED answers
    BY <1>3 DEF ReplayNotices
  <2>1. CASE unsaid[i] = <<>>
    <3>1. Recovered(i, 0) /\ UNCHANGED requests
      BY <1>3, <2>1 DEF ReplayNotices
    <3>2. recovery'[i].pc = "idle" /\ unsaid'[i] = unsaid[i]
      BY <1>1, <1>t, <2>1, <3>1
    <3>3. SameNotices(i)
      BY <1>t, <2>0, <3>2 DEF SameNotices, Due
    <3> QED
      BY <2>0, <3>1, <3>3, SameWire
  <2>2. CASE unsaid[i] # <<>>
    <3> DEFINE notices == unsaid[i]
    <3>1. Say(i, notices, 0)
      BY <1>3, <2>2 DEF ReplayNotices
    <3>2. CopyOfUnsaid(i, notices) /\ 0 < Len(notices)
      BY <1>t, <2>2, EmptySeq, LenProperties DEF CopyOfUnsaid
    <3>3. NoneSaidPast(i, 0)
      BY <2>0 DEF NoticesOK, AnnouncedOnce, NoneSaidPast
    <3>4. OwedPast(i, 0)
      BY <1>t DEF NoticesOK, Kept, OwedPast
    <3>5. 0 \in 0..Len(answers[i]) /\ answers'[i] = SubSeq(answers[i], 0 + 1, Len(answers[i]))
      BY <1>t, <2>0, LenProperties, SubSeqFull
    <3> HIDE DEF notices
    <3>6. Moved(i, 0, << <<"announce", notices[0 + 1]>> >>)
      BY <1>2, <3>1, <3>5 DEF Moved
    <3>7. /\ recovery'[i].pc = "say" /\ recovery'[i].batch = notices /\ recovery'[i].said = 0
          /\ unsaid'[i] = unsaid[i]
      BY <1>2, <3>1
    <3> QED
      <4>1. 0 \in Nat /\ leaving'[i] = leaving[i] /\ Due(i)' = Due(i)
        BY DEF Due
      <4> QED
        BY <3>2, <3>3, <3>4, <3>5, <3>6, <3>7, <4>1, SayNotices, Zenon
  <2> QED
    BY <2>1, <2>2
<1>4. CASE Said(i)
  <2> DEFINE notices == recovery[i].batch
             said == recovery[i].said + 1
             c == <<"announce", notices[said]>>
  <2>0. recovery[i].pc = "say" /\ Answered(i, c) /\ Take(i)
    BY <1>4 DEF Said
  <2>1. /\ notices \in Seq(Peers) /\ said \in Nat /\ said <= Len(notices)
        /\ Len(notices) \in Nat /\ Len(unsaid[i]) \in Nat
        /\ Len(notices) <= Len(unsaid[i])
        /\ \A k \in 1..Len(notices) : notices[k] = unsaid[i][k]
        /\ notices[said] \in Peers
    <3>1. /\ recovery[i].batch \in Seq(Peers)
          /\ recovery[i].said < Len(recovery[i].batch)
      BY <2>0 DEF Typed, RecoveryOK
    <3>2. recovery[i].said \in Nat
      BY <1>t DEF RecoveryRecord
    <3>3. Len(recovery[i].batch) \in Nat /\ Len(unsaid[i]) \in Nat
      BY <1>t, <3>1, LenProperties
    <3>4. /\ Len(recovery[i].batch) <= Len(unsaid[i])
          /\ \A k \in 1..Len(recovery[i].batch) : recovery[i].batch[k] = unsaid[i][k]
      BY <2>0 DEF NoticesOK, SayingCopy
    <3>5. /\ recovery[i].said + 1 \in Nat
          /\ recovery[i].said + 1 \in 1..Len(recovery[i].batch)
          /\ recovery[i].said + 1 <= Len(recovery[i].batch)
      BY <3>1, <3>2, <3>3
    <3>6. recovery[i].batch[recovery[i].said + 1] \in Peers
      BY <3>1, <3>5, ElementOfSeq
    <3> QED
      BY <3>1, <3>3, <3>4, <3>5, <3>6
  <2>2. /\ 1 \in DOMAIN Unanswered(i) /\ Unanswered(i)[1] = c /\ Run(i, 1)
        /\ 1 \in 0..Len(answers[i])
        /\ answers'[i] = SubSeq(answers[i], 1 + 1, Len(answers[i]))
    BY <2>0, OldestAnswered
  <2>3. NoneSaidPast(i, 1)
    BY <2>1, <2>2 DEF NoticesOK, AnnouncedOnce, NoneSaidPast
  <2>4. OwedPast(i, said)
    <3>1. SaidLatest(i)
      BY <2>1, <2>2 DEF SaidLatest
    <3>2. \A k \in DOMAIN unsaid[i] : ToBeSaid(i, k) => k > said
      BY <1>t, <2>0, <2>1, <3>1 DEF ToBeSaid, RecoveryRecord
    <3> QED
      BY <3>2 DEF NoticesOK, Kept, OwedPast
  <2>5. \/ Recovered(i, said) /\ UNCHANGED requests
        \/ said # Len(notices) /\ Say(i, notices, said)
    BY <1>4 DEF Said
  <2>6. leaving'[i] = leaving[i] /\ Due(i)' = Due(i)
    BY DEF Due
  <2> HIDE DEF notices, said, c
  <2>7. CASE Recovered(i, said) /\ UNCHANGED requests
    <3>1. requests'[i] = requests[i] /\ said <= Len(unsaid[i])
      BY <2>1, <2>7
    <3>2. recovery'[i].pc = "idle"
          /\ unsaid'[i] = SubSeq(unsaid[i], said + 1, Len(unsaid[i]))
      BY <1>1, <2>1, <2>7
    <3>3. said \in Nat
      BY <2>1
    <3> QED
      BY <2>0, <2>3, <2>4, <2>6, <3>1, <3>2, <3>3, SaidNotices
  <2>8. CASE said # Len(notices) /\ Say(i, notices, said)
    <3>1. said < Len(notices) /\ said \in Nat
      BY <2>1, <2>8
    <3>2. /\ recovery'[i].pc = "say" /\ recovery'[i].batch = notices /\ recovery'[i].said = said
          /\ unsaid'[i] = unsaid[i]
          /\ requests'[i] = requests[i] \o << <<"announce", notices[said + 1]>> >>
      BY <1>2, <2>8, <3>1
    <3>3. Moved(i, 1, << <<"announce", notices[said + 1]>> >>)
      BY <2>2, <3>2 DEF Moved
    <3> QED
      <4>1. CopyOfUnsaid(i, notices)
        BY <2>1 DEF CopyOfUnsaid
      <4> QED
        BY <2>2, <2>3, <2>4, <2>6, <3>1, <3>2, <3>3, <4>1, SayNotices, Zenon
  <2> QED
    BY <2>5, <2>7, <2>8
<1> QED
  BY <1>3, <1>4

-----------------------------------------------------------------------------
(* The steps *)

\* What the connections do, and the end of the relay.
LEMMA ConnectionNotices ==
    ASSUME Typed, Typed', NEW i \in Instances, NoticesOK(i),
           Break(i) \/ Restart \/ GiveUp(i) \/ Reconnect(i) \/ Stop(i) \/ Start(i)
    PROVE  NoticesOK(i)'
<1>t. /\ recovery \in [Instances -> RecoveryRecord] /\ recovery[i] \in RecoveryRecord
      /\ requests \in [Instances -> Seq(Commands)] /\ answers \in [Instances -> Seq(Replies)]
      /\ leaving \in [Instances -> [Peers -> {"no", "leave", "left", "publish"}]]
      /\ {owed, unheard} \subseteq [Instances -> SUBSET Peers] /\ Due(i) \subseteq Peers
      /\ unsaid \in [Instances -> Seq(Peers)]
      /\ Idle.pc = "idle"
  BY DEF Typed, TypeOK, RecoveryOK, Replies, Idle, Due
<1>0. ASSUME UNCHANGED <<leaving, owed, unheard, unsaid>>, recovery'[i] = recovery[i] \/
             (recovery[i].pc # "say" /\ recovery'[i].pc # "say")
      PROVE  SameNotices(i)
  BY <1>0, <1>t DEF SameNotices, Due
<1>1. CASE Break(i)
  <2>1. UNCHANGED <<leaving, owed, unheard, unsaid, recovery>> /\ Lost({i})
    BY <1>1 DEF Break, pending
  <2> QED
    BY <1>0, <2>1, LostNotices
<1>2. CASE Restart
  <2>1. UNCHANGED <<leaving, owed, unheard, unsaid, recovery>> /\ Lost(Instances)
    BY <1>2 DEF Restart, pending
  <2> QED
    BY <1>0, <2>1, LostNotices
<1>3. CASE GiveUp(i)
  <2>1. answers[i] = <<>> /\ UNCHANGED answers
    BY <1>3 DEF GiveUp, Typed, WireOK
  <2>2. requests'[i] = <<>>
    BY <1>3, <1>t DEF GiveUp
  <2>3. Unanswered(i)' = <<>>
    <3>1. Unanswered(i)' = OnWire(<<>>, <<>>)
      BY <2>1, <2>2 DEF Unanswered, OnWire
    <3> QED
      BY <3>1, EmptySeq, OnlyRequests
  <2>4. recovery'[i].pc # "say"
        /\ (WritesLast(i) \/ unsaid'[i] = unsaid[i])
    BY <1>3, <1>t DEF GiveUp, Recovered, RecoveryFails, pending
  <2>5. /\ owed'[i] = owed[i]
        /\ unheard'[i] = unheard[i] \cup {p \in Peers : leaving[i][p] = "publish"}
        /\ \A p \in Peers : leaving[i][p] \in {"leave", "left"} => leaving'[i][p] = "left"
    BY <1>3, <1>t DEF GiveUp
  <2>6. ASSUME NEW p \in Due(i)'
        PROVE  leaving'[i][p] # "no" \/ \E k \in DOMAIN unsaid'[i] : unsaid'[i][k] = p
    <3>1. p \in Due(i) /\ p \in Peers /\ leaving[i][p] \in {"no", "leave", "left"}
      BY <1>t, <2>5, <2>6 DEF Due
    <3>2. CASE leaving[i][p] # "no"
      BY <2>5, <3>1, <3>2
    <3>3. CASE leaving[i][p] = "no"
      <4>1. PICK k \in DOMAIN unsaid[i] : unsaid[i][k] = p
        BY <3>1, <3>3 DEF NoticesOK, Kept
      <4>2. ~WritesLast(i)
        BY <4>1, EmptySeq DEF WritesLast
      <4> QED
        BY <2>4, <4>1, <4>2
    <3> QED
      BY <3>2, <3>3
  <2> QED
    BY <2>3, <2>4, <2>6, SilentWire
<1>4. CASE Reconnect(i) \/ Start(i)
  <2>1. UNCHANGED <<requests, answers, leaving, owed, unheard, unsaid>>
    BY <1>4 DEF Reconnect, Start, pending, history
  <2>2. \/ UNCHANGED recovery
        \/ recovery[i] = Idle /\ recovery' = [recovery EXCEPT ![i].pc = "rooms"]
    BY <1>4 DEF Reconnect, Start, Typed, WireOK
  <2>3. recovery' = [recovery EXCEPT ![i].pc = "rooms"] => recovery'[i].pc = "rooms"
    BY <1>t DEF RecoveryRecord
  <2>4. SameNotices(i)
    BY <1>0, <1>t, <2>1, <2>2, <2>3
  <2> QED
    BY <2>1, <2>4, SameWire
<1>5. CASE Stop(i)
  <2>1. requests'[i] = <<>> /\ answers'[i] = <<>> /\ recovery'[i] = Idle /\ Due(i)' = {}
    BY <1>5, <1>t DEF Stop, Due
  <2>2. Unanswered(i)' = <<>>
    <3>1. Unanswered(i)' = OnWire(<<>>, <<>>)
      BY <2>1 DEF Unanswered, OnWire
    <3> QED
      BY <3>1, EmptySeq, OnlyRequests
  <2> QED
    BY <1>t, <2>1, <2>2, SilentWire
<1> QED
  BY <1>1, <1>2, <1>3, <1>4, <1>5

\* Joins and leaves up to the publication.
LEMMA MembershipNotices ==
    ASSUME Typed, Typed', NEW i \in Instances, NEW p \in Peers, NoticesOK(i),
           Join(p, i) \/ Leave(p, i) \/ Joined(p, i) \/ Left(p, i)
    PROVE  NoticesOK(i)'
<1>t. /\ leaving \in [Instances -> [Peers -> {"no", "leave", "left", "publish"}]]
      /\ {owed, unheard} \subseteq [Instances -> SUBSET Peers]
      /\ Due(i) \subseteq Peers /\ Due(i)' \subseteq Peers
  BY DEF Typed, TypeOK, Due
<1>1. << <<"join", p>> >> \in Seq(Routine) /\ << <<"leave", p>> >> \in Seq(Routine)
  BY DEF Routine
<1>2. CASE Join(p, i)
  <2>1. UNCHANGED <<leaving, owed, unheard, unsaid, recovery, answers>>
        /\ Request(i, << <<"join", p>> >>)
    BY <1>2 DEF Join, pending, history
  <2>2. SameNotices(i)
    BY <1>t, <2>1 DEF SameNotices, Due
  <2> QED
    BY <1>1, <2>1, <2>2, RoutineRequested
<1>3. CASE Leave(p, i)
  <2>1. /\ leaving[i][p] = "no" /\ Due(i)' = Due(i) \cup {p}
        /\ UNCHANGED <<answers, unsaid, recovery>>
        /\ \/ /\ leaving' = [leaving EXCEPT ![i][p] = "leave"]
              /\ Request(i, << <<"leave", p>> >>)
           \/ /\ leaving' = [leaving EXCEPT ![i][p] = "left"]
              /\ UNCHANGED requests
    BY <1>3, <1>t DEF Leave, Due
  <2>2. /\ leaving'[i][p] \in {"leave", "left"}
        /\ \A q \in Peers \ {p} : leaving'[i][q] = leaving[i][q]
    BY <1>t, <2>1
  <2>3. SameNotices(i)
    BY <1>t, <2>1, <2>2 DEF SameNotices
  <2> QED
    BY <1>1, <2>1, <2>3, RoutineRequested, SameWire
<1>4. CASE Joined(p, i)
  <2>1. UNCHANGED <<leaving, owed, unheard, unsaid, recovery, requests>>
        /\ Answered(i, <<"join", p>>) /\ Take(i)
    BY <1>4 DEF Joined, pending
  <2>2. SameNotices(i)
    BY <1>t, <2>1 DEF SameNotices, Due
  <2> QED
    BY <2>1, <2>2, AnswerTaken
<1>5. CASE Left(p, i)
  <2>1. /\ UNCHANGED <<owed, unheard, unsaid, recovery, requests>>
        /\ leaving[i][p] = "leave" /\ leaving' = [leaving EXCEPT ![i][p] = "left"]
        /\ Answered(i, <<"leave", p>>) /\ Take(i)
    BY <1>5 DEF Left, pending, history
  <2>2. leaving'[i][p] = "left" /\ \A q \in Peers \ {p} : leaving'[i][q] = leaving[i][q]
    BY <1>t, <2>1
  <2>3. SameNotices(i)
    BY <1>t, <2>1, <2>2 DEF SameNotices, Due
  <2> QED
    BY <2>1, <2>3, AnswerTaken
<1> QED
  BY <1>2, <1>3, <1>4, <1>5

AllNoticesOK == \A i \in Instances : NoticesOK(i)

\* Every step keeps the invariant on every instance.
LEMMA NoticesStep == Typed /\ Typed' /\ AllNoticesOK /\ [Next]_vars => AllNoticesOK'
<1> SUFFICES ASSUME Typed, Typed', AllNoticesOK, [Next]_vars, NEW j \in Instances
             PROVE  NoticesOK(j)'
  BY DEF AllNoticesOK
<1>0. NoticesOK(j)
  BY DEF AllNoticesOK
<1>1. CASE Restart
  BY <1>0, <1>1, ConnectionNotices
<1>2. ASSUME NEW i \in Instances \ {j},
             \/ Execute(i) \/ Break(i) \/ GiveUp(i) \/ Reconnect(i) \/ RecoveryStep(i)
             \/ Stop(i) \/ Start(i)
             \/ \E p \in Peers : Join(p, i) \/ Leave(p, i) \/ HandlerStep(p, i)
      PROVE  NoticesOK(j)'
  BY <1>0, <1>2, OthersUntouched, UntouchedNotices
<1>3. CASE Execute(j)
  BY <1>0, <1>3, NoticesExecuted
<1>4. CASE Break(j) \/ GiveUp(j) \/ Reconnect(j) \/ Stop(j) \/ Start(j)
  BY <1>0, <1>4, ConnectionNotices
<1>5. CASE RecoveryStep(j)
  <2>1. UNCHANGED <<leaving, owed, unheard>>
    BY <1>5 DEF RecoveryStep, history
  <2> QED
    BY <1>0, <1>5, <2>1, SilentRecoveryNotices, SayingNotices DEF RecoveryStep
<1>6. ASSUME NEW p \in Peers, Join(p, j) \/ Leave(p, j) \/ HandlerStep(p, j)
      PROVE  NoticesOK(j)'
  BY <1>0, <1>6, MembershipNotices, PublishNotices, PublishedNotices DEF HandlerStep
<1>7. CASE UNCHANGED vars
  <2>1. Untouched(j)
    BY <1>7 DEF vars, Untouched, Due
  <2> QED
    BY <1>0, <2>1, UntouchedNotices
<1> QED
  BY <1>1, <1>2, <1>3, <1>4, <1>5, <1>6, <1>7 DEF Next

\* A departure that Redis has not published is with the handler of the leave or among
\* the pending notices, through outages, restarts of Redis, and recoveries that fail
\* half way through saying what they copied, unless the code has lost its notice: the
\* PUBLISH of the handler was not answered when ioredis gave up (publishToChannels
\* fails and is only logged), or the relay was stopped.
THEOREM NoticesKeptCorrect == Spec => []NoticesKept
<1>1. Init => AllNoticesOK
  <2> SUFFICES ASSUME Init, NEW i \in Instances PROVE NoticesOK(i)
    BY DEF AllNoticesOK
  <2>1. answers[i] = <<>> /\ requests[i] = <<>> /\ recovery[i] = Idle /\ Due(i) = {}
    BY DEF Init, Due
  <2>2. Unanswered(i) = <<>>
    <3>1. Unanswered(i) = OnWire(<<>>, <<>>)
      BY <2>1 DEF Unanswered, OnWire
    <3> QED
      BY <3>1, EmptySeq, OnlyRequests
  <2>3. DOMAIN Unanswered(i) = {} /\ recovery[i].pc = "idle"
    BY <2>1, <2>2, EmptySeq DEF Idle
  <2> QED
    BY <2>1, <2>3 DEF NoticesOK, PublishedOnce, SayingCopy, AnnouncedOnce, Kept
<1>2. AllNoticesOK => NoticesKept
  BY DEF AllNoticesOK, NoticesOK, Kept, NoticesKept
<1> QED
  BY <1>1, <1>2, TypedInit, TypedStep, NoticesStep, PTL DEF Spec
=============================================================================
