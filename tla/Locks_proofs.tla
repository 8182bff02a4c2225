------------------------------ MODULE Locks_proofs ------------------------------
(***************************************************************************)
(* Proofs about Locks, for every set of peers and calls, every choice of   *)
(* times and every bound.                                                  *)
(***************************************************************************)
EXTENDS Locks, SequenceTheorems, WellFoundedInduction, TLAPS

-----------------------------------------------------------------------------
\* Claims and their resolution at a time, which the operators of Locks take from the
\* clock.

ActiveAt(claim, now) == claim # NoClaim /\ (claim.until = None \/ claim.until > now)

ClaimantsAt(mine, now) == {q \in Peers : ActiveAt(mine[q], now)}

WinsAt(mine, now, q) ==
    /\ q \in ClaimantsAt(mine, now)
    /\ \A r \in ClaimantsAt(mine, now) \ {q} :
           mine[q].at < mine[r].at \/ (mine[q].at = mine[r].at /\ q < r)

WinnerAt(mine, now) == CHOOSE q \in Peers : WinsAt(mine, now, q)

ResolveAt(mine, now) ==
    IF ClaimantsAt(mine, now) = {} THEN Free
    ELSE StateOf(mine, WinnerAt(mine, now))

PrunedAt(mine, now) == [q \in Peers |-> IF ActiveAt(mine[q], now) THEN mine[q] ELSE NoClaim]

\* Two claims that tell the same: they are equal or both have ended.
AlikeAt(one, other, now) == one = other \/ (~ActiveAt(one, now) /\ ~ActiveAt(other, now))

(* Of some numbers one is the least. *)
LEMMA Least ==
  ASSUME NEW T, T \subseteq Nat, T # {}
  PROVE  \E t \in T : \A u \in T : t <= u
<1> DEFINE R == {ss \in Nat \X Nat : ss[1] < ss[2]}
<1>1. IsWellFoundedOn(R, Nat)
  BY NatLessThanWellFounded DEF OpToRel
<1> HIDE DEF R
<1>2. PICK t \in T : \A u \in T : ~(<<u, t>> \in R)
  BY <1>1, WFMin
<1>3. ASSUME NEW u \in T PROVE t <= u
  <2>1. u \in Nat /\ t \in Nat /\ <<u, t>> \notin R
    BY <1>2
  <2>2. ~(u < t)
    BY <2>1 DEF R
  <2> QED BY <2>1, <2>2
<1> QED BY <1>3

(* Among the claims that are active one wins, and no other does. *)
LEMMA OneWinner ==
  ASSUME NEW mine \in [Peers -> ClaimType], NEW now \in Nat,
         ClaimantsAt(mine, now) # {}
  PROVE  /\ WinnerAt(mine, now) \in Peers
         /\ WinsAt(mine, now, WinnerAt(mine, now))
         /\ \A q \in Peers : WinsAt(mine, now, q) => q = WinnerAt(mine, now)
<1> DEFINE C == ClaimantsAt(mine, now)
<1>1. C \subseteq Peers /\ Peers \subseteq Nat /\ \A q \in C : mine[q].at \in Nat
  BY PeersAreOrdered DEF ClaimantsAt, ClaimType
<1>2. PICK t \in {mine[q].at : q \in C} : \A u \in {mine[q].at : q \in C} : t <= u
  <2>1. {mine[q].at : q \in C} \subseteq Nat /\ {mine[q].at : q \in C} # {}
    BY <1>1
  <2> HIDE DEF C
  <2> QED BY <2>1, Least
<1>3. PICK w \in {q \in C : mine[q].at = t} : \A r \in {q \in C : mine[q].at = t} : w <= r
  <2>1. {q \in C : mine[q].at = t} \subseteq Nat /\ {q \in C : mine[q].at = t} # {}
    BY <1>1, <1>2
  <2> HIDE DEF C
  <2> QED BY <2>1, Least
<1>4. WinsAt(mine, now, w)
  <2>1. ASSUME NEW r \in C \ {w} PROVE mine[w].at < mine[r].at \/ (mine[w].at = mine[r].at /\ w < r)
    <3>1. mine[w].at = t /\ t <= mine[r].at /\ mine[r].at \in Nat /\ t \in Nat /\ w \in Nat /\ r \in Nat
      BY <1>1, <1>2, <1>3
    <3>2. CASE mine[r].at = t
      BY <3>1, <3>2, <1>3
    <3>3. CASE mine[r].at # t
      BY <3>1, <3>3
    <3> QED BY <3>2, <3>3
  <2> QED BY <2>1, <1>3 DEF WinsAt
<1>5. ASSUME NEW q \in Peers, NEW r \in Peers, WinsAt(mine, now, q), WinsAt(mine, now, r)
      PROVE  q = r
  BY <1>1, <1>5 DEF WinsAt
<1>6. w \in Peers
  BY <1>1, <1>3
<1> HIDE DEF C
<1>7. WinnerAt(mine, now) \in Peers /\ WinsAt(mine, now, WinnerAt(mine, now))
  BY <1>4, <1>6 DEF WinnerAt
<1> QED BY <1>5, <1>7

(* What claims resolve to is a state, whose holder, if there is one, has the claim that
   wins. *)
LEMMA Resolution ==
  ASSUME NEW mine \in [Peers -> ClaimType], NEW now \in Nat
  PROVE  /\ ResolveAt(mine, now) \in States
         /\ \A q \in Peers : ResolveAt(mine, now).holder = q => WinsAt(mine, now, q)
<1>1. CASE ClaimantsAt(mine, now) = {}
  BY <1>1, PeersAreOrdered DEF ResolveAt, Free, None, States
<1>2. CASE ClaimantsAt(mine, now) # {}
  <2>1. ResolveAt(mine, now) = StateOf(mine, WinnerAt(mine, now))
    BY <1>2 DEF ResolveAt
  <2> QED BY <1>2, <2>1, OneWinner DEF StateOf, States, ClaimType
<1> QED BY <1>1, <1>2

(* Claims that are alike resolve to the same. *)
LEMMA AlikeResolve ==
  ASSUME NEW mine \in [Peers -> ClaimType], NEW yours \in [Peers -> ClaimType],
         NEW now \in Nat,
         \A q \in Peers : AlikeAt(mine[q], yours[q], now)
  PROVE  ResolveAt(mine, now) = ResolveAt(yours, now)
<1>1. /\ ClaimantsAt(mine, now) = ClaimantsAt(yours, now)
      /\ \A q \in ClaimantsAt(mine, now) : mine[q] = yours[q]
  BY DEF ClaimantsAt, AlikeAt
<1>2. CASE ClaimantsAt(mine, now) = {}
  BY <1>1, <1>2 DEF ResolveAt
<1>3. CASE ClaimantsAt(mine, now) # {}
  <2>1. WinnerAt(mine, now) \in Peers /\ WinsAt(mine, now, WinnerAt(mine, now))
    BY <1>3, OneWinner
  <2>2. WinsAt(yours, now, WinnerAt(mine, now))
    BY <1>1, <2>1 DEF WinsAt
  <2>3. WinnerAt(mine, now) = WinnerAt(yours, now)
    BY <1>1, <1>3, <2>1, <2>2, OneWinner
  <2>4. WinnerAt(mine, now) \in ClaimantsAt(mine, now)
    BY <2>1 DEF WinsAt
  <2> QED BY <1>1, <1>3, <2>3, <2>4 DEF ResolveAt, StateOf
<1> QED BY <1>2, <1>3

-----------------------------------------------------------------------------
\* Signals on their way.

\* What a signal looks like at a time: it was sent, its delay is not over, and a claim
\* is as old as the signal that carries it.
OnTheWay(m, now) ==
    /\ m.sentAt <= now /\ now <= m.sentAt + MaxDelay
    /\ m.claim.at = IF m.type = "claim" THEN m.sentAt ELSE None
    /\ m.type # "claim" => m.claim = NoClaim

Signals(now) == {m \in Messages : OnTheWay(m, now)}

\* The last claim or release on its way, or what is known if there is none, tells what
\* the sender's own claim tells.
Arrives(s, known, own, now) ==
    /\ (\A i \in 1..Len(s) : ~IsLockFrame(s[i])) => AlikeAt(known, own, now)
    /\ \A i \in 1..Len(s) :
           IsLockFrame(s[i]) /\ (\A j \in 1..Len(s) : j > i => ~IsLockFrame(s[j]))
               => AlikeAt(s[i].claim, own, now)

Positive(m) == m.type \in {"hello", "welcome", "presence"}
Negative(m) == m.type \in {"leave", "peer-left"}

\* The sender will be in the registry once everything in s has been handled.
Stays(s, present) ==
    \/ \E i \in 1..Len(s) :
           Positive(s[i]) /\ \A j \in 1..Len(s) : j > i => ~Negative(s[j])
    \/ present /\ \A i \in 1..Len(s) : ~Negative(s[i])

Asks(s) == \E i \in 1..Len(s) : s[i].type = "hello"

(* A signal is about the locks, or about who is there. *)
LEMMA OfOneKind ==
  ASSUME NEW m \in Messages
  PROVE  /\ IsLockFrame(m) => ~Positive(m) /\ ~Negative(m) /\ m.type # "hello"
         /\ Positive(m) => ~Negative(m) /\ ~IsLockFrame(m)
         /\ Negative(m) => ~Positive(m) /\ ~IsLockFrame(m)
         /\ m.type = "hello" => Positive(m)
         /\ IsLockFrame(m) \/ Positive(m) \/ Negative(m)
BY DEF Messages, IsLockFrame, Positive, Negative

(* A claim or release that is sent tells what the sender's claim is from then on; other
   signals say nothing of it. *)
LEMMA ArrivesAppend ==
  ASSUME NEW s \in Seq(Messages), NEW m \in Messages, NEW known, NEW own, NEW now
  PROVE  /\ IsLockFrame(m) => Arrives(Append(s, m), known, m.claim, now)
         /\ ~IsLockFrame(m) /\ Arrives(s, known, own, now)
                => Arrives(Append(s, m), known, own, now)
<1> DEFINE t == Append(s, m)
           n == Len(s)
<1>1. n \in Nat /\ Len(t) = n + 1 /\ t[n + 1] = m /\ \A i \in 1..n : t[i] = s[i]
  BY LenProperties, AppendProperties
<1> HIDE DEF t, n
<1>2. ASSUME IsLockFrame(m) PROVE Arrives(t, known, m.claim, now)
  <2>1. ~\A i \in 1..Len(t) : ~IsLockFrame(t[i])
    BY <1>1, <1>2
  <2>2. ASSUME NEW i \in 1..Len(t), \A j \in 1..Len(t) : j > i => ~IsLockFrame(t[j])
        PROVE  t[i].claim = m.claim
    <3>1. ~(n + 1 > i)
      BY <1>1, <1>2, <2>2
    <3>2. i = n + 1
      BY <1>1, <2>2, <3>1
    <3> QED BY <1>1, <3>2
  <2> QED BY <2>1, <2>2 DEF Arrives, AlikeAt
<1>3. ASSUME ~IsLockFrame(m), Arrives(s, known, own, now)
      PROVE  Arrives(t, known, own, now)
  <2>1. ASSUME \A i \in 1..Len(t) : ~IsLockFrame(t[i]) PROVE AlikeAt(known, own, now)
    <3>1. \A i \in 1..n : ~IsLockFrame(s[i])
      BY <1>1, <2>1
    <3> QED BY <1>3, <3>1 DEF Arrives, n
  <2>2. ASSUME NEW i \in 1..Len(t), IsLockFrame(t[i]),
               \A j \in 1..Len(t) : j > i => ~IsLockFrame(t[j])
        PROVE  AlikeAt(t[i].claim, own, now)
    <3>1. i \in 1..n /\ t[i] = s[i]
      BY <1>1, <1>3, <2>2
    <3>2. \A j \in 1..n : j > i => ~IsLockFrame(s[j])
      BY <1>1, <2>2
    <3> QED BY <1>3, <2>2, <3>1, <3>2 DEF Arrives, n
  <2> QED BY <2>1, <2>2 DEF Arrives
<1> QED BY <1>2, <1>3 DEF t

(* A claim or release that is handled is what the receiver knows from then on; other
   signals leave what it knows. *)
LEMMA ArrivesTail ==
  ASSUME NEW s \in Seq(Messages), s # <<>>, NEW known, NEW own, NEW now,
         Arrives(s, known, own, now)
  PROVE  /\ IsLockFrame(Head(s)) => Arrives(Tail(s), Head(s).claim, own, now)
         /\ ~IsLockFrame(Head(s)) => Arrives(Tail(s), known, own, now)
<1> DEFINE t == Tail(s)
           n == Len(t)
<1>1. n \in Nat /\ Len(s) = n + 1 /\ s[1] = Head(s) /\ \A i \in 1..n : t[i] = s[i + 1]
  <2>1. t \in Seq(Messages) /\ Len(t) = Len(s) - 1 /\ \A i \in 1..Len(t) : t[i] = s[i + 1]
    BY HeadTailProperties
  <2>2. Len(t) \in Nat /\ Len(s) \in Nat
    BY <2>1, LenProperties
  <2>3. s[1] = Head(s)
    OBVIOUS
  <2> HIDE DEF t
  <2> QED BY <2>1, <2>2, <2>3
<1> HIDE DEF t, n
<1>2. ASSUME NEW i \in 1..n, IsLockFrame(t[i]),
             \A j \in 1..n : j > i => ~IsLockFrame(t[j])
      PROVE  AlikeAt(t[i].claim, own, now)
  <2>1. i + 1 \in 1..Len(s) /\ s[i + 1] = t[i]
    BY <1>1
  <2>2. ASSUME NEW j \in 1..Len(s), j > i + 1 PROVE ~IsLockFrame(s[j])
    <3>1. j - 1 \in 1..n /\ j - 1 > i /\ t[j - 1] = s[j]
      BY <1>1, <2>2
    <3> QED BY <1>2, <3>1
  <2> QED BY <1>2, <2>1, <2>2 DEF Arrives
<1>3. ASSUME \A i \in 1..n : ~IsLockFrame(t[i]), IsLockFrame(Head(s))
      PROVE  AlikeAt(Head(s).claim, own, now)
  <2>1. ASSUME NEW j \in 1..Len(s), j > 1 PROVE ~IsLockFrame(s[j])
    <3>1. j - 1 \in 1..n /\ t[j - 1] = s[j]
      BY <1>1, <2>1
    <3> QED BY <1>3, <3>1
  <2>2. 1 \in 1..Len(s)
    BY <1>1
  <2> QED BY <1>1, <1>3, <2>1, <2>2 DEF Arrives
<1>4. ASSUME \A i \in 1..n : ~IsLockFrame(t[i]), ~IsLockFrame(Head(s))
      PROVE  AlikeAt(known, own, now)
  <2>1. ASSUME NEW j \in 1..Len(s) PROVE ~IsLockFrame(s[j])
    <3>1. CASE j = 1
      BY <1>1, <1>4, <3>1
    <3>2. CASE j # 1
      <4>1. j - 1 \in 1..n /\ t[j - 1] = s[j]
        BY <1>1, <3>2
      <4> QED BY <1>4, <4>1
    <3> QED BY <3>1, <3>2
  <2> QED BY <2>1 DEF Arrives
<1>5. n = Len(t)
  BY DEF n
<1>6. IsLockFrame(Head(s)) => Arrives(t, Head(s).claim, own, now)
  BY <1>2, <1>3, <1>5 DEF Arrives
<1>7. ~IsLockFrame(Head(s)) => Arrives(t, known, own, now)
  BY <1>2, <1>4, <1>5 DEF Arrives
<1> QED BY <1>6, <1>7 DEF t

(* The last signal that says whether its sender is there decides. *)
LEMMA StaysAppend ==
  ASSUME NEW s \in Seq(Messages), NEW m \in Messages, NEW present \in BOOLEAN
  PROVE  /\ Positive(m) => Stays(Append(s, m), present)
         /\ Negative(m) => ~Stays(Append(s, m), present)
         /\ IsLockFrame(m) => (Stays(Append(s, m), present) <=> Stays(s, present))
         /\ Asks(Append(s, m)) <=> (Asks(s) \/ m.type = "hello")
<1> DEFINE t == Append(s, m)
           n == Len(s)
<1>1. n \in Nat /\ Len(t) = n + 1 /\ t[n + 1] = m /\ \A i \in 1..n : t[i] = s[i]
  BY LenProperties, AppendProperties
<1> HIDE DEF t, n
<1>2. ASSUME Positive(m) PROVE Stays(t, present)
  <2>1. n + 1 \in 1..Len(t) /\ \A j \in 1..Len(t) : ~(j > n + 1)
    BY <1>1
  <2> QED BY <1>1, <1>2, <2>1 DEF Stays
<1>3. ASSUME Negative(m) PROVE ~Stays(t, present)
  <2>1. n + 1 \in 1..Len(t) /\ Negative(t[n + 1]) /\ ~Positive(t[n + 1])
    BY <1>1, <1>3, OfOneKind
  <2>2. ASSUME NEW i \in 1..Len(t), Positive(t[i]) PROVE n + 1 > i
    BY <1>1, <2>1, <2>2
  <2> QED BY <2>1, <2>2 DEF Stays
<1>4. ASSUME IsLockFrame(m) PROVE Stays(t, present) <=> Stays(s, present)
  <2>1. ~Positive(t[n + 1]) /\ ~Negative(t[n + 1])
    BY <1>1, <1>4, OfOneKind
  <2>2. (\A i \in 1..Len(t) : ~Negative(t[i])) <=> (\A i \in 1..n : ~Negative(s[i]))
    BY <1>1, <2>1
  <2>3. ASSUME NEW i \in 1..n
        PROVE  (\A j \in 1..Len(t) : j > i => ~Negative(t[j])) <=>
               (\A j \in 1..n : j > i => ~Negative(s[j]))
    BY <1>1, <2>1
  <2>4. (\E i \in 1..Len(t) : Positive(t[i]) /\ \A j \in 1..Len(t) : j > i => ~Negative(t[j])) <=>
        (\E i \in 1..n : Positive(s[i]) /\ \A j \in 1..n : j > i => ~Negative(s[j]))
    <3>1. ASSUME NEW i \in 1..Len(t), Positive(t[i]) PROVE i \in 1..n /\ Positive(s[i])
      BY <1>1, <2>1, <3>1
    <3>2. ASSUME NEW i \in 1..n, Positive(s[i]) PROVE i \in 1..Len(t) /\ Positive(t[i])
      BY <1>1, <3>2
    <3> QED BY <2>3, <3>1, <3>2
  <2> QED BY <2>2, <2>4 DEF Stays, n
<1>5. Asks(t) <=> (Asks(s) \/ m.type = "hello")
  <2>1. Asks(s) <=> \E i \in 1..n : s[i].type = "hello"
    BY DEF Asks, n
  <2>2. (\E i \in 1..n + 1 : t[i].type = "hello") <=>
            ((\E i \in 1..n : s[i].type = "hello") \/ m.type = "hello")
    BY <1>1
  <2> QED BY <1>1, <2>1, <2>2 DEF Asks
<1> QED BY <1>2, <1>3, <1>4, <1>5 DEF t

(* Handling a signal leaves what the signals after it decide. *)
LEMMA StaysTail ==
  ASSUME NEW s \in Seq(Messages), s # <<>>, NEW present \in BOOLEAN
  PROVE  /\ Positive(Head(s)) => (Stays(Tail(s), TRUE) <=> Stays(s, present))
         /\ Negative(Head(s)) => (Stays(Tail(s), FALSE) <=> Stays(s, present))
         /\ IsLockFrame(Head(s)) => (Stays(Tail(s), present) <=> Stays(s, present))
         /\ Asks(s) => Asks(Tail(s)) \/ Head(s).type = "hello"
<1> DEFINE t == Tail(s)
           n == Len(t)
           h == Head(s)
           Later(u, k) == \E i \in 1..k : Positive(u[i]) /\ \A j \in 1..k : j > i => ~Negative(u[j])
           Silent(u, k) == \A i \in 1..k : ~Negative(u[i])
<1>1. /\ n \in Nat /\ Len(s) = n + 1 /\ s[1] = h /\ h \in Messages
      /\ \A i \in 1..n : t[i] = s[i + 1]
  <2>1. t \in Seq(Messages) /\ Len(t) = Len(s) - 1 /\ h \in Messages /\ \A i \in 1..Len(t) : t[i] = s[i + 1]
    BY HeadTailProperties
  <2>2. Len(t) \in Nat /\ Len(s) \in Nat
    BY <2>1, LenProperties
  <2>3. s[1] = h
    OBVIOUS
  <2> HIDE DEF t, h
  <2> QED BY <2>1, <2>2, <2>3
<1> HIDE DEF t, n, h
<1>2. ASSUME NEW j \in 1..n + 1, j # 1 PROVE j - 1 \in 1..n /\ s[j] = t[j - 1]
  BY <1>1, <1>2
<1>3. Silent(s, n + 1) <=> (~Negative(h) /\ Silent(t, n))
  <2>1. ASSUME Silent(s, n + 1) PROVE ~Negative(h) /\ Silent(t, n)
    BY <1>1, <2>1
  <2>2. ASSUME ~Negative(h), Silent(t, n), NEW j \in 1..n + 1 PROVE ~Negative(s[j])
    BY <1>1, <1>2, <2>2
  <2> QED BY <2>1, <2>2
<1>4. Later(s, n + 1) <=> (Later(t, n) \/ (Positive(h) /\ Silent(t, n)))
  <2>1. ASSUME NEW i \in 1..n, Positive(t[i]), \A j \in 1..n : j > i => ~Negative(t[j])
        PROVE  Later(s, n + 1)
    <3>1. i + 1 \in 1..n + 1 /\ Positive(s[i + 1])
      BY <1>1, <2>1
    <3>2. ASSUME NEW j \in 1..n + 1, j > i + 1 PROVE ~Negative(s[j])
      <4>1. j - 1 \in 1..n /\ j - 1 > i /\ s[j] = t[j - 1]
        BY <1>1, <1>2, <3>2
      <4> QED BY <2>1, <4>1
    <3> QED BY <3>1, <3>2
  <2>2. ASSUME Positive(h), Silent(t, n) PROVE Later(s, n + 1)
    <3>1. 1 \in 1..n + 1 /\ Positive(s[1])
      BY <1>1, <2>2
    <3>2. ASSUME NEW j \in 1..n + 1, j > 1 PROVE ~Negative(s[j])
      BY <1>2, <2>2, <3>2
    <3> QED BY <3>1, <3>2
  <2>3. ASSUME NEW i \in 1..n + 1, Positive(s[i]), \A j \in 1..n + 1 : j > i => ~Negative(s[j])
        PROVE  Later(t, n) \/ (Positive(h) /\ Silent(t, n))
    <3>1. CASE i = 1
      <4>1. ASSUME NEW j \in 1..n PROVE ~Negative(t[j])
        <5>1. j + 1 \in 1..n + 1 /\ j + 1 > i /\ s[j + 1] = t[j]
          BY <1>1, <3>1
        <5> QED BY <2>3, <5>1
      <4> QED BY <1>1, <2>3, <3>1, <4>1
    <3>2. CASE i # 1
      <4>1. i - 1 \in 1..n /\ Positive(t[i - 1])
        BY <1>2, <2>3, <3>2
      <4>2. ASSUME NEW j \in 1..n, j > i - 1 PROVE ~Negative(t[j])
        <5>1. j + 1 \in 1..n + 1 /\ j + 1 > i /\ s[j + 1] = t[j]
          BY <1>1, <4>2
        <5> QED BY <2>3, <5>1
      <4> QED BY <4>1, <4>2
    <3> QED BY <3>1, <3>2
  <2> QED BY <2>1, <2>2, <2>3
<1>5. /\ Stays(s, present) <=> (Later(s, n + 1) \/ (present /\ Silent(s, n + 1)))
      /\ \A b \in BOOLEAN : Stays(t, b) <=> (Later(t, n) \/ (b /\ Silent(t, n)))
  BY <1>1 DEF Stays, n
<1>6. /\ Positive(h) => ~Negative(h)
      /\ Negative(h) => ~Positive(h)
      /\ IsLockFrame(h) => ~Positive(h) /\ ~Negative(h)
  BY <1>1, OfOneKind
<1>7. Asks(s) => Asks(t) \/ h.type = "hello"
  <2>1. ASSUME NEW j \in 1..n + 1, s[j].type = "hello", h.type # "hello"
        PROVE  \E i \in 1..n : t[i].type = "hello"
    <3>1. j # 1
      BY <1>1, <2>1
    <3> QED BY <1>2, <2>1, <3>1
  <2> QED BY <1>1, <2>1 DEF Asks, n
<1> HIDE DEF Later, Silent
<1>8. /\ Positive(h) => (Stays(t, TRUE) <=> Stays(s, present))
      /\ Negative(h) => (Stays(t, FALSE) <=> Stays(s, present))
      /\ IsLockFrame(h) => (Stays(t, present) <=> Stays(s, present))
  BY <1>3, <1>4, <1>5, <1>6
<1> QED BY <1>7, <1>8 DEF t, h

(* Of nothing on its way nothing comes. *)
LEMMA NothingOnTheWay ==
  ASSUME NEW present \in BOOLEAN, NEW known, NEW own, NEW now
  PROVE  /\ Stays(<<>>, present) <=> present
         /\ ~Asks(<<>>)
         /\ Arrives(<<>>, known, own, now) <=> AlikeAt(known, own, now)
<1>1. Len(<<>>) = 0 /\ 1..0 = {}
  BY EmptySeq
<1> QED BY <1>1 DEF Stays, Asks, Arrives

-----------------------------------------------------------------------------
\* The invariant.

\* The types, with functions that are total, as EXCEPT needs them.
Typed ==
    /\ clock \in Nat \ {0}
    /\ link \in [Peers -> {"up", "dead", "off"}]
    /\ departed \subseteq Peers
    /\ misled \subseteq Peers
    /\ cleared \subseteq Peers
    /\ registry = [p \in Peers |-> registry[p]]
    /\ \A p \in Peers : registry[p] \in [Others(p) -> Entries]
    /\ net = [p \in Peers |-> net[p]]
    /\ \A p \in Peers : net[p] \in [Others(p) -> Seq(Signals(clock))]
    /\ call \in [Calls ->
           [pc : {"new", "settling", "waiting", "true", "false"}, due : Nat, deadline : Nat]]
    /\ granted \in [Peers -> BOOLEAN]
    /\ ends \in 0..MaxEnds /\ changes \in 0..MaxChanges
    /\ disturbed \in BOOLEAN

\* The types of what the engine keeps, and when its timer is due.
EngineTyped ==
    /\ claims \in [Peers -> [Peers -> ClaimType]]
    /\ notified \in [Peers -> States]
    /\ expiry = [p \in Peers |-> Soonest(claims[p])]

\* A call that goes on is due at a time that is less than a settle window after its
\* deadline.
Punctual(c) ==
    InProgress(c) =>
        /\ clock <= call[c].due
        /\ call[c].deadline # None => call[c].due < call[c].deadline + SettleTicks

Settling(p) == {c \in Calls : Caller[c] = p /\ call[c].pc = "settling"}

\* A claim is as old as a settle window unless a call is settling which is due when it
\* is, and it belongs to a peer that was granted the key or has a call settling.
Placed(p) ==
    LET mine == claims[p][p]
    IN  mine # NoClaim =>
            /\ \/ mine.at + SettleTicks <= clock
               \/ \E c \in Settling(p) : call[c].due = mine.at + SettleTicks
            /\ granted[p] \/ Settling(p) # {}

\* A peer that thinks it was granted the key made a call that succeeded.
Earned(p) == granted[p] => \E c \in Calls : Caller[c] = p /\ call[c].pc = "true"

\* While nothing is lost, what p knows and will hear of q's claim is what q knows.
Informed(p, q) ==
    ~disturbed => Arrives(net[q][p], claims[p][q], claims[q][q], clock)

Present(p, q) == registry[p][q] = "present"

\* A room without a connection hears nothing and counts on nobody.  One that has a
\* connection will find q in its registry if q has one too, and will not if q has none,
\* once the relay has said so.
Rostered(p, q) ==
    /\ link[p] # "up" => net[q][p] = <<>>
    /\ link[p] = "off" => ~Present(p, q)
    /\ link[p] = "up" /\ link[q] = "up" /\ q \notin misled =>
           Stays(net[q][p], Present(p, q)) \/ Asks(net[p][q])
    /\ link[p] = "up" /\ link[q] # "up" /\ q \notin departed =>
           ~Stays(net[q][p], Present(p, q))

Told(p) == notified[p] = Resolve(claims[p]) \/ (expiry[p] # None /\ clock >= expiry[p])

Forgotten(p, q) == p \notin cleared /\ registry[p][q] = "absent" => claims[p][q] = NoClaim

LocksInv ==
    /\ Typed
    /\ EngineTyped
    /\ \A c \in Calls : Punctual(c)
    /\ \A p \in Peers : Placed(p) /\ Earned(p) /\ Told(p)
    /\ \A p \in Peers : \A q \in Others(p) :
           Informed(p, q) /\ Rostered(p, q) /\ Forgotten(p, q)

(* The operators of Locks at the clock. *)
LEMMA AtClock ==
  /\ \A claim : Active(claim) <=> ActiveAt(claim, clock)
  /\ \A mine : Resolve(mine) = ResolveAt(mine, clock)
  /\ \A mine : Pruned(mine) = PrunedAt(mine, clock)
<1>1. \A claim : Active(claim) <=> ActiveAt(claim, clock)
  BY DEF Active, ActiveAt
<1>2. ASSUME NEW mine PROVE Resolve(mine) = ResolveAt(mine, clock)
  BY DEF Resolve, ResolveAt, WinnerAt, Wins, WinsAt, Claimants, ClaimantsAt, Active, ActiveAt
<1>3. ASSUME NEW mine PROVE Pruned(mine) = PrunedAt(mine, clock)
  BY <1>1 DEF Pruned, PrunedAt
<1> QED BY <1>1, <1>2, <1>3

-----------------------------------------------------------------------------
\* What the operations of the engine do.

\* p knows from now on that q claims so much; of the other claims it only forgets those
\* that have ended.  Its subscribers and its timer follow.
Learns(p, q, claim) ==
    /\ EngineTyped'
    /\ \A r \in Peers : Told(r)'
    /\ \A r \in Peers \ {p} : claims'[r] = claims[r]
    /\ \A r \in Peers :
           LET was == IF r = q THEN claim ELSE claims[p][r]
           IN  AlikeAt(claims'[p][r], was, clock) /\ claims'[p][r] \in {was, NoClaim}

(* No claim is a claim that has ended. *)
LEMMA NoClaimTyped == NoClaim \in ClaimType
BY DEF NoClaim, ClaimType, None

(* reconcileKey prunes, resolves and sets the timer: it leaves nothing to be told. *)
LEMMA Reconciled ==
  ASSUME Typed, EngineTyped, \A r \in Peers : Told(r), clock' = clock,
         NEW p \in Peers, NEW mine \in [Peers -> ClaimType], Reconcile(p, mine)
  PROVE  /\ EngineTyped'
         /\ \A r \in Peers : Told(r)'
         /\ \A r \in Peers \ {p} : claims'[r] = claims[r]
         /\ claims'[p] = PrunedAt(mine, clock)
<1>1. PrunedAt(mine, clock) \in [Peers -> ClaimType]
  BY NoClaimTyped DEF PrunedAt
<1>2. claims' = [claims EXCEPT ![p] = PrunedAt(mine, clock)]
  BY AtClock DEF Reconcile
<1>3. notified' = [notified EXCEPT ![p] = ResolveAt(mine, clock)]
  BY AtClock DEF Reconcile
<1>4. expiry' = [expiry EXCEPT ![p] = Soonest(PrunedAt(mine, clock))]
  BY AtClock DEF Reconcile
<1>5. claims' \in [Peers -> [Peers -> ClaimType]] /\ claims'[p] = PrunedAt(mine, clock)
  BY <1>1, <1>2 DEF EngineTyped
<1>6. \A r \in Peers \ {p} : claims'[r] = claims[r] /\ notified'[r] = notified[r] /\ expiry'[r] = expiry[r]
  BY <1>2, <1>3, <1>4 DEF EngineTyped
<1>7. clock \in Nat
  BY DEF Typed
<1>8. notified' \in [Peers -> States] /\ notified'[p] = ResolveAt(mine, clock)
  BY <1>3, <1>7, Resolution DEF EngineTyped
<1>9. expiry' = [r \in Peers |-> Soonest(claims'[r])]
  BY <1>2, <1>4 DEF EngineTyped
<1>10. EngineTyped'
  BY <1>5, <1>8, <1>9 DEF EngineTyped, Soonest
<1>11. ASSUME NEW r \in Peers PROVE Told(r)'
  <2>1. CASE r = p
    <3>1. \A q \in Peers : AlikeAt(mine[q], PrunedAt(mine, clock)[q], clock)
      BY DEF AlikeAt, PrunedAt, ActiveAt
    <3>2. ResolveAt(mine, clock) = ResolveAt(claims'[p], clock)
      BY <1>1, <1>5, <1>7, <3>1, AlikeResolve
    <3>3. Resolve(claims[p])' = ResolveAt(claims'[p], clock')
      BY DEF Resolve, ResolveAt, WinnerAt, Wins, WinsAt, Claimants, ClaimantsAt, Active, ActiveAt
    <3> QED BY <1>8, <2>1, <3>2, <3>3 DEF Told
  <2>2. CASE r # p
    <3>1. claims'[r] = claims[r] /\ notified'[r] = notified[r] /\ expiry'[r] = expiry[r]
      BY <1>6, <2>2
    <3>2. Resolve(claims[r])' = ResolveAt(claims'[r], clock')
      BY DEF Resolve, ResolveAt, WinnerAt, Wins, WinsAt, Claimants, ClaimantsAt, Active, ActiveAt
    <3>3. Resolve(claims[r]) = ResolveAt(claims[r], clock)
      BY AtClock
    <3> QED BY <3>1, <3>2, <3>3 DEF Told
  <2> QED BY <2>1, <2>2
<1> QED BY <1>5, <1>6, <1>10, <1>11

(* A claim, or none, that is put in its place is learned. *)
LEMMA ReconciledLearns ==
  ASSUME Typed, EngineTyped, \A r \in Peers : Told(r), clock' = clock,
         NEW p \in Peers, NEW q \in Peers, NEW claim \in ClaimType,
         Reconcile(p, [claims[p] EXCEPT ![q] = claim])
  PROVE  Learns(p, q, claim)
<1> DEFINE mine == [claims[p] EXCEPT ![q] = claim]
<1>1. mine \in [Peers -> ClaimType]
  BY DEF EngineTyped
<1>2. /\ EngineTyped'
      /\ \A r \in Peers : Told(r)'
      /\ \A r \in Peers \ {p} : claims'[r] = claims[r]
      /\ claims'[p] = PrunedAt(mine, clock)
  BY <1>1, Reconciled
<1>3. ASSUME NEW r \in Peers
      PROVE  LET was == IF r = q THEN claim ELSE claims[p][r]
             IN  AlikeAt(claims'[p][r], was, clock) /\ claims'[p][r] \in {was, NoClaim}
  <2>1. mine[r] = IF r = q THEN claim ELSE claims[p][r]
    BY DEF EngineTyped
  <2> HIDE DEF mine
  <2>2. AlikeAt(claims'[p][r], mine[r], clock) /\ claims'[p][r] \in {mine[r], NoClaim}
    BY <1>2 DEF PrunedAt, AlikeAt, ActiveAt
  <2> QED BY <2>1, <2>2
<1> QED BY <1>2, <1>3 DEF Learns

(* applyClaim. *)
LEMMA ApplyLearns ==
  ASSUME Typed, EngineTyped, \A r \in Peers : Told(r), clock' = clock,
         NEW p \in Peers, NEW q \in Peers, NEW claim \in ClaimType, ApplyClaim(p, q, claim)
  PROVE  Learns(p, q, claim)
BY ReconciledLearns DEF ApplyClaim

(* A step that leaves the engine and the clock leaves what it keeps. *)
LEMMA EngineSame ==
  ASSUME EngineTyped, \A r \in Peers : Told(r), UNCHANGED <<engine, clock>>
  PROVE  /\ EngineTyped'
         /\ \A r \in Peers : Told(r)'
<1>1. claims' = claims /\ notified' = notified /\ expiry' = expiry /\ clock' = clock
  BY DEF engine
<1>2. EngineTyped'
  BY <1>1 DEF EngineTyped, Soonest
<1>3. ASSUME NEW r \in Peers PROVE Told(r)'
  <2>1. Resolve(claims[r])' = ResolveAt(claims'[r], clock')
    BY DEF Resolve, ResolveAt, WinnerAt, Wins, WinsAt, Claimants, ClaimantsAt, Active, ActiveAt
  <2>2. Resolve(claims[r]) = ResolveAt(claims[r], clock)
    BY AtClock
  <2> QED BY <1>1, <2>1, <2>2 DEF Told
<1> QED BY <1>2, <1>3

(* dropClaim. *)
LEMMA DropLearns ==
  ASSUME Typed, EngineTyped, \A r \in Peers : Told(r), clock' = clock,
         NEW p \in Peers, NEW q \in Peers, DropClaim(p, q)
  PROVE  Learns(p, q, NoClaim)
<1>1. CASE claims[p][q] = NoClaim
  <2>1. claims' = claims /\ UNCHANGED <<engine, clock>>
    BY <1>1 DEF DropClaim, engine
  <2>2. EngineTyped' /\ \A r \in Peers : Told(r)'
    BY <2>1, EngineSame
  <2> QED BY <1>1, <2>1, <2>2 DEF Learns, AlikeAt
<1>2. CASE claims[p][q] # NoClaim
  BY <1>2, NoClaimTyped, ReconciledLearns DEF DropClaim
<1> QED BY <1>1, <1>2

(* scheduleExpiry: the timer only prunes, which one may see as learning a claim anew. *)
LEMMA ExpiryLearns ==
  ASSUME Typed, EngineTyped, \A r \in Peers : Told(r), clock' = clock,
         NEW p \in Peers, Reconcile(p, claims[p])
  PROVE  Learns(p, p, claims[p][p])
<1>1. claims[p] \in [Peers -> ClaimType] /\ claims[p][p] \in ClaimType
  BY DEF EngineTyped
<1>2. claims[p] = [claims[p] EXCEPT ![p] = claims[p][p]]
  BY <1>1
<1> QED BY <1>1, <1>2, ReconciledLearns

-----------------------------------------------------------------------------
\* What becomes of the signals.

SignalsTyped ==
    /\ net = [p \in Peers |-> net[p]]
    /\ \A p \in Peers : net[p] \in [Others(p) -> Seq(Signals(clock))]

(* What a room says. *)
LEMMA MessageTyped ==
  ASSUME Typed
  PROVE  /\ \A type \in {"hello", "welcome", "presence", "leave", "peer-left", "release"} :
                Message(type) \in Signals(clock) /\ Message(type).type = type
                    /\ Message(type).claim = NoClaim
         /\ \A claim \in ClaimType : claim.at = clock =>
                ClaimOf(claim) \in Signals(clock) /\ ClaimOf(claim).type = "claim"
                    /\ ClaimOf(claim).claim = claim
<1>1. clock \in Nat /\ clock <= clock + MaxDelay
  BY TicksPositive DEF Typed
<1>2. ASSUME NEW type \in {"hello", "welcome", "presence", "leave", "peer-left", "release"}
      PROVE  Message(type) \in Signals(clock) /\ Message(type).type = type
                 /\ Message(type).claim = NoClaim
  <2>1. Message(type) \in Messages
    BY <1>1, NoClaimTyped DEF Message, Messages
  <2> QED BY <1>1, <2>1 DEF Message, Signals, OnTheWay, NoClaim, None
<1>3. ASSUME NEW claim \in ClaimType, claim.at = clock
      PROVE  ClaimOf(claim) \in Signals(clock) /\ ClaimOf(claim).type = "claim"
                 /\ ClaimOf(claim).claim = claim
  <2>1. ClaimOf(claim) = [type |-> "claim", sentAt |-> clock, claim |-> claim]
    BY DEF ClaimOf, Message
  <2>2. ClaimOf(claim) \in Messages
    BY <1>1, <2>1 DEF Messages
  <2> QED BY <1>1, <1>3, <2>1, <2>2 DEF Signals, OnTheWay
<1> QED BY <1>2, <1>3

(* Signals are messages. *)
LEMMA SignalsAreMessages ==
  ASSUME NEW now
  PROVE  Signals(now) \subseteq Messages /\ Seq(Signals(now)) \subseteq Seq(Messages)
<1>1. Signals(now) \subseteq Messages
  BY DEF Signals
<1>2. ASSUME NEW s \in Seq(Signals(now)) PROVE s \in Seq(Messages)
  <2>1. Len(s) \in Nat /\ s \in [1..Len(s) -> Signals(now)]
    BY LenProperties
  <2>2. s \in [1..Len(s) -> Messages]
    BY <1>1, <2>1
  <2> QED BY <2>1, <2>2, SeqDef
<1> QED BY <1>1, <1>2

(* What p says is the last of what is on its way to those that are connected. *)
LEMMA Says ==
  ASSUME Typed, NEW p \in Peers, NEW m \in Signals(clock), net' = Sent(p, m), clock' = clock
  PROVE  /\ SignalsTyped'
         /\ \A q \in Others(p) : net'[p][q] =
                IF link[p] = "up" /\ link[q] = "up" THEN Append(net[p][q], m) ELSE net[p][q]
         /\ \A r \in Peers \ {p} : net'[r] = net[r]
<1>1. net' = [net EXCEPT ![p] = [q \in Others(p) |->
        IF link[p] = "up" /\ link[q] = "up" THEN Append(net[p][q], m) ELSE net[p][q]]]
  BY DEF Sent
<1>2. /\ net'[p] = [q \in Others(p) |->
            IF link[p] = "up" /\ link[q] = "up" THEN Append(net[p][q], m) ELSE net[p][q]]
      /\ \A r \in Peers \ {p} : net'[r] = net[r]
      /\ net' = [r \in Peers |-> net'[r]]
  BY <1>1 DEF Typed
<1>3. ASSUME NEW q \in Others(p)
      PROVE  net[p][q] \in Seq(Signals(clock)) /\ Append(net[p][q], m) \in Seq(Signals(clock))
  <2>1. net[p][q] \in Seq(Signals(clock))
    BY DEF Typed
  <2> QED BY <2>1, AppendProperties
<1>4. net'[p] \in [Others(p) -> Seq(Signals(clock))]
  BY <1>2, <1>3
<1>5. SignalsTyped'
  BY <1>2, <1>4 DEF SignalsTyped, Typed
<1> QED BY <1>2, <1>5

(* A signal that is handled goes, and the answer is the last of what is on its way. *)
LEMMA Answers ==
  ASSUME Typed, NEW p \in Peers, NEW q \in Others(p), net[q][p] # <<>>, clock' = clock,
         NEW m \in Signals(clock), NEW answer \in {<<>>, <<m>>}, Answer(p, q, answer)
  PROVE  /\ SignalsTyped'
         /\ net'[q][p] = Tail(net[q][p])
         /\ net'[p][q] = IF link[q] = "up" /\ answer # <<>> THEN Append(net[p][q], m) ELSE net[p][q]
         /\ \A r \in Peers : \A s \in Others(r) :
                ~(r = p /\ s = q) /\ ~(r = q /\ s = p) => net'[r][s] = net[r][s]
<1>1. q \in Peers /\ q # p /\ p \in Others(q)
  BY DEF Others
<1>2. /\ net[p][q] \in Seq(Signals(clock)) /\ net[q][p] \in Seq(Signals(clock))
      /\ net[p] \in [Others(p) -> Seq(Signals(clock))] /\ net[q] \in [Others(q) -> Seq(Signals(clock))]
      /\ net = [r \in Peers |-> net[r]]
  BY <1>1 DEF Typed
<1>3. Tail(net[q][p]) \in Seq(Signals(clock)) /\ Append(net[p][q], m) \in Seq(Signals(clock))
  BY <1>2, AppendProperties, HeadTailProperties
<1>4. IF link[q] = "up" THEN net[p][q] \o answer = IF answer # <<>> THEN Append(net[p][q], m) ELSE net[p][q]
      ELSE TRUE
  <2>1. net[p][q] \o <<m>> = Append(net[p][q], m) /\ net[p][q] \o <<>> = net[p][q]
    BY <1>2, AppendIsConcat, ConcatEmptySeq
  <2>2. <<m>> # <<>>
    OBVIOUS
  <2> QED BY <2>1, <2>2
<1>5. net' = [[net EXCEPT ![q][p] = Tail(net[q][p])] EXCEPT ![p][q] =
               IF link[q] = "up" THEN net[p][q] \o answer ELSE net[p][q]]
  BY <1>1, <1>2 DEF Answer
<1> DEFINE new == IF link[q] = "up" THEN net[p][q] \o answer ELSE net[p][q]
<1>6. new \in Seq(Signals(clock)) /\ new = IF link[q] = "up" /\ answer # <<>> THEN Append(net[p][q], m) ELSE net[p][q]
  BY <1>2, <1>3, <1>4
<1> HIDE DEF new
<1>7. net' = [[net EXCEPT ![q][p] = Tail(net[q][p])] EXCEPT ![p][q] = new]
  BY <1>5 DEF new
<1>8. /\ net'[q] = [net[q] EXCEPT ![p] = Tail(net[q][p])]
      /\ net'[p] = [net[p] EXCEPT ![q] = new]
      /\ \A r \in Peers \ {p, q} : net'[r] = net[r]
      /\ net' = [r \in Peers |-> net'[r]]
  BY <1>1, <1>2, <1>7
<1>9. net'[q][p] = Tail(net[q][p]) /\ net'[p][q] = new
  BY <1>1, <1>2, <1>8
<1>10. ASSUME NEW r \in Peers, NEW s \in Others(r), ~(r = p /\ s = q), ~(r = q /\ s = p)
       PROVE  net'[r][s] = net[r][s]
  BY <1>1, <1>2, <1>8, <1>10
<1>11. \A r \in Peers : net'[r] \in [Others(r) -> Seq(Signals(clock))]
  <2>1. net'[q] \in [Others(q) -> Seq(Signals(clock))]
    BY <1>1, <1>2, <1>3, <1>8
  <2>2. net'[p] \in [Others(p) -> Seq(Signals(clock))]
    BY <1>1, <1>2, <1>6, <1>8
  <2> QED BY <2>1, <2>2, <1>8 DEF Typed
<1>12. SignalsTyped'
  BY <1>8, <1>11 DEF SignalsTyped
<1> QED BY <1>6, <1>9, <1>10, <1>12

-----------------------------------------------------------------------------
\* What a pair of peers knows of each other.

(* What arrives is the same for claims that are alike. *)
LEMMA ArrivesAlike ==
  ASSUME NEW s, NEW known, NEW own, NEW known2, NEW own2, NEW now,
         Arrives(s, known, own, now), AlikeAt(known2, known, now), AlikeAt(own2, own, now)
  PROVE  Arrives(s, known2, own2, now)
<1>1. \A x, y, z : AlikeAt(x, y, now) /\ AlikeAt(y, z, now) => AlikeAt(x, z, now)
  BY DEF AlikeAt
<1>2. \A x, y : AlikeAt(x, y, now) => AlikeAt(y, x, now)
  BY DEF AlikeAt
<1> QED BY <1>1, <1>2 DEF Arrives

(* p is as well informed of q's claim as it was if nothing about locks was said. *)
LEMMA InformedKept ==
  ASSUME NEW p \in Peers, NEW q \in Others(p), Typed, Informed(p, q), clock' = clock,
         disturbed => disturbed',
         ~disturbed' =>
             \/ net'[q][p] = net[q][p]
             \/ \E m \in Messages : ~IsLockFrame(m) /\ net'[q][p] = Append(net[q][p], m)
             \/ /\ net[q][p] # <<>> /\ ~IsLockFrame(Head(net[q][p]))
                /\ net'[q][p] = Tail(net[q][p])
             \/ net'[q][p] = <<>> /\ \A i \in 1..Len(net[q][p]) : ~IsLockFrame(net[q][p][i]),
         AlikeAt(claims'[p][q], claims[p][q], clock),
         AlikeAt(claims'[q][q], claims[q][q], clock)
  PROVE  Informed(p, q)'
<1>1. SUFFICES ASSUME ~disturbed'
               PROVE  Arrives(net'[q][p], claims'[p][q], claims'[q][q], clock)
  BY DEF Informed, Arrives, AlikeAt, ActiveAt
<1>2. Arrives(net[q][p], claims[p][q], claims[q][q], clock)
  BY <1>1 DEF Informed
<1>3. net[q][p] \in Seq(Messages)
  <2>1. net[q][p] \in Seq(Signals(clock))
    BY DEF Typed, Others
  <2> QED BY <2>1, SignalsAreMessages
<1>4. Arrives(net'[q][p], claims[p][q], claims[q][q], clock)
  <2>1. ASSUME NEW m \in Messages, ~IsLockFrame(m), net'[q][p] = Append(net[q][p], m)
        PROVE  Arrives(net'[q][p], claims[p][q], claims[q][q], clock)
    BY <1>2, <1>3, <2>1, ArrivesAppend
  <2>2. ASSUME net[q][p] # <<>>, ~IsLockFrame(Head(net[q][p])), net'[q][p] = Tail(net[q][p])
        PROVE  Arrives(net'[q][p], claims[p][q], claims[q][q], clock)
    BY <1>2, <1>3, <2>2, ArrivesTail
  <2>3. ASSUME net'[q][p] = <<>>, \A i \in 1..Len(net[q][p]) : ~IsLockFrame(net[q][p][i])
        PROVE  Arrives(net'[q][p], claims[p][q], claims[q][q], clock)
    <3>1. AlikeAt(claims[p][q], claims[q][q], clock)
      BY <1>2, <2>3 DEF Arrives
    <3>2. Arrives(<<>>, claims[p][q], claims[q][q], clock)
      BY <3>1, NothingOnTheWay
    <3> QED BY <2>3, <3>2
  <2> QED BY <1>1, <1>2, <2>1, <2>2, <2>3
<1> QED BY <1>4, ArrivesAlike

\* What p knows of q's connection is as it was.
RosterSame(p, q) ==
    /\ link'[p] = link[p] /\ link'[q] = link[q]
    /\ q \in misled => q \in misled'
    /\ q \in departed => q \in departed'
    /\ link[p] # "up" /\ net[q][p] = <<>> => net'[q][p] = <<>>
    /\ Present(p, q)' => Present(p, q) \/ link[p] = "up"
    /\ link[p] = "up" => (Stays(net'[q][p], Present(p, q)') <=> Stays(net[q][p], Present(p, q)))
    /\ Asks(net[p][q]) =>
           Asks(net'[p][q]) \/ (link[p] = "up" => Stays(net'[q][p], Present(p, q)'))

(* Then it is right as it was. *)
LEMMA RosteredKept ==
  ASSUME NEW p \in Peers, NEW q \in Others(p), Rostered(p, q), RosterSame(p, q)
  PROVE  Rostered(p, q)'
<1>1. Stays(net[q][p], Present(p, q))' <=> Stays(net'[q][p], Present(p, q)')
  BY DEF Stays, Positive, Negative
<1>2. Asks(net[p][q])' <=> Asks(net'[p][q])
  BY DEF Asks
<1> QED BY <1>1, <1>2 DEF Rostered, RosterSame

\* p's own claim is so much from now on, and if that is news it says so.
ClaimsSo(p, claim) ==
    /\ Learns(p, p, claim)
    /\ \/ claim = claims[p][p] /\ UNCHANGED <<net, disturbed>>
       \/ \E m \in Signals(clock) :
              IsLockFrame(m) /\ m.claim = claim /\ Broadcast(p, m)

PairsInv ==
    /\ EngineTyped
    /\ \A p \in Peers : Told(p)
    /\ \A p \in Peers : \A q \in Others(p) :
           Informed(p, q) /\ Rostered(p, q) /\ Forgotten(p, q)

(* placeSelfClaim. *)
LEMMA PlaceClaims ==
  ASSUME Typed, EngineTyped, \A r \in Peers : Told(r), clock' = clock,
         NEW p \in Peers, NEW ttl \in Nat, PlaceClaim(p, ttl)
  PROVE  \E claim \in ClaimType : claim.at = clock /\ ClaimsSo(p, claim)
<1> DEFINE claim == [at |-> clock, until |-> IF ttl = None THEN None ELSE clock + ttl]
<1>1. claim \in ClaimType /\ claim.at = clock
  BY DEF Typed, ClaimType, None
<1>2. ApplyClaim(p, p, claim) /\ Broadcast(p, ClaimOf(claim))
  BY DEF PlaceClaim
<1> HIDE DEF claim
<1>3. Learns(p, p, claim)
  BY <1>1, <1>2, ApplyLearns
<1>4. ClaimOf(claim) \in Signals(clock) /\ IsLockFrame(ClaimOf(claim)) /\ ClaimOf(claim).claim = claim
  BY <1>1, MessageTyped DEF IsLockFrame
<1> QED BY <1>1, <1>2, <1>3, <1>4 DEF ClaimsSo

(* removeSelfClaim. *)
LEMMA RemoveClaims ==
  ASSUME Typed, EngineTyped, \A r \in Peers : Told(r), clock' = clock,
         NEW p \in Peers, RemoveClaim(p)
  PROVE  ClaimsSo(p, NoClaim)
<1>1. DropClaim(p, p)
  BY DEF RemoveClaim, DropClaim
<1>2. Learns(p, p, NoClaim)
  BY <1>1, DropLearns
<1>3. CASE claims[p][p] = NoClaim
  BY <1>2, <1>3 DEF RemoveClaim, ClaimsSo
<1>4. CASE claims[p][p] # NoClaim
  <2>1. Broadcast(p, Message("release"))
    BY <1>4 DEF RemoveClaim
  <2>2. Message("release") \in Signals(clock) /\ IsLockFrame(Message("release"))
           /\ Message("release").claim = NoClaim
    BY MessageTyped DEF IsLockFrame
  <2> QED BY <1>2, <2>1, <2>2 DEF ClaimsSo
<1> QED BY <1>3, <1>4

(* An engine that is left alone claims what it claimed. *)
LEMMA NothingClaimed ==
  ASSUME Typed, EngineTyped, \A r \in Peers : Told(r), clock' = clock,
         NEW p \in Peers, UNCHANGED <<engine, net, disturbed>>
  PROVE  ClaimsSo(p, claims[p][p])
<1>1. EngineTyped' /\ (\A r \in Peers : Told(r)') /\ claims' = claims
  BY EngineSame DEF engine
<1> QED BY <1>1 DEF ClaimsSo, Learns, AlikeAt

(* A claim that is made or given up leaves everybody informed. *)
LEMMA ClaimsKeepPairs ==
  ASSUME Typed, PairsInv, NEW p \in Peers, NEW claim, ClaimsSo(p, claim),
         UNCHANGED <<clock, room, cleared, misled>>
  PROVE  SignalsTyped' /\ PairsInv' /\ disturbed' \in BOOLEAN
<1>1. clock' = clock /\ link' = link /\ departed' = departed /\ registry' = registry
      /\ cleared' = cleared /\ misled' = misled
  BY DEF room
<1>2. EngineTyped' /\ \A r \in Peers : Told(r)'
  BY DEF ClaimsSo, Learns
<1>3. /\ \A r \in Peers \ {p} : claims'[r] = claims[r]
      /\ \A r \in Peers \ {p} : AlikeAt(claims'[p][r], claims[p][r], clock)
                                   /\ claims'[p][r] \in {claims[p][r], NoClaim}
      /\ AlikeAt(claims'[p][p], claim, clock)
  BY DEF ClaimsSo, Learns
<1>4. /\ SignalsTyped'
      /\ disturbed' \in BOOLEAN /\ (disturbed => disturbed')
      /\ \A r \in Peers \ {p} : net'[r] = net[r]
      /\ \A q \in Others(p) :
             \/ net'[p][q] = net[p][q]
             \/ \E m \in Signals(clock) :
                    IsLockFrame(m) /\ link[q] = "up" /\ net'[p][q] = Append(net[p][q], m)
  <2>1. CASE UNCHANGED <<net, disturbed>>
    BY <1>1, <2>1 DEF SignalsTyped, Typed
  <2>2. CASE \E m \in Signals(clock) : IsLockFrame(m) /\ m.claim = claim /\ Broadcast(p, m)
    <3>1. PICK m \in Signals(clock) : IsLockFrame(m) /\ m.claim = claim /\ Broadcast(p, m)
      BY <2>2
    <3>2. net' = Sent(p, m) /\ disturbed' \in BOOLEAN /\ (disturbed => disturbed')
      BY <3>1 DEF Broadcast
    <3>3. /\ SignalsTyped'
          /\ \A q \in Others(p) : net'[p][q] =
                IF link[p] = "up" /\ link[q] = "up" THEN Append(net[p][q], m) ELSE net[p][q]
          /\ \A r \in Peers \ {p} : net'[r] = net[r]
      BY <1>1, <3>2, Says
    <3> QED BY <3>1, <3>2, <3>3
  <2> QED BY <2>1, <2>2 DEF ClaimsSo
<1>5. ASSUME NEW q \in Others(p), ~disturbed'
      PROVE  \/ claim = claims[p][p] /\ net'[p][q] = net[p][q]
             \/ \E m \in Signals(clock) :
                    IsLockFrame(m) /\ m.claim = claim /\ net'[p][q] = Append(net[p][q], m)
  <2>1. CASE claim = claims[p][p] /\ UNCHANGED <<net, disturbed>>
    BY <2>1
  <2>2. CASE \E m \in Signals(clock) : IsLockFrame(m) /\ m.claim = claim /\ Broadcast(p, m)
    <3>1. PICK m \in Signals(clock) : IsLockFrame(m) /\ m.claim = claim /\ Broadcast(p, m)
      BY <2>2
    <3>2. net' = Sent(p, m) /\ \A r \in Peers : link[r] = "up"
      BY <1>5, <3>1 DEF Broadcast
    <3>3. net'[p][q] = Append(net[p][q], m)
      BY <1>1, <3>2, Says DEF Others
    <3> QED BY <3>1, <3>3
  <2> QED BY <2>1, <2>2 DEF ClaimsSo
<1>6. ASSUME NEW r \in Peers, NEW q \in Others(r)
      PROVE  Informed(r, q)'
  <2>1. CASE q # p
    <3>1. net'[q][r] = net[q][r] /\ claims'[q][q] = claims[q][q]
      BY <1>3, <1>4, <2>1 DEF Others
    <3>2. AlikeAt(claims'[r][q], claims[r][q], clock)
      BY <1>3, <2>1 DEF Others, AlikeAt
    <3>3. AlikeAt(claims'[q][q], claims[q][q], clock)
      BY <3>1 DEF AlikeAt
    <3>4. Informed(r, q) /\ (disturbed => disturbed')
      BY <1>4 DEF PairsInv
    <3> QED BY <1>1, <3>1, <3>2, <3>3, <3>4, InformedKept
  <2>2. CASE q = p
    <3>1. r # p /\ claims'[r] = claims[r] /\ r \in Others(p)
      BY <1>3, <2>2 DEF Others
    <3>2. SUFFICES ASSUME ~disturbed'
                   PROVE  Arrives(net'[p][r], claims[r][p], claims'[p][p], clock)
      BY <1>1, <2>2, <3>1 DEF Informed, Arrives, AlikeAt, ActiveAt
    <3>3. net[p][r] \in Seq(Messages)
      <4>1. net[p][r] \in Seq(Signals(clock))
        BY <3>1 DEF Typed
      <4> QED BY <4>1, SignalsAreMessages
    <3>4. Arrives(net[p][r], claims[r][p], claims[p][p], clock)
      BY <1>4, <2>2, <3>2 DEF PairsInv, Informed
    <3>5. Arrives(net'[p][r], claims[r][p], claim, clock)
      <4>1. CASE claim = claims[p][p] /\ net'[p][r] = net[p][r]
        BY <3>4, <4>1
      <4>2. ASSUME NEW m \in Signals(clock), IsLockFrame(m), m.claim = claim,
                   net'[p][r] = Append(net[p][r], m)
            PROVE  Arrives(net'[p][r], claims[r][p], claim, clock)
        BY <3>3, <4>2, ArrivesAppend, SignalsAreMessages
      <4> QED BY <1>5, <3>1, <3>2, <4>1, <4>2
    <3>6. AlikeAt(claims[r][p], claims[r][p], clock)
      BY DEF AlikeAt
    <3> QED BY <1>3, <3>5, <3>6, ArrivesAlike
  <2> QED BY <2>1, <2>2
<1>7. ASSUME NEW r \in Peers, NEW q \in Others(r)
      PROVE  Rostered(r, q)'
  <2>1. q \in Peers /\ r \in Others(q) /\ r # q
    BY DEF Others
  <2>2. ASSUME NEW x \in Peers, NEW y \in Others(x)
        PROVE  /\ \A b \in BOOLEAN : Stays(net'[x][y], b) <=> Stays(net[x][y], b)
               /\ Asks(net[x][y]) => Asks(net'[x][y])
               /\ link[y] # "up" => net'[x][y] = net[x][y]
    <3>1. CASE net'[x][y] = net[x][y]
      BY <3>1
    <3>2. ASSUME NEW m \in Signals(clock), IsLockFrame(m), link[y] = "up",
                 net'[x][y] = Append(net[x][y], m)
          PROVE  /\ \A b \in BOOLEAN : Stays(net'[x][y], b) <=> Stays(net[x][y], b)
                 /\ Asks(net[x][y]) => Asks(net'[x][y])
      <4>1. net[x][y] \in Seq(Messages) /\ m \in Messages
        <5>1. net[x][y] \in Seq(Signals(clock))
          BY DEF Typed
        <5> QED BY <5>1, SignalsAreMessages
      <4>2. ASSUME NEW b \in BOOLEAN
            PROVE  Stays(Append(net[x][y], m), b) <=> Stays(net[x][y], b)
        BY <3>2, <4>1, StaysAppend
      <4>3. Asks(net[x][y]) => Asks(Append(net[x][y], m))
        <5>1. Asks(Append(net[x][y], m)) <=> (Asks(net[x][y]) \/ m.type = "hello")
          BY <4>1, StaysAppend
        <5> QED BY <5>1
      <4> QED BY <3>2, <4>2, <4>3
    <3> QED BY <1>4, <3>1, <3>2 DEF Others
  <2>3. Present(r, q)' = Present(r, q) /\ Present(r, q) \in BOOLEAN
    BY <1>1 DEF Present
  <2>4. Stays(net'[q][r], Present(r, q)) <=> Stays(net[q][r], Present(r, q))
    BY <2>1, <2>2, <2>3
  <2>5. Asks(net[r][q]) => Asks(net'[r][q])
    BY <2>2
  <2>6. link[r] # "up" => net'[q][r] = net[q][r]
    BY <2>1, <2>2
  <2>7. RosterSame(r, q)
    BY <1>1, <2>3, <2>4, <2>5, <2>6 DEF RosterSame
  <2> QED BY <2>7, RosteredKept DEF PairsInv
<1>8. ASSUME NEW r \in Peers, NEW q \in Others(r)
      PROVE  Forgotten(r, q)'
  <2>1. claims'[r][q] \in {claims[r][q], NoClaim}
    BY <1>3 DEF Others
  <2> QED BY <1>1, <2>1 DEF PairsInv, Forgotten
<1> QED BY <1>2, <1>4, <1>6, <1>7, <1>8 DEF PairsInv

(* A signal that is handled without an answer goes. *)
LEMMA AnswersNothing ==
  ASSUME Typed, NEW p \in Peers, NEW q \in Others(p), net[q][p] # <<>>, clock' = clock,
         Answer(p, q, <<>>)
  PROVE  /\ SignalsTyped'
         /\ net'[q][p] = Tail(net[q][p])
         /\ \A r \in Peers : \A s \in Others(r) : ~(r = q /\ s = p) => net'[r][s] = net[r][s]
<1> DEFINE m == Message("hello")
<1>1. m \in Signals(clock) /\ <<>> \in {<<>>, <<m>>}
  BY MessageTyped
<1> HIDE DEF m
<1>2. /\ SignalsTyped'
      /\ net'[q][p] = Tail(net[q][p])
      /\ net'[p][q] = IF link[q] = "up" /\ <<>> # <<>> THEN Append(net[p][q], m) ELSE net[p][q]
      /\ \A r \in Peers : \A s \in Others(r) :
             ~(r = p /\ s = q) /\ ~(r = q /\ s = p) => net'[r][s] = net[r][s]
  BY <1>1, Answers
<1> QED BY <1>2

\* Nobody makes a claim of its own.
OwnKept == \A p \in Peers : claims'[p][p] \in {claims[p][p], NoClaim}

(* Signals under way are sequences of messages. *)
LEMMA UnderWay ==
  ASSUME Typed, NEW p \in Peers, NEW q \in Others(p)
  PROVE  /\ q \in Peers /\ q # p /\ p \in Others(q)
         /\ net[p][q] \in Seq(Signals(clock)) /\ net[p][q] \in Seq(Messages)
         /\ net[q][p] \in Seq(Signals(clock)) /\ net[q][p] \in Seq(Messages)
         /\ net[q][p] # <<>> => Head(net[q][p]) \in Signals(clock) /\ Head(net[q][p]) \in Messages
<1>1. q \in Peers /\ q # p /\ p \in Others(q)
  BY DEF Others
<1>2. net[p][q] \in Seq(Signals(clock)) /\ net[q][p] \in Seq(Signals(clock))
  BY <1>1 DEF Typed
<1>3. net[p][q] \in Seq(Messages) /\ net[q][p] \in Seq(Messages)
  BY <1>2, SignalsAreMessages
<1>4. net[q][p] # <<>> => Head(net[q][p]) \in Signals(clock)
  BY <1>2, HeadTailProperties
<1> QED BY <1>1, <1>2, <1>3, <1>4, SignalsAreMessages

(* A pair whose signals, links and registry entries are left alone. *)
LEMMA UntouchedRoster ==
  ASSUME NEW p \in Peers, NEW q \in Others(p), Rostered(p, q),
         net'[q][p] = net[q][p], net'[p][q] = net[p][q],
         link'[p] = link[p], link'[q] = link[q],
         q \in misled => q \in misled', q \in departed => q \in departed',
         registry'[p][q] = registry[p][q]
  PROVE  Rostered(p, q)'
<1>1. Present(p, q)' = Present(p, q)
  BY DEF Present
<1>2. RosterSame(p, q)
  BY <1>1 DEF RosterSame
<1> QED BY <1>2, RosteredKept

(* A claim or release that is handled leaves everybody informed. *)
LEMMA LockFrameKeepsPairs ==
  ASSUME Typed, PairsInv, NEW p \in Peers, NEW q \in Others(p), HandleLockFrame(p, q)
  PROVE  SignalsTyped' /\ PairsInv' /\ OwnKept /\ disturbed' \in BOOLEAN
<1> DEFINE m == Head(net[q][p])
<1>1. /\ clock' = clock /\ link' = link /\ departed' = departed /\ registry' = registry
      /\ cleared' = cleared /\ misled' = misled
  BY DEF HandleLockFrame, room
<1>2. /\ link[p] = "up" /\ net[q][p] # <<>> /\ IsLockFrame(m) /\ Answer(p, q, <<>>)
      /\ m.type = "claim" \/ m.type = "release"
  BY DEF HandleLockFrame, Received, IsLockFrame
<1>3. /\ q \in Peers /\ q # p /\ p \in Others(q) /\ m \in Signals(clock) /\ m \in Messages
      /\ net[q][p] \in Seq(Messages)
  BY <1>2, UnderWay
<1>4. /\ SignalsTyped'
      /\ net'[q][p] = Tail(net[q][p])
      /\ \A r \in Peers : \A s \in Others(r) : ~(r = q /\ s = p) => net'[r][s] = net[r][s]
  BY <1>1, <1>2, AnswersNothing
<1>5. m.claim \in ClaimType /\ (m.type = "release" => m.claim = NoClaim)
  BY <1>3 DEF Signals, Messages, OnTheWay
<1>6. \/ /\ registry[p][q] = "absent" /\ UNCHANGED engine /\ disturbed' = TRUE
      \/ /\ registry[p][q] # "absent" /\ disturbed' = disturbed
         /\ Learns(p, q, m.claim)
  <2>1. CASE registry[p][q] = "absent"
    BY <2>1 DEF HandleLockFrame
  <2>2. CASE registry[p][q] # "absent"
    <3>1. disturbed' = disturbed /\
             IF m.type = "claim" THEN ApplyClaim(p, q, m.claim) ELSE DropClaim(p, q)
      BY <2>2 DEF HandleLockFrame
    <3>2. CASE m.type = "claim"
      <4>1. ApplyClaim(p, q, m.claim)
        BY <3>1, <3>2
      <4>2. Learns(p, q, m.claim)
        BY <1>1, <1>3, <1>5, <4>1, ApplyLearns DEF PairsInv
      <4> QED BY <2>2, <3>1, <4>2
    <3>3. CASE m.type # "claim"
      <4>1. DropClaim(p, q) /\ m.claim = NoClaim
        BY <1>2, <1>5, <3>1, <3>3
      <4>2. Learns(p, q, NoClaim)
        BY <1>1, <1>3, <4>1, DropLearns DEF PairsInv
      <4> QED BY <2>2, <3>1, <4>1, <4>2
    <3> QED BY <3>2, <3>3
  <2> QED BY <2>1, <2>2
<1> HIDE DEF m
<1>7. /\ EngineTyped' /\ \A r \in Peers : Told(r)'
      /\ \A r \in Peers \ {p} : claims'[r] = claims[r]
      /\ \A r \in Peers \ {q} : AlikeAt(claims'[p][r], claims[p][r], clock)
                                   /\ claims'[p][r] \in {claims[p][r], NoClaim}
      /\ registry[p][q] = "absent" => claims' = claims
      /\ ~disturbed' => AlikeAt(claims'[p][q], m.claim, clock)
      /\ disturbed' \in BOOLEAN /\ (disturbed => disturbed')
  <2>1. CASE UNCHANGED engine /\ disturbed' = TRUE
    <3>1. EngineTyped' /\ (\A r \in Peers : Told(r)') /\ claims' = claims
      BY <1>1, <2>1, EngineSame DEF engine, PairsInv
    <3> QED BY <2>1, <3>1 DEF AlikeAt
  <2>2. CASE registry[p][q] # "absent" /\ disturbed' = disturbed /\ Learns(p, q, m.claim)
    BY <1>3, <2>2 DEF Learns, Typed
  <2> QED BY <1>6, <2>1, <2>2
<1>8. ASSUME NEW r \in Peers, NEW s \in Others(r)
      PROVE  Informed(r, s)'
  <2>1. AlikeAt(claims'[s][s], claims[s][s], clock) /\ s \in Peers /\ s # r
    BY <1>3, <1>7 DEF AlikeAt, Others
  <2>2. CASE ~(r = p /\ s = q)
    <3>1. net'[s][r] = net[s][r]
      BY <1>4, <2>1, <2>2 DEF Others
    <3>2. AlikeAt(claims'[r][s], claims[r][s], clock)
      BY <1>7, <2>1, <2>2 DEF AlikeAt
    <3>3. Informed(r, s)
      BY DEF PairsInv
    <3> QED BY <1>1, <1>7, <2>1, <3>1, <3>2, <3>3, InformedKept
  <2>3. CASE r = p /\ s = q
    <3>1. SUFFICES ASSUME ~disturbed'
                   PROVE  Arrives(net'[q][p], claims'[p][q], claims'[q][q], clock)
      BY <1>1, <2>3 DEF Informed, Arrives, AlikeAt, ActiveAt
    <3>2. Arrives(net[q][p], claims[p][q], claims[q][q], clock)
      BY <1>7, <3>1 DEF PairsInv, Informed
    <3>3. Arrives(net'[q][p], m.claim, claims[q][q], clock)
      BY <1>2, <1>3, <1>4, <3>2, ArrivesTail DEF m
    <3> QED BY <1>7, <2>1, <2>3, <3>1, <3>3, ArrivesAlike
  <2> QED BY <2>2, <2>3
<1>9. ASSUME NEW r \in Peers, NEW s \in Others(r)
      PROVE  Rostered(r, s)'
  <2>1. s \in Peers /\ s # r /\ r \in Others(s) /\ Rostered(r, s)
    BY DEF Others, PairsInv
  <2>2. CASE ~(r = p /\ s = q) /\ ~(r = q /\ s = p)
    <3>1. net'[s][r] = net[s][r] /\ net'[r][s] = net[r][s]
      BY <1>4, <2>1, <2>2
    <3> QED BY <1>1, <2>1, <3>1, UntouchedRoster
  <2>3. CASE r = p /\ s = q
    <3>1. Present(p, q)' = Present(p, q) /\ Present(p, q) \in BOOLEAN
      BY <1>1 DEF Present
    <3>2. Stays(net'[q][p], Present(p, q)) <=> Stays(net[q][p], Present(p, q))
      <4>1. ASSUME NEW b \in BOOLEAN PROVE Stays(Tail(net[q][p]), b) <=> Stays(net[q][p], b)
        BY <1>2, <1>3, StaysTail DEF m
      <4> QED BY <1>4, <3>1, <4>1
    <3>3. net'[p][q] = net[p][q]
      BY <1>3, <1>4
    <3>4. RosterSame(p, q)
      BY <1>1, <1>2, <3>1, <3>2, <3>3 DEF RosterSame
    <3> QED BY <2>1, <2>3, <3>4, RosteredKept
  <2>4. CASE r = q /\ s = p
    <3>1. Present(q, p)' = Present(q, p) /\ net'[p][q] = net[p][q]
      BY <1>1, <1>3, <1>4 DEF Present
    <3>2. Asks(net[q][p]) => Asks(net'[q][p])
      <4>1. m.type # "hello"
        BY <1>2
      <4> QED BY <1>2, <1>3, <1>4, <4>1, StaysTail DEF m
    <3>3. RosterSame(q, p)
      BY <1>1, <3>1, <3>2 DEF RosterSame
    <3> QED BY <2>1, <2>4, <3>3, RosteredKept
  <2> QED BY <2>2, <2>3, <2>4
<1>10. ASSUME NEW r \in Peers, NEW s \in Others(r)
       PROVE  Forgotten(r, s)'
  <2>1. Forgotten(r, s) /\ s \in Peers /\ s # r
    BY DEF PairsInv, Others
  <2>2. registry[r][s] = "absent" => claims'[r][s] \in {claims[r][s], NoClaim}
    BY <1>7, <2>1
  <2> QED BY <1>1, <2>1, <2>2 DEF Forgotten
<1>11. OwnKept
  BY <1>3, <1>7 DEF OwnKept
<1> QED BY <1>4, <1>7, <1>8, <1>9, <1>10, <1>11 DEF PairsInv

-----------------------------------------------------------------------------
\* Signals about who is there.

RegistryTyped ==
    /\ registry = [p \in Peers |-> registry[p]]
    /\ \A p \in Peers : registry[p] \in [Others(p) -> Entries]

Enters(p, q, entry) ==
    registry' = [registry EXCEPT ![p] = [registry[p] EXCEPT ![q] = entry]]

(* One entry of one registry changes. *)
LEMMA EntryChanges ==
  ASSUME Typed, NEW p \in Peers, NEW q \in Others(p), NEW entry \in Entries,
         Enters(p, q, entry)
  PROVE  /\ RegistryTyped'
         /\ registry'[p][q] = entry
         /\ \A r \in Peers : \A s \in Others(r) :
                ~(r = p /\ s = q) => registry'[r][s] = registry[r][s]
<1>1. registry[p] \in [Others(p) -> Entries] /\ registry = [r \in Peers |-> registry[r]]
  BY DEF Typed
<1>2. /\ registry'[p] = [registry[p] EXCEPT ![q] = entry]
      /\ \A r \in Peers \ {p} : registry'[r] = registry[r]
      /\ registry' = [r \in Peers |-> registry'[r]]
  BY <1>1 DEF Enters
<1>3. registry'[p] \in [Others(p) -> Entries]
  BY <1>1, <1>2
<1>4. RegistryTyped'
  BY <1>2, <1>3 DEF RegistryTyped, Typed
<1>5. registry'[p][q] = entry /\ \A s \in Others(p) \ {q} : registry'[p][s] = registry[p][s]
  BY <1>1, <1>2
<1> QED BY <1>2, <1>4, <1>5

\* Nothing about locks is sent or handled.
NoLockFrames ==
    \A p \in Peers : \A q \in Others(p) :
        \/ net'[q][p] = net[q][p]
        \/ \E m \in Messages : ~IsLockFrame(m) /\ net'[q][p] = Append(net[q][p], m)
        \/ /\ net[q][p] # <<>> /\ ~IsLockFrame(Head(net[q][p]))
           /\ net'[q][p] = Tail(net[q][p])

\* p answers q's signal with m or not at all, and a hello for sure.
Replies(p, q, m, answer) ==
    /\ m \in Signals(clock) /\ Positive(m)
    /\ answer \in {<<>>, <<m>>}
    /\ Answer(p, q, answer)
    /\ Head(net[q][p]).type = "hello" => answer # <<>>

(* Handling a signal that says whether its sender is there, and answering it, leaves the
   registries what they are bound to be. *)
LEMMA Handled ==
  ASSUME Typed, \A r \in Peers : \A s \in Others(r) : Rostered(r, s),
         NEW p \in Peers, NEW q \in Others(p),
         link[p] = "up", net[q][p] # <<>>, ~IsLockFrame(Head(net[q][p])),
         NEW m, NEW answer, Replies(p, q, m, answer),
         Present(p, q)' <=> Positive(Head(net[q][p])),
         \A r \in Peers : \A s \in Others(r) :
             ~(r = p /\ s = q) => registry'[r][s] = registry[r][s],
         UNCHANGED <<clock, link, departed, misled>>
  PROVE  SignalsTyped' /\ NoLockFrames /\ \A r \in Peers : \A s \in Others(r) : Rostered(r, s)'
<1> DEFINE h == Head(net[q][p])
<1>1. /\ q \in Peers /\ q # p /\ p \in Others(q) /\ h \in Messages
      /\ net[p][q] \in Seq(Messages) /\ net[q][p] \in Seq(Messages)
      /\ m \in Messages /\ Positive(m) /\ ~IsLockFrame(m) /\ ~Negative(m)
  <2>1. m \in Messages
    BY SignalsAreMessages DEF Replies
  <2> QED BY <2>1, UnderWay, OfOneKind DEF Replies
<1>2. /\ SignalsTyped'
      /\ net'[q][p] = Tail(net[q][p])
      /\ net'[p][q] = IF link[q] = "up" /\ answer # <<>> THEN Append(net[p][q], m) ELSE net[p][q]
      /\ \A r \in Peers : \A s \in Others(r) :
             ~(r = p /\ s = q) /\ ~(r = q /\ s = p) => net'[r][s] = net[r][s]
  <2>1. clock' = clock
    OBVIOUS
  <2>2. m \in Signals(clock) /\ answer \in {<<>>, <<m>>} /\ Answer(p, q, answer)
    BY DEF Replies
  <2> QED BY ONLY <2>1, <2>2, Typed, p \in Peers, q \in Others(p), net[q][p] # <<>>, Answers
<1>3. NoLockFrames
  <2>1. ASSUME NEW r \in Peers, NEW s \in Others(r)
        PROVE  \/ net'[s][r] = net[s][r]
               \/ \E k \in Messages : ~IsLockFrame(k) /\ net'[s][r] = Append(net[s][r], k)
               \/ /\ net[s][r] # <<>> /\ ~IsLockFrame(Head(net[s][r]))
                  /\ net'[s][r] = Tail(net[s][r])
    <3>1. s \in Peers /\ r \in Others(s)
      BY DEF Others
    <3>2. CASE s = q /\ r = p
      BY <1>2, <3>2
    <3>3. CASE s = p /\ r = q
      BY <1>1, <1>2, <3>3
    <3>4. CASE ~(s = q /\ r = p) /\ ~(s = p /\ r = q)
      BY <1>2, <3>1, <3>4
    <3> QED BY <3>2, <3>3, <3>4
  <2> QED BY <2>1 DEF NoLockFrames
<1>4. Positive(h) \/ Negative(h)
  BY <1>1, OfOneKind
<1>5. Rostered(p, q)'
  <2>1. Present(p, q) \in BOOLEAN /\ Present(p, q)' \in BOOLEAN
    BY DEF Present
  <2>2. Stays(Tail(net[q][p]), Present(p, q)') <=> Stays(net[q][p], Present(p, q))
    <3>1. CASE Positive(h)
      <4>1. Present(p, q)' = TRUE
        BY <2>1, <3>1
      <4>2. Stays(Tail(net[q][p]), TRUE) <=> Stays(net[q][p], Present(p, q))
        BY <1>1, <2>1, <3>1, StaysTail
      <4> QED BY <4>1, <4>2
    <3>2. CASE Negative(h)
      <4>1. Present(p, q)' = FALSE
        BY <1>1, <2>1, <3>2, OfOneKind
      <4>2. Stays(Tail(net[q][p]), FALSE) <=> Stays(net[q][p], Present(p, q))
        BY <1>1, <2>1, <3>2, StaysTail
      <4> QED BY <4>1, <4>2
    <3> QED BY <1>4, <3>1, <3>2
  <2>3. Asks(net[p][q]) => Asks(net'[p][q])
    <3>1. Asks(net[p][q]) => Asks(Append(net[p][q], m))
      <4>1. Asks(Append(net[p][q], m)) <=> (Asks(net[p][q]) \/ m.type = "hello")
        BY <1>1, StaysAppend
      <4> QED BY <4>1
    <3> QED BY <1>2, <3>1
  <2>4. RosterSame(p, q)
    BY <1>2, <2>2, <2>3 DEF RosterSame
  <2> QED BY <2>4, RosteredKept
<1>6. Rostered(q, p)'
  <2>1. Present(q, p)' = Present(q, p) /\ Present(q, p) \in BOOLEAN
    BY <1>1 DEF Present
  <2>2. Rostered(q, p)
    BY <1>1
  <2>3. CASE answer = <<>> \/ link[q] # "up"
    <3>1. net'[p][q] = net[p][q]
      BY <1>2, <2>3
    <3>2. Asks(net[q][p]) => Asks(net'[q][p]) \/ link[q] # "up"
      <4>1. Asks(net[q][p]) => Asks(Tail(net[q][p])) \/ h.type = "hello"
        BY <1>1, StaysTail
      <4> QED BY <1>2, <2>3, <4>1 DEF Replies
    <3>3. CASE link[q] = "up"
      <4>1. RosterSame(q, p)
        BY <2>1, <3>1, <3>2, <3>3 DEF RosterSame
      <4> QED BY <1>1, <2>2, <4>1, RosteredKept
    <3>4. CASE link[q] # "up"
      BY <2>1, <2>2, <3>1, <3>4 DEF Rostered
    <3> QED BY <3>3, <3>4
  <2>4. CASE answer # <<>> /\ link[q] = "up"
    <3>1. net'[p][q] = Append(net[p][q], m)
      BY <1>2, <2>4
    <3>2. Stays(net'[p][q], Present(q, p))
      BY <1>1, <2>1, <3>1, StaysAppend
    <3>3. Stays(net[p][q], Present(q, p))'
      BY <2>1, <3>2 DEF Stays, Positive, Negative
    <3> QED BY <2>4, <3>3 DEF Rostered
  <2> QED BY <2>3, <2>4
<1>7. ASSUME NEW r \in Peers, NEW s \in Others(r)
      PROVE  Rostered(r, s)'
  <2>1. s \in Peers /\ s # r /\ r \in Others(s) /\ Rostered(r, s)
    BY DEF Others
  <2>2. CASE ~(r = p /\ s = q) /\ ~(r = q /\ s = p)
    <3>1. net'[s][r] = net[s][r] /\ net'[r][s] = net[r][s]
      BY <1>2, <2>1, <2>2
    <3> QED BY <2>1, <2>2, <3>1, UntouchedRoster
  <2> QED BY <1>5, <1>6, <2>2
<1> QED BY <1>2, <1>3, <1>7

(* If nothing about locks is said and the engines are left alone, or something was lost,
   everybody is as well informed as before. *)
LEMMA AllInformed ==
  ASSUME Typed, \A r \in Peers : \A s \in Others(r) : Informed(r, s), clock' = clock,
         NoLockFrames, disturbed => disturbed', disturbed' \/ claims' = claims
  PROVE  \A r \in Peers : \A s \in Others(r) : Informed(r, s)'
<1> SUFFICES ASSUME NEW r \in Peers, NEW s \in Others(r) PROVE Informed(r, s)'
  OBVIOUS
<1>1. CASE disturbed'
  BY <1>1 DEF Informed
<1>2. CASE claims' = claims
  <2>1. AlikeAt(claims'[r][s], claims[r][s], clock) /\ AlikeAt(claims'[s][s], claims[s][s], clock)
    BY <1>2 DEF AlikeAt
  <2>2. \/ net'[s][r] = net[s][r]
        \/ \E k \in Messages : ~IsLockFrame(k) /\ net'[s][r] = Append(net[s][r], k)
        \/ /\ net[s][r] # <<>> /\ ~IsLockFrame(Head(net[s][r]))
           /\ net'[s][r] = Tail(net[s][r])
    BY DEF NoLockFrames
  <2> QED BY <2>1, <2>2, InformedKept
<1> QED BY <1>1, <1>2

(* What a signal about who is there says is entered, and its claims are left alone: the
   peer counts as present from now on. *)
LEMMA PresenceKeepsPairs ==
  ASSUME Typed, PairsInv, NEW p \in Peers, NEW q \in Others(p), HandlePresence(p, q)
  PROVE  SignalsTyped' /\ RegistryTyped' /\ PairsInv' /\ OwnKept
<1>1. /\ clock' = clock /\ link' = link /\ departed' = departed /\ cleared' = cleared
      /\ misled' = misled /\ disturbed' = disturbed /\ claims' = claims /\ UNCHANGED <<engine, clock>>
  BY DEF HandlePresence, history, engine
<1>2. /\ RegistryTyped'
      /\ registry'[p][q] = "present"
      /\ \A r \in Peers : \A s \in Others(r) :
             ~(r = p /\ s = q) => registry'[r][s] = registry[r][s]
  <2>1. Enters(p, q, "present")
    BY DEF HandlePresence, Upsert, Enters
  <2>2. "present" \in Entries
    BY DEF Entries
  <2> QED BY <2>1, <2>2, EntryChanges
<1>3. PICK type \in {"welcome", "presence"} : \E answer \in {<<>>, <<Message(type)>>} :
          /\ Answer(p, q, answer) /\ link[p] = "up" /\ net[q][p] # <<>>
          /\ Positive(Head(net[q][p]))
          /\ Head(net[q][p]).type = "hello" => answer # <<>>
  <2>1. <<Message("welcome")>> # <<>> /\ <<Message("presence")>> # <<>>
    OBVIOUS
  <2>2. CASE Received(p, q, "hello") /\ Answer(p, q, <<Message("welcome")>>)
    BY <2>1, <2>2 DEF Received, Positive
  <2>3. CASE Received(p, q, "welcome") /\ Answer(p, q, <<Message("presence")>>)
    BY <2>1, <2>3 DEF Received, Positive
  <2>4. CASE Received(p, q, "presence") /\ Answer(p, q, <<>>)
    BY <2>1, <2>4 DEF Received, Positive
  <2> QED BY <2>2, <2>3, <2>4 DEF HandlePresence
<1>4. PICK answer \in {<<>>, <<Message(type)>>} :
          /\ Answer(p, q, answer) /\ link[p] = "up" /\ net[q][p] # <<>>
          /\ Positive(Head(net[q][p]))
          /\ Head(net[q][p]).type = "hello" => answer # <<>>
  BY <1>3
<1> DEFINE m == Message(type)
<1>5. Replies(p, q, m, answer)
  BY <1>4, MessageTyped DEF Positive, Replies
<1>6. ~IsLockFrame(Head(net[q][p]))
  BY <1>4, UnderWay, OfOneKind
<1> HIDE DEF m
<1>7. Present(p, q)' <=> Positive(Head(net[q][p]))
  BY <1>2, <1>4 DEF Present
<1>8. SignalsTyped' /\ NoLockFrames /\ \A r \in Peers : \A s \in Others(r) : Rostered(r, s)'
  <2>1. UNCHANGED <<clock, link, departed, misled>>
    BY <1>1
  <2>2. \A r \in Peers : \A s \in Others(r) : Rostered(r, s)
    BY DEF PairsInv
  <2> QED BY ONLY <1>2, <1>4, <1>5, <1>6, <1>7, <2>1, <2>2, Typed, p \in Peers,
                  q \in Others(p), Handled
<1>9. \A r \in Peers : \A s \in Others(r) : Informed(r, s)'
  BY <1>1, <1>8, AllInformed DEF PairsInv
<1>10. ASSUME NEW r \in Peers, NEW s \in Others(r) PROVE Forgotten(r, s)'
  <2>1. Forgotten(r, s)
    BY DEF PairsInv
  <2> QED BY <1>1, <1>2, <2>1 DEF Forgotten
<1>11. EngineTyped' /\ \A r \in Peers : Told(r)'
  BY <1>1, EngineSame DEF PairsInv
<1> QED BY <1>1, <1>2, <1>8, <1>9, <1>10, <1>11 DEF PairsInv, OwnKept

(* A peer that leaves a registry takes its claims along. *)
LEMMA LeavingForgets ==
  ASSUME Typed, PairsInv, NEW p \in Peers, NEW q \in Others(p), PeerLeaves(p, q),
         UNCHANGED <<clock, cleared>>
  PROVE  /\ RegistryTyped' /\ registry'[p][q] = "absent"
         /\ \A r \in Peers : \A s \in Others(r) :
                ~(r = p /\ s = q) => registry'[r][s] = registry[r][s]
         /\ EngineTyped' /\ \A r \in Peers : Told(r)'
         /\ \A r \in Peers : \A s \in Others(r) : Forgotten(r, s)'
         /\ OwnKept /\ disturbed' \in BOOLEAN /\ (disturbed => disturbed')
         /\ disturbed' \/ claims' = claims
<1>1. /\ RegistryTyped' /\ registry'[p][q] = "absent"
      /\ \A r \in Peers : \A s \in Others(r) :
             ~(r = p /\ s = q) => registry'[r][s] = registry[r][s]
  <2>1. Enters(p, q, "absent")
    BY DEF PeerLeaves, Remove, Enters
  <2>2. "absent" \in Entries
    BY DEF Entries
  <2> QED BY <2>1, <2>2, EntryChanges
<1>2. q \in Peers /\ q # p
  BY DEF Others
<1>3. CASE registry[p][q] = "absent"
  <2>1. UNCHANGED <<engine, clock>> /\ disturbed' = disturbed /\ claims' = claims
    BY <1>3 DEF PeerLeaves, engine
  <2>2. EngineTyped' /\ \A r \in Peers : Told(r)'
    BY <2>1, EngineSame DEF PairsInv
  <2>3. ASSUME NEW r \in Peers, NEW s \in Others(r) PROVE Forgotten(r, s)'
    <3>1. Forgotten(r, s)
      BY DEF PairsInv
    <3> QED BY <1>1, <1>3, <2>1, <3>1 DEF Forgotten
  <2> QED BY <1>1, <2>1, <2>2, <2>3 DEF OwnKept, Typed
<1>4. CASE registry[p][q] # "absent"
  <2>1. DropClaim(p, q) /\ disturbed' = TRUE
    BY <1>4 DEF PeerLeaves
  <2>2. Learns(p, q, NoClaim)
    BY <1>2, <2>1, DropLearns DEF PairsInv
  <2>3. /\ EngineTyped' /\ \A r \in Peers : Told(r)'
        /\ \A r \in Peers : \A s \in Peers : claims'[r][s] \in {claims[r][s], NoClaim}
        /\ claims'[p][q] = NoClaim
    BY <1>2, <2>2 DEF Learns
  <2>4. ASSUME NEW r \in Peers, NEW s \in Others(r) PROVE Forgotten(r, s)'
    <3>1. Forgotten(r, s) /\ s \in Peers
      BY DEF PairsInv, Others
    <3> QED BY <1>1, <2>3, <3>1 DEF Forgotten
  <2> QED BY <1>1, <2>1, <2>3, <2>4 DEF OwnKept
<1> QED BY <1>3, <1>4

(* 'leave' is handled. *)
LEMMA LeaveKeepsPairs ==
  ASSUME Typed, PairsInv, NEW p \in Peers, NEW q \in Others(p), HandleLeave(p, q)
  PROVE  SignalsTyped' /\ RegistryTyped' /\ PairsInv' /\ OwnKept /\ disturbed' \in BOOLEAN
<1>1. /\ clock' = clock /\ link' = link /\ departed' = departed /\ cleared' = cleared
      /\ misled' = misled /\ PeerLeaves(p, q)
  BY DEF HandleLeave
<1>2. /\ RegistryTyped' /\ registry'[p][q] = "absent"
      /\ \A r \in Peers : \A s \in Others(r) :
             ~(r = p /\ s = q) => registry'[r][s] = registry[r][s]
      /\ EngineTyped' /\ \A r \in Peers : Told(r)'
      /\ \A r \in Peers : \A s \in Others(r) : Forgotten(r, s)'
      /\ OwnKept /\ disturbed' \in BOOLEAN /\ (disturbed => disturbed')
      /\ disturbed' \/ claims' = claims
  BY <1>1, LeavingForgets
<1>3. /\ Answer(p, q, <<>>) /\ link[p] = "up" /\ net[q][p] # <<>>
      /\ Head(net[q][p]).type = "leave"
  BY DEF HandleLeave, Received
<1> DEFINE m == Message("welcome")
<1>4. Replies(p, q, m, <<>>)
  BY <1>3, MessageTyped DEF Positive, Replies
<1> HIDE DEF m
<1>5. ~IsLockFrame(Head(net[q][p])) /\ (Present(p, q)' <=> Positive(Head(net[q][p])))
  BY <1>2, <1>3 DEF Present, Positive, IsLockFrame
<1>6. SignalsTyped' /\ NoLockFrames /\ \A r \in Peers : \A s \in Others(r) : Rostered(r, s)'
  BY <1>1, <1>2, <1>3, <1>4, <1>5, Handled DEF PairsInv
<1>7. \A r \in Peers : \A s \in Others(r) : Informed(r, s)'
  BY <1>1, <1>2, <1>6, AllInformed DEF PairsInv
<1> QED BY <1>2, <1>6, <1>7 DEF PairsInv

(* 'peer-left' is handled: the peer counts as leaving unless it was absent. *)
LEMMA PeerLeftKeepsPairs ==
  ASSUME Typed, PairsInv, NEW p \in Peers, NEW q \in Others(p), HandlePeerLeft(p, q)
  PROVE  SignalsTyped' /\ RegistryTyped' /\ PairsInv' /\ OwnKept
<1>1. /\ clock' = clock /\ link' = link /\ departed' = departed /\ cleared' = cleared
      /\ misled' = misled /\ disturbed' = disturbed /\ claims' = claims /\ UNCHANGED <<engine, clock>>
  BY DEF HandlePeerLeft, history, engine
<1> DEFINE entry == IF registry[p][q] = "present" THEN "leaving" ELSE registry[p][q]
<1>2. entry \in Entries /\ entry # "present" /\ (entry = "absent" => registry[p][q] = "absent")
  BY DEF Entries, Typed
<1>3. Enters(p, q, entry)
  BY DEF HandlePeerLeft, MarkDisconnected, Enters
<1> HIDE DEF entry
<1>4. /\ RegistryTyped' /\ registry'[p][q] = entry
      /\ \A r \in Peers : \A s \in Others(r) :
             ~(r = p /\ s = q) => registry'[r][s] = registry[r][s]
  BY <1>2, <1>3, EntryChanges
<1>5. /\ Answer(p, q, <<>>) /\ link[p] = "up" /\ net[q][p] # <<>>
      /\ Head(net[q][p]).type = "peer-left"
  BY DEF HandlePeerLeft, Received
<1> DEFINE m == Message("welcome")
<1>6. Replies(p, q, m, <<>>)
  BY <1>5, MessageTyped DEF Positive, Replies
<1> HIDE DEF m
<1>7. ~IsLockFrame(Head(net[q][p])) /\ (Present(p, q)' <=> Positive(Head(net[q][p])))
  BY <1>2, <1>4, <1>5 DEF Present, Positive, IsLockFrame
<1>8. SignalsTyped' /\ NoLockFrames /\ \A r \in Peers : \A s \in Others(r) : Rostered(r, s)'
  BY <1>1, <1>4, <1>5, <1>6, <1>7, Handled DEF PairsInv
<1>9. \A r \in Peers : \A s \in Others(r) : Informed(r, s)'
  BY <1>1, <1>8, AllInformed DEF PairsInv
<1>10. ASSUME NEW r \in Peers, NEW s \in Others(r) PROVE Forgotten(r, s)'
  <2>1. Forgotten(r, s)
    BY DEF PairsInv
  <2> QED BY <1>1, <1>2, <1>4, <2>1 DEF Forgotten
<1>11. EngineTyped' /\ \A r \in Peers : Told(r)'
  BY <1>1, EngineSame DEF PairsInv
<1> QED BY <1>1, <1>4, <1>8, <1>9, <1>10, <1>11 DEF PairsInv, OwnKept

(* The grace period of a peer ends: it was not counted as present anyway. *)
LEMMA GraceKeepsPairs ==
  ASSUME Typed, PairsInv, NEW p \in Peers, NEW q \in Others(p), GraceEnds(p, q)
  PROVE  SignalsTyped' /\ RegistryTyped' /\ PairsInv' /\ OwnKept /\ disturbed' \in BOOLEAN
<1>1. /\ clock' = clock /\ link' = link /\ departed' = departed /\ cleared' = cleared
      /\ misled' = misled /\ net' = net /\ PeerLeaves(p, q) /\ registry[p][q] = "leaving"
  BY DEF GraceEnds
<1>2. /\ RegistryTyped' /\ registry'[p][q] = "absent"
      /\ \A r \in Peers : \A s \in Others(r) :
             ~(r = p /\ s = q) => registry'[r][s] = registry[r][s]
      /\ EngineTyped' /\ \A r \in Peers : Told(r)'
      /\ \A r \in Peers : \A s \in Others(r) : Forgotten(r, s)'
      /\ OwnKept /\ disturbed' \in BOOLEAN /\ (disturbed => disturbed')
      /\ disturbed' \/ claims' = claims
  BY <1>1, LeavingForgets
<1>3. SignalsTyped' /\ NoLockFrames
  BY <1>1 DEF SignalsTyped, Typed, NoLockFrames
<1>4. ASSUME NEW r \in Peers, NEW s \in Others(r) PROVE Rostered(r, s)'
  <2>1. Rostered(r, s)
    BY DEF PairsInv
  <2>2. Present(r, s)' = Present(r, s)
    BY <1>1, <1>2 DEF Present
  <2>3. RosterSame(r, s)
    BY <1>1, <2>2 DEF RosterSame
  <2> QED BY <2>1, <2>3, RosteredKept
<1>5. \A r \in Peers : \A s \in Others(r) : Informed(r, s)'
  BY <1>1, <1>2, <1>3, AllInformed DEF PairsInv
<1> QED BY <1>2, <1>3, <1>4, <1>5 DEF PairsInv

-----------------------------------------------------------------------------
\* Connections.

\* m is the last that is on its way from p to the peers of H.
SaysTo(p, m, H) ==
    net' = [net EXCEPT ![p] =
               [q \in Others(p) |-> IF q \in H THEN Append(net[p][q], m) ELSE net[p][q]]]

(* What is said to some. *)
LEMMA SaidTo ==
  ASSUME Typed, NEW p \in Peers, NEW m \in Signals(clock), NEW H, SaysTo(p, m, H),
         clock' = clock
  PROVE  /\ SignalsTyped'
         /\ \A q \in Others(p) :
                net'[p][q] = IF q \in H THEN Append(net[p][q], m) ELSE net[p][q]
         /\ \A r \in Peers \ {p} : net'[r] = net[r]
<1>1. /\ net'[p] = [q \in Others(p) |-> IF q \in H THEN Append(net[p][q], m) ELSE net[p][q]]
      /\ \A r \in Peers \ {p} : net'[r] = net[r]
      /\ net' = [r \in Peers |-> net'[r]]
  BY DEF Typed, SaysTo
<1>2. ASSUME NEW q \in Others(p)
      PROVE  net[p][q] \in Seq(Signals(clock)) /\ Append(net[p][q], m) \in Seq(Signals(clock))
  <2>1. net[p][q] \in Seq(Signals(clock))
    BY DEF Typed
  <2> QED BY <2>1, AppendProperties
<1>3. net'[p] \in [Others(p) -> Seq(Signals(clock))]
  BY <1>1, <1>2
<1>4. SignalsTyped'
  BY <1>1, <1>3 DEF SignalsTyped, Typed
<1> QED BY <1>1, <1>4

(* p says that it is there to those that are connected, as it is from then on. *)
LEMMA ComingKeepsRosters ==
  ASSUME Typed, \A r \in Peers : \A s \in Others(r) : Rostered(r, s),
         NEW p \in Peers, NEW m \in Signals(clock), Positive(m),
         SaysTo(p, m, {q \in Peers : link[q] = "up"}),
         (link[p] = "off" /\ m.type = "hello") \/ link[p] = "up",
         link' = [link EXCEPT ![p] = "up"],
         misled' = misled \ {p}, UNCHANGED <<clock, departed, registry>>
  PROVE  SignalsTyped' /\ NoLockFrames /\ \A r \in Peers : \A s \in Others(r) : Rostered(r, s)'
<1> DEFINE H == {q \in Peers : link[q] = "up"}
<1>1. /\ SignalsTyped'
      /\ \A q \in Others(p) :
             net'[p][q] = IF q \in H THEN Append(net[p][q], m) ELSE net[p][q]
      /\ \A r \in Peers \ {p} : net'[r] = net[r]
  <2>1. clock' = clock
    OBVIOUS
  <2> HIDE DEF H
  <2>2. SaysTo(p, m, H)
    BY DEF H
  <2> QED BY ONLY <2>1, <2>2, Typed, p \in Peers, m \in Signals(clock), SaidTo
<1>2. m \in Messages /\ ~IsLockFrame(m)
  BY SignalsAreMessages, OfOneKind
<1>3. NoLockFrames
  <2>1. ASSUME NEW r \in Peers, NEW s \in Others(r)
        PROVE  \/ net'[s][r] = net[s][r]
               \/ \E k \in Messages : ~IsLockFrame(k) /\ net'[s][r] = Append(net[s][r], k)
    <3>1. s \in Peers /\ r \in Others(s)
      BY DEF Others
    <3> QED BY <1>1, <1>2, <3>1
  <2> QED BY <2>1 DEF NoLockFrames
<1>4. ASSUME NEW r \in Peers, NEW s \in Others(r), s = p PROVE Rostered(r, s)'
  <2>1. Rostered(r, p) /\ r # p /\ r \in Others(p) /\ p \in Others(r)
    BY <1>4 DEF Others
  <2>2. link'[p] = "up" /\ link'[r] = link[r] /\ (Present(r, p)' <=> Present(r, p))
           /\ Present(r, p) \in BOOLEAN
    BY <2>1 DEF Typed, Present
  <2>3. CASE link[r] = "up"
    <3>1. net'[p][r] = Append(net[p][r], m) /\ net[p][r] \in Seq(Messages)
      BY <1>1, <2>1, <2>3, UnderWay
    <3>2. Stays(net'[p][r], Present(r, p))
      BY <1>2, <2>2, <3>1, StaysAppend
    <3>3. Stays(net[p][r], Present(r, p))'
      BY <2>2, <3>2 DEF Stays, Positive, Negative
    <3> QED BY <1>4, <2>2, <2>3, <3>3 DEF Rostered
  <2>4. CASE link[r] # "up"
    <3>1. net'[p][r] = net[p][r]
      BY <1>1, <2>1, <2>4
    <3> QED BY <1>4, <2>1, <2>2, <2>4, <3>1 DEF Rostered
  <2> QED BY <2>3, <2>4
<1>5. ASSUME NEW r \in Peers, NEW s \in Others(r), r = p PROVE Rostered(r, s)'
  <2>1. Rostered(p, s) /\ s # p /\ s \in Peers /\ s \in Others(p)
    BY <1>5 DEF Others
  <2>2. /\ link'[p] = "up" /\ link'[s] = link[s] /\ (Present(p, s)' <=> Present(p, s))
        /\ Present(p, s) \in BOOLEAN /\ net'[s][p] = net[s][p]
        /\ (s \in misled => s \in misled') /\ departed' = departed
    BY <1>1, <2>1 DEF Typed, Present
  <2>3. link[s] = "up" =>
            Asks(net'[p][s]) <=> (Asks(net[p][s]) \/ m.type = "hello")
    <3>1. net[p][s] \in Seq(Messages)
      BY <2>1, UnderWay
    <3>2. Asks(Append(net[p][s], m)) <=> (Asks(net[p][s]) \/ m.type = "hello")
      BY <1>2, <3>1, StaysAppend
    <3> QED BY <1>1, <2>1, <3>2
  <2>4. Stays(net[s][p], Present(p, s))' <=> Stays(net[s][p], Present(p, s))
    BY <2>2 DEF Stays, Positive, Negative
  <2>5. Asks(net[p][s])' <=> Asks(net'[p][s])
    BY DEF Asks
  <2>6. CASE link[p] = "up"
    BY <1>5, <2>1, <2>2, <2>3, <2>4, <2>5, <2>6 DEF Rostered
  <2>7. CASE link[p] = "off" /\ m.type = "hello"
    <3>1. net[s][p] = <<>> /\ ~Present(p, s)
      BY <2>1, <2>7 DEF Rostered
    <3>2. ~Stays(net[s][p], Present(p, s))
      BY <2>2, <3>1, NothingOnTheWay
    <3> QED BY <1>5, <2>1, <2>2, <2>3, <2>4, <2>5, <2>7, <3>1, <3>2 DEF Rostered
  <2> QED BY <2>6, <2>7
<1>6. ASSUME NEW r \in Peers, NEW s \in Others(r), r # p, s # p PROVE Rostered(r, s)'
  <2>1. /\ s \in Peers /\ net'[s][r] = net[s][r] /\ net'[r][s] = net[r][s]
        /\ link'[r] = link[r] /\ link'[s] = link[s] /\ (s \in misled => s \in misled')
        /\ departed' = departed /\ registry'[r][s] = registry[r][s] /\ Rostered(r, s)
    BY <1>1, <1>6 DEF Typed, Others
  <2> QED BY <2>1, UntouchedRoster
<1> QED BY <1>1, <1>3, <1>4, <1>5, <1>6

(* What the claims and the registry entries have to do with each other is left alone. *)
LEMMA ForgottenKept ==
  ASSUME PairsInv, claims' = claims, cleared \subseteq cleared',
         \A r \in Peers : \A s \in Others(r) :
             registry'[r][s] = "absent" => registry[r][s] = "absent" \/ r \in cleared'
  PROVE  \A r \in Peers : \A s \in Others(r) : Forgotten(r, s)'
<1>1. ASSUME NEW r \in Peers, NEW s \in Others(r) PROVE Forgotten(r, s)'
  <2>1. Forgotten(r, s)
    BY DEF PairsInv
  <2> QED BY <2>1 DEF Forgotten
<1> QED BY <1>1

(* A connection is there. *)
LEMMA ConnectKeepsPairs ==
  ASSUME Typed, PairsInv, NEW p \in Peers, Connect(p)
  PROVE  SignalsTyped' /\ PairsInv' /\ OwnKept
<1>1. /\ clock' = clock /\ departed' = departed /\ registry' = registry /\ cleared' = cleared
      /\ disturbed' = disturbed /\ claims' = claims /\ UNCHANGED <<engine, clock>>
      /\ UNCHANGED <<clock, departed, registry>>
  BY DEF Connect, engine
<1> DEFINE m == Message("hello")
<1>2. m \in Signals(clock) /\ Positive(m) /\ m.type = "hello"
  BY MessageTyped DEF Positive
<1>3. SaysTo(p, m, {q \in Peers : link[q] = "up"})
  BY DEF Connect, SaysTo, Others
<1>4. link[p] = "off" /\ link' = [link EXCEPT ![p] = "up"] /\ misled' = misled \ {p}
  BY DEF Connect
<1> HIDE DEF m
<1>5. SignalsTyped' /\ NoLockFrames /\ \A r \in Peers : \A s \in Others(r) : Rostered(r, s)'
  BY <1>1, <1>2, <1>3, <1>4, ComingKeepsRosters DEF PairsInv
<1>6. \A r \in Peers : \A s \in Others(r) : Informed(r, s)'
  BY <1>1, <1>5, AllInformed DEF PairsInv
<1>7. \A r \in Peers : \A s \in Others(r) : Forgotten(r, s)'
  BY <1>1, ForgottenKept
<1>8. EngineTyped' /\ \A r \in Peers : Told(r)'
  BY <1>1, EngineSame DEF PairsInv
<1> QED BY <1>1, <1>5, <1>6, <1>7, <1>8 DEF PairsInv, OwnKept

(* A heartbeat. *)
LEMMA HeartbeatKeepsPairs ==
  ASSUME Typed, PairsInv, NEW p \in Peers, Heartbeat(p)
  PROVE  SignalsTyped' /\ PairsInv' /\ OwnKept
<1>1. /\ clock' = clock /\ departed' = departed /\ registry' = registry /\ cleared' = cleared
      /\ disturbed' = disturbed /\ claims' = claims /\ UNCHANGED <<engine, clock>>
      /\ UNCHANGED <<clock, departed, registry>>
  BY DEF Heartbeat, engine, room
<1> DEFINE m == Message("presence")
<1>2. m \in Signals(clock) /\ Positive(m)
  BY MessageTyped DEF Positive
<1>3. link[p] = "up" /\ link' = [link EXCEPT ![p] = "up"] /\ misled' = misled \ {p}
  BY DEF Heartbeat, Typed, room
<1>4. SaysTo(p, m, {q \in Peers : link[q] = "up"})
  BY <1>3 DEF Heartbeat, SaysTo, Others, Sent
<1> HIDE DEF m
<1>5. SignalsTyped' /\ NoLockFrames /\ \A r \in Peers : \A s \in Others(r) : Rostered(r, s)'
  BY <1>1, <1>2, <1>3, <1>4, ComingKeepsRosters DEF PairsInv
<1>6. \A r \in Peers : \A s \in Others(r) : Informed(r, s)'
  BY <1>1, <1>5, AllInformed DEF PairsInv
<1>7. \A r \in Peers : \A s \in Others(r) : Forgotten(r, s)'
  BY <1>1, ForgottenKept
<1>8. EngineTyped' /\ \A r \in Peers : Told(r)'
  BY <1>1, EngineSame DEF PairsInv
<1> QED BY <1>1, <1>5, <1>6, <1>7, <1>8 DEF PairsInv, OwnKept

(* A connection breaks: what was on its way to the room is lost, and what the room sent
   may be. *)
LEMMA BreakKeepsPairs ==
  ASSUME Typed, PairsInv, NEW p \in Peers, Break(p)
  PROVE  SignalsTyped' /\ PairsInv' /\ OwnKept /\ disturbed' \in BOOLEAN
<1>1. /\ clock' = clock /\ departed' = departed \cup {p} /\ registry' = registry
      /\ cleared' = cleared /\ misled' = misled /\ claims' = claims /\ UNCHANGED <<engine, clock>>
      /\ link[p] = "up" /\ link' = [link EXCEPT ![p] = "dead"]
  BY DEF Break, engine
<1>2. PICK lost \in BOOLEAN :
        LET cut == {pair \in Peers \X Peers :
                pair[1] # pair[2] /\ (pair[2] = p \/ (pair[1] = p /\ lost))}
        IN  /\ net' = [q \in Peers |-> [r \in Others(q) |->
                   IF <<q, r>> \in cut THEN <<>> ELSE net[q][r]]]
            /\ disturbed' =
                   \/ disturbed
                   \/ \E pair \in cut : LockFramesIn(net[pair[1]][pair[2]])
  BY DEF Break
<1> DEFINE cut == {pair \in Peers \X Peers :
                pair[1] # pair[2] /\ (pair[2] = p \/ (pair[1] = p /\ lost))}
<1>3. /\ net' = [q \in Peers |-> [r \in Others(q) |->
             IF <<q, r>> \in cut THEN <<>> ELSE net[q][r]]]
      /\ disturbed' \in BOOLEAN /\ (disturbed => disturbed')
      /\ ~disturbed' => \A pair \in cut : ~LockFramesIn(net[pair[1]][pair[2]])
  BY <1>2 DEF Typed
<1>4. ASSUME NEW q \in Peers, NEW r \in Others(q)
      PROVE  /\ <<q, r>> \in cut <=> (r = p \/ (q = p /\ lost))
             /\ net'[q][r] = IF <<q, r>> \in cut THEN <<>> ELSE net[q][r]
             /\ r \in Peers /\ q \in Others(r) /\ q # r
  BY <1>3 DEF Others
<1> HIDE DEF cut
<1>5. SignalsTyped'
  <2>1. ASSUME NEW q \in Peers, NEW r \in Others(q) PROVE net'[q][r] \in Seq(Signals(clock))
    <3>1. net[q][r] \in Seq(Signals(clock)) /\ <<>> \in Seq(Signals(clock))
      BY EmptySeq DEF Typed
    <3> QED BY <1>4, <3>1
  <2> QED BY <1>1, <1>3, <2>1 DEF SignalsTyped
<1>6. ASSUME NEW r \in Peers, NEW s \in Others(r) PROVE Informed(r, s)'
  <2>1. ~disturbed' =>
            \/ net'[s][r] = net[s][r]
            \/ net'[s][r] = <<>> /\ \A i \in 1..Len(net[s][r]) : ~IsLockFrame(net[s][r][i])
    <3>1. s \in Peers /\ r \in Others(s)
      BY <1>4
    <3>2. CASE <<s, r>> \notin cut
      BY <1>4, <3>1, <3>2
    <3>3. CASE <<s, r>> \in cut
      <4>1. net'[s][r] = <<>> /\ (~disturbed' => ~LockFramesIn(net[s][r]))
        BY <1>3, <1>4, <3>1, <3>3
      <4>2. net[s][r] \in Seq(Messages)
        BY <3>1, UnderWay
      <4>3. DOMAIN net[s][r] = 1..Len(net[s][r])
        BY <4>2, LenProperties
      <4> QED BY <4>1, <4>3 DEF LockFramesIn
    <3> QED BY <3>2, <3>3
  <2>2. Informed(r, s) /\ AlikeAt(claims'[r][s], claims[r][s], clock)
           /\ AlikeAt(claims'[s][s], claims[s][s], clock)
    BY <1>1 DEF PairsInv, AlikeAt
  <2> QED BY <1>1, <1>3, <2>1, <2>2, InformedKept
<1>7. ASSUME NEW r \in Peers, NEW s \in Others(r) PROVE Rostered(r, s)'
  <2>1. Rostered(r, s) /\ s \in Peers /\ s # r /\ r \in Others(s)
           /\ (Present(r, s)' <=> Present(r, s))
    BY <1>1, <1>4 DEF PairsInv, Present
  <2>2. CASE r = p
    <3>1. link'[r] = "dead"
      BY <1>1, <2>2 DEF Typed
    <3>2. net'[s][r] = <<>>
      BY <1>4, <2>1, <2>2
    <3> QED BY <3>2, <3>1 DEF Rostered
  <2>3. CASE s = p
    <3>1. link'[s] = "dead" /\ s \in departed' /\ link'[r] = link[r]
      BY <1>1, <2>1, <2>3 DEF Typed
    <3>2. net[s][r] = <<>> => net'[s][r] = <<>>
      BY <1>4, <2>1
    <3> QED BY <2>1, <3>1, <3>2 DEF Rostered
  <2>4. CASE r # p /\ s # p
    <3>1. net'[s][r] = net[s][r] /\ net'[r][s] = net[r][s]
      BY <1>4, <2>1, <2>4
    <3>2. link'[r] = link[r] /\ link'[s] = link[s]
      BY <1>1, <2>1, <2>4 DEF Typed
    <3> QED BY <1>1, <2>1, <3>1, <3>2, UntouchedRoster
  <2> QED BY <2>2, <2>3, <2>4
<1>8. \A r \in Peers : \A s \in Others(r) : Forgotten(r, s)'
  BY <1>1, ForgottenKept
<1>9. EngineTyped' /\ \A r \in Peers : Told(r)'
  BY <1>1, EngineSame DEF PairsInv
<1> QED BY <1>1, <1>3, <1>5, <1>6, <1>7, <1>8, <1>9 DEF PairsInv, OwnKept

(* A room hears that its connection broke, and counts on nobody from then on. *)
LEMMA LossKeepsPairs ==
  ASSUME Typed, PairsInv, NEW p \in Peers, HandleLoss(p)
  PROVE  SignalsTyped' /\ RegistryTyped' /\ PairsInv' /\ OwnKept
<1>1. /\ clock' = clock /\ departed' = departed /\ net' = net
      /\ cleared' = cleared /\ misled' = misled /\ claims' = claims /\ UNCHANGED <<engine, clock>>
      /\ disturbed' = disturbed /\ link[p] = "dead" /\ link' = [link EXCEPT ![p] = "off"]
  BY DEF HandleLoss, engine, history
<1>2. /\ RegistryTyped'
      /\ \A r \in Peers \ {p} : registry'[r] = registry[r]
      /\ \A s \in Others(p) : registry'[p][s] =
             IF registry[p][s] = "present" THEN "leaving" ELSE registry[p][s]
  <2>1. registry[p] \in [Others(p) -> Entries] /\ registry = [r \in Peers |-> registry[r]]
    BY DEF Typed
  <2>2. registry' = [registry EXCEPT ![p] = [s \in Others(p) |->
            IF registry[p][s] = "present" THEN "leaving" ELSE registry[p][s]]]
    BY <2>1 DEF HandleLoss, MarkAllDisconnected
  <2>3. registry'[p] = [s \in Others(p) |->
            IF registry[p][s] = "present" THEN "leaving" ELSE registry[p][s]]
    BY <2>1, <2>2
  <2>4. registry'[p] \in [Others(p) -> Entries]
    BY <2>1, <2>3 DEF Entries
  <2>5. (\A r \in Peers \ {p} : registry'[r] = registry[r]) /\ registry' = [r \in Peers |-> registry'[r]]
    BY <2>1, <2>2
  <2>6. RegistryTyped'
    BY <2>4, <2>5 DEF RegistryTyped, Typed
  <2> QED BY <2>3, <2>5, <2>6
<1>3. SignalsTyped' /\ NoLockFrames
  BY <1>1 DEF SignalsTyped, Typed, NoLockFrames
<1>4. \A r \in Peers : \A s \in Others(r) : Informed(r, s)'
  BY <1>1, <1>3, AllInformed DEF PairsInv
<1>5. ASSUME NEW r \in Peers, NEW s \in Others(r) PROVE Rostered(r, s)'
  <2>1. Rostered(r, s) /\ s \in Peers /\ s # r
    BY DEF PairsInv, Others
  <2>2. CASE r = p
    <3>1. link'[r] = "off" /\ net'[s][r] = <<>> /\ ~Present(r, s)'
      BY <1>1, <1>2, <2>1, <2>2 DEF Typed, Rostered, Present
    <3> QED BY <3>1 DEF Rostered
  <2>3. CASE s = p
    <3>1. link'[s] # "up" /\ link[s] # "up" /\ link'[r] = link[r] /\ (Present(r, s)' <=> Present(r, s))
      BY <1>1, <1>2, <2>1, <2>3 DEF Typed, Present
    <3>2. Stays(net[s][r], Present(r, s))' <=> Stays(net[s][r], Present(r, s))
      BY <1>1, <3>1 DEF Stays, Positive, Negative
    <3> QED BY <1>1, <2>1, <3>1, <3>2 DEF Rostered
  <2>4. CASE r # p /\ s # p
    <3>1. link'[r] = link[r] /\ link'[s] = link[s] /\ registry'[r][s] = registry[r][s]
      BY <1>1, <1>2, <2>1, <2>4 DEF Typed
    <3> QED BY <1>1, <2>1, <3>1, UntouchedRoster
  <2> QED BY <2>2, <2>3, <2>4
<1>6. \A r \in Peers : \A s \in Others(r) : Forgotten(r, s)'
  <2>1. ASSUME NEW r \in Peers, NEW s \in Others(r), registry'[r][s] = "absent"
        PROVE  registry[r][s] = "absent"
    BY <1>2, <2>1
  <2> QED BY <1>1, <2>1, ForgottenKept
<1>7. EngineTyped' /\ \A r \in Peers : Told(r)'
  BY <1>1, EngineSame DEF PairsInv
<1> QED BY <1>1, <1>2, <1>3, <1>4, <1>5, <1>6, <1>7 DEF PairsInv, OwnKept

(* A user disconnects the room: it says leave if it can, and counts on nobody. *)
LEMMA DisconnectKeepsPairs ==
  ASSUME Typed, PairsInv, NEW p \in Peers, Disconnect(p)
  PROVE  SignalsTyped' /\ RegistryTyped' /\ PairsInv' /\ OwnKept
<1> DEFINE m == Message("leave")
<1>1. /\ clock' = clock /\ cleared' = cleared \cup {p} /\ misled' = misled /\ claims' = claims
      /\ UNCHANGED <<engine, clock>> /\ disturbed' = TRUE /\ link' = [link EXCEPT ![p] = "off"]
      /\ departed' = IF link[p] = "up" THEN departed \cup {p} ELSE departed
  BY DEF Disconnect, engine
<1>2. /\ RegistryTyped'
      /\ \A r \in Peers \ {p} : registry'[r] = registry[r]
      /\ \A s \in Others(p) : registry'[p][s] = "absent"
  <2>1. registry[p] \in [Others(p) -> Entries] /\ registry = [r \in Peers |-> registry[r]]
    BY DEF Typed
  <2>2. registry' = [registry EXCEPT ![p] = [s \in Others(p) |-> "absent"]]
    BY <2>1 DEF Disconnect, Clear
  <2>3. registry'[p] = [s \in Others(p) |-> "absent"]
    BY <2>1, <2>2
  <2>4. registry'[p] \in [Others(p) -> Entries]
    BY <2>3 DEF Entries
  <2>5. (\A r \in Peers \ {p} : registry'[r] = registry[r]) /\ registry' = [r \in Peers |-> registry'[r]]
    BY <2>1, <2>2
  <2>6. RegistryTyped'
    BY <2>4, <2>5 DEF RegistryTyped, Typed
  <2> QED BY <2>3, <2>5, <2>6
<1>3. m \in Signals(clock) /\ m \in Messages /\ Negative(m)
  <2>1. m \in Signals(clock) /\ Negative(m)
    BY MessageTyped DEF Negative
  <2> QED BY <2>1, SignalsAreMessages
<1>4. net' = [r \in Peers |-> [s \in Others(r) |-> IF s = p THEN <<>> ELSE Sent(p, m)[r][s]]]
  BY DEF Disconnect
<1> HIDE DEF m
<1>5. ASSUME NEW r \in Peers, NEW s \in Others(r)
      PROVE  Sent(p, m)[r][s] = IF r = p /\ link[p] = "up" /\ link[s] = "up"
                                THEN Append(net[r][s], m) ELSE net[r][s]
  BY <1>5 DEF Sent, Typed
<1>6. ASSUME NEW r \in Peers, NEW s \in Others(r)
      PROVE  net'[r][s] = IF s = p THEN <<>>
                          ELSE IF r = p /\ link[p] = "up" /\ link[s] = "up"
                          THEN Append(net[r][s], m) ELSE net[r][s]
  BY <1>4, <1>5
<1>7. SignalsTyped'
  <2>1. ASSUME NEW q \in Peers, NEW r \in Others(q) PROVE net'[q][r] \in Seq(Signals(clock))
    <3>1. net[q][r] \in Seq(Signals(clock)) /\ <<>> \in Seq(Signals(clock))
      BY EmptySeq DEF Typed
    <3>2. Append(net[q][r], m) \in Seq(Signals(clock))
      BY <1>3, <3>1, AppendProperties
    <3> QED BY <1>6, <3>1, <3>2
  <2> HIDE DEF m
  <2> QED BY <1>1, <1>4, <2>1 DEF SignalsTyped
<1>8. ASSUME NEW r \in Peers, NEW s \in Others(r) PROVE Rostered(r, s)'
  <2>1. Rostered(r, s) /\ s \in Peers /\ s # r /\ r \in Others(s)
    BY DEF PairsInv, Others
  <2>2. CASE r = p
    <3>1. link'[r] = "off" /\ net'[s][r] = <<>> /\ ~Present(r, s)'
      BY <1>1, <1>2, <1>6, <2>1, <2>2 DEF Typed, Present
    <3> QED BY <3>1 DEF Rostered
  <2>3. CASE s = p
    <3>1. /\ link'[s] = "off" /\ link'[r] = link[r] /\ (Present(r, s)' <=> Present(r, s))
          /\ Present(r, s) \in BOOLEAN
      BY <1>1, <1>2, <2>1, <2>3 DEF Typed, Present
    <3>2. link[r] # "up" => net'[s][r] = net[s][r]
      BY <1>6, <2>1, <2>3
    <3>3. link[s] # "up" => net'[s][r] = net[s][r] /\ departed' = departed
      BY <1>1, <1>6, <2>1, <2>3
    <3>4. link[s] = "up" => s \in departed'
      BY <1>1, <2>3
    <3>5. link[s] # "up" => (Stays(net[s][r], Present(r, s))' <=> Stays(net[s][r], Present(r, s)))
      BY <3>1, <3>3 DEF Stays, Positive, Negative
    <3> QED BY <2>1, <3>1, <3>2, <3>3, <3>4, <3>5 DEF Rostered
  <2>4. CASE r # p /\ s # p
    <3>1. net'[s][r] = net[s][r] /\ net'[r][s] = net[r][s]
      BY <1>6, <2>1, <2>4
    <3>2. link'[r] = link[r] /\ link'[s] = link[s] /\ registry'[r][s] = registry[r][s]
      BY <1>1, <1>2, <2>1, <2>4 DEF Typed
    <3> QED BY <1>1, <2>1, <3>1, <3>2, UntouchedRoster
  <2> QED BY <2>2, <2>3, <2>4
<1>9. \A r \in Peers : \A s \in Others(r) : Informed(r, s)'
  BY <1>1 DEF Informed
<1>10. \A r \in Peers : \A s \in Others(r) : Forgotten(r, s)'
  <2>1. ASSUME NEW r \in Peers, NEW s \in Others(r), registry'[r][s] = "absent"
        PROVE  registry[r][s] = "absent" \/ r \in cleared'
    BY <1>1, <1>2, <2>1
  <2> QED BY <1>1, <2>1, ForgottenKept
<1>11. EngineTyped' /\ \A r \in Peers : Told(r)'
  BY <1>1, EngineSame DEF PairsInv
<1> QED BY <1>1, <1>2, <1>7, <1>8, <1>9, <1>10, <1>11 DEF PairsInv, OwnKept

(* The relay says that a peer left. *)
LEMMA AnnouncementKeepsPairs ==
  ASSUME Typed, PairsInv, NEW p \in Peers, AnnounceDeparture(p)
  PROVE  SignalsTyped' /\ PairsInv' /\ OwnKept
<1> DEFINE m == Message("peer-left")
           H == {q \in Peers : link[q] = "up"}
<1>1. /\ clock' = clock /\ departed' = departed \ {p} /\ registry' = registry /\ link' = link
      /\ cleared' = cleared /\ disturbed' = disturbed /\ claims' = claims
      /\ UNCHANGED <<engine, clock>>
      /\ misled' = IF link[p] = "up" THEN misled \cup {p} ELSE misled
  BY DEF AnnounceDeparture, engine
<1>2. m \in Signals(clock) /\ m \in Messages /\ Negative(m) /\ ~IsLockFrame(m)
  <2>1. m \in Signals(clock) /\ Negative(m)
    BY MessageTyped DEF Negative
  <2> HIDE DEF m
  <2> QED BY <2>1, SignalsAreMessages, OfOneKind
<1>3. SaysTo(p, m, H)
  BY DEF AnnounceDeparture, SaysTo, Others
<1> HIDE DEF m, H
<1>4. /\ SignalsTyped'
      /\ \A q \in Others(p) :
             net'[p][q] = IF q \in H THEN Append(net[p][q], m) ELSE net[p][q]
      /\ \A r \in Peers \ {p} : net'[r] = net[r]
  BY <1>1, <1>2, <1>3, SaidTo
<1>5. NoLockFrames
  <2>1. ASSUME NEW r \in Peers, NEW s \in Others(r)
        PROVE  \/ net'[s][r] = net[s][r]
               \/ \E k \in Messages : ~IsLockFrame(k) /\ net'[s][r] = Append(net[s][r], k)
    <3>1. s \in Peers /\ r \in Others(s)
      BY DEF Others
    <3> QED BY <1>2, <1>4, <3>1
  <2> QED BY <2>1 DEF NoLockFrames
<1>6. ASSUME NEW r \in Peers, NEW s \in Others(r) PROVE Rostered(r, s)'
  <2>1. Rostered(r, s) /\ s \in Peers /\ s # r /\ r \in Others(s) /\ net[r][s] \in Seq(Messages)
           /\ net[s][r] \in Seq(Messages) /\ (Present(r, s)' <=> Present(r, s))
           /\ Present(r, s) \in BOOLEAN
    BY <1>1, UnderWay DEF PairsInv, Present
  <2>2. CASE r = p
    <3>1. net'[s][r] = net[s][r]
      BY <1>4, <2>1, <2>2
    <3>2. Asks(net[r][s]) => Asks(net'[r][s])
      <4>1. Asks(net[r][s]) => Asks(Append(net[r][s], m))
        <5>1. Asks(Append(net[r][s], m)) <=> (Asks(net[r][s]) \/ m.type = "hello")
          BY <1>2, <2>1, StaysAppend
        <5> QED BY <5>1
      <4> QED BY <1>4, <2>1, <2>2, <4>1
    <3>3. Stays(net'[s][r], Present(r, s)') <=> Stays(net[s][r], Present(r, s))
      <4>1. Present(r, s)' = Present(r, s)
        BY <1>1 DEF Present
      <4> QED BY <3>1, <4>1
    <3>4. RosterSame(r, s)
      BY <1>1, <2>1, <2>2, <3>1, <3>2, <3>3 DEF RosterSame
    <3> QED BY <2>1, <3>4, RosteredKept
  <2>3. CASE s = p
    <3>1. link[r] # "up" => net'[s][r] = net[s][r]
      BY <1>4, <2>1, <2>3 DEF H
    <3>2. link[r] = "up" => ~Stays(net[s][r], Present(r, s))'
      <4>1. ASSUME link[r] = "up" PROVE net'[s][r] = Append(net[s][r], m)
        BY <1>4, <2>1, <2>3, <4>1 DEF H
      <4>2. ~Stays(Append(net[s][r], m), Present(r, s))
        BY <1>2, <2>1, StaysAppend
      <4>3. Stays(net[s][r], Present(r, s))' <=> Stays(net'[s][r], Present(r, s))
        BY <2>1 DEF Stays, Positive, Negative
      <4> QED BY <4>1, <4>2, <4>3
    <3> QED BY <1>1, <2>1, <2>3, <3>1, <3>2 DEF Rostered
  <2>4. CASE r # p /\ s # p
    <3>1. net'[s][r] = net[s][r] /\ net'[r][s] = net[r][s]
      BY <1>4, <2>1, <2>4
    <3> QED BY <1>1, <2>1, <2>4, <3>1, UntouchedRoster
  <2> QED BY <2>2, <2>3, <2>4
<1>7. \A r \in Peers : \A s \in Others(r) : Informed(r, s)'
  BY <1>1, <1>5, AllInformed DEF PairsInv
<1>8. \A r \in Peers : \A s \in Others(r) : Forgotten(r, s)'
  BY <1>1, ForgottenKept
<1>9. EngineTyped' /\ \A r \in Peers : Told(r)'
  BY <1>1, EngineSame DEF PairsInv
<1> QED BY <1>1, <1>4, <1>6, <1>7, <1>8, <1>9 DEF PairsInv, OwnKept

-----------------------------------------------------------------------------
\* Time.

(* No claim ends before the timer is due. *)
LEMMA SoonestIsFirst ==
  ASSUME NEW mine \in [Peers -> ClaimType]
  PROVE  /\ Soonest(mine) \in Nat
         /\ \A q \in Peers : mine[q].until # None =>
                Soonest(mine) # None /\ Soonest(mine) <= mine[q].until
<1> DEFINE dues == {mine[q].until : q \in Peers} \ {None}
<1>1. dues \subseteq Nat \ {None}
  BY DEF ClaimType
<1>2. Soonest(mine) = IF dues = {} THEN None ELSE CHOOSE t \in dues : \A u \in dues : t <= u
  BY DEF Soonest
<1>3. \A q \in Peers : mine[q].until # None => mine[q].until \in dues
  OBVIOUS
<1> HIDE DEF dues
<1>4. CASE dues = {}
  BY <1>2, <1>3, <1>4 DEF None
<1>5. CASE dues # {}
  <2>1. \E t \in dues : \A u \in dues : t <= u
    BY <1>1, <1>5, Least
  <2>2. Soonest(mine) \in dues /\ \A u \in dues : Soonest(mine) <= u
    BY <1>2, <1>5, <2>1
  <2> QED BY <1>1, <1>3, <2>2
<1> QED BY <1>4, <1>5

(* A tick is no news about any claim, except for those that have ended. *)
LEMMA ArrivesLater ==
  ASSUME NEW s, NEW known \in ClaimType, NEW own \in ClaimType, NEW now \in Nat,
         \A i \in 1..Len(s) : s[i].claim \in ClaimType,
         Arrives(s, known, own, now)
  PROVE  Arrives(s, known, own, now + 1)
<1>1. \A one, other \in ClaimType : AlikeAt(one, other, now) => AlikeAt(one, other, now + 1)
  BY DEF AlikeAt, ActiveAt, ClaimType
<1> QED BY <1>1 DEF Arrives

(* A tick is not taken while a signal is at its limit. *)
LEMMA SignalsLater ==
  ASSUME Typed, Tick
  PROVE  SignalsTyped'
<1>1. clock \in Nat /\ clock' = clock + 1 /\ net' = net
  BY DEF Tick, Typed
<1>2. ASSUME NEW p \in Peers, NEW q \in Others(p) PROVE net[p][q] \in Seq(Signals(clock'))
  <2> DEFINE s == net[p][q]
  <2>1. s \in Seq(Signals(clock))
    BY DEF Typed
  <2> HIDE DEF s
  <2>2. Len(s) \in Nat /\ DOMAIN s = 1..Len(s) /\ s \in [1..Len(s) -> Signals(clock)]
    BY <2>1, LenProperties
  <2>3. ASSUME NEW i \in 1..Len(s) PROVE s[i] \in Signals(clock')
    <3>1. s[i] \in Signals(clock) /\ clock < s[i].sentAt + MaxDelay
      BY <2>2 DEF Tick, s
    <3>2. s[i].sentAt \in Nat /\ MaxDelay \in Nat
      BY <3>1, TicksPositive DEF Signals, Messages
    <3> QED BY <1>1, <3>1, <3>2 DEF Signals, OnTheWay
  <2>4. s \in [1..Len(s) -> Signals(clock')]
    BY <2>2, <2>3
  <2>5. s \in Seq(Signals(clock'))
    BY <2>2, <2>4, SeqDef
  <2> QED BY <2>5 DEF s
<1> QED BY <1>1, <1>2 DEF SignalsTyped, Typed

(* While time passes everybody stays informed, and subscribers stay right until the
   timer is due. *)
LEMMA TickKeepsPairs ==
  ASSUME Typed, PairsInv, Tick
  PROVE  SignalsTyped' /\ PairsInv'
<1>1. /\ clock \in Nat /\ clock' = clock + 1 /\ net' = net /\ link' = link /\ departed' = departed
      /\ registry' = registry /\ claims' = claims /\ notified' = notified /\ expiry' = expiry
      /\ disturbed' = disturbed /\ cleared' = cleared /\ misled' = misled
  BY DEF Tick, room, engine, history, Typed
<1>2. EngineTyped'
  BY <1>1 DEF PairsInv, EngineTyped, Soonest
<1>3. ASSUME NEW r \in Peers PROVE Told(r)'
  <2> DEFINE mine == claims[r]
  <2>1. mine \in [Peers -> ClaimType] /\ expiry[r] = Soonest(mine) /\ Told(r)
    BY DEF PairsInv, EngineTyped
  <2> HIDE DEF mine
  <2>2. Soonest(mine) \in Nat
    BY <2>1, SoonestIsFirst
  <2>3. CASE expiry[r] # None /\ clock' >= expiry[r]
    BY <1>1, <2>3 DEF Told
  <2>4. CASE ~(expiry[r] # None /\ clock' >= expiry[r])
    <3>1. ASSUME NEW q \in Peers PROVE ActiveAt(mine[q], clock) <=> ActiveAt(mine[q], clock')
      <4>1. mine[q].until \in Nat /\ (mine[q].until # None => expiry[r] # None /\ expiry[r] <= mine[q].until)
        BY <2>1, SoonestIsFirst DEF ClaimType
      <4>2. mine[q].until = None \/ mine[q].until > clock'
        BY <1>1, <2>1, <2>2, <2>4, <4>1
      <4> QED BY <1>1, <4>1, <4>2 DEF ActiveAt
    <3>2. ResolveAt(mine, clock) = ResolveAt(mine, clock')
      <4>1. ClaimantsAt(mine, clock) = ClaimantsAt(mine, clock')
        BY <3>1 DEF ClaimantsAt
      <4>2. \A q \in Peers : WinsAt(mine, clock, q) <=> WinsAt(mine, clock', q)
        BY <4>1 DEF WinsAt
      <4>3. WinnerAt(mine, clock) = WinnerAt(mine, clock')
        BY <4>2 DEF WinnerAt
      <4> QED BY <4>1, <4>3 DEF ResolveAt
    <3>3. notified[r] = ResolveAt(mine, clock)
      <4>1. notified[r] = Resolve(claims[r])
        BY <1>1, <2>1, <2>2, <2>4 DEF Told
      <4> QED BY <4>1, AtClock DEF mine
    <3>4. Resolve(claims[r])' = ResolveAt(claims'[r], clock')
      BY DEF Resolve, ResolveAt, WinnerAt, Wins, WinsAt, Claimants, ClaimantsAt, Active, ActiveAt
    <3> QED BY <1>1, <3>2, <3>3, <3>4 DEF Told, mine
  <2> QED BY <2>3, <2>4
<1>4. ASSUME NEW r \in Peers, NEW s \in Others(r) PROVE Informed(r, s)' /\ Rostered(r, s)' /\ Forgotten(r, s)'
  <2>1. Informed(r, s) /\ Rostered(r, s) /\ Forgotten(r, s) /\ s \in Peers
    BY DEF PairsInv, Others
  <2>2. Informed(r, s)'
    <3>1. SUFFICES ASSUME ~disturbed
                   PROVE  Arrives(net[s][r], claims[r][s], claims[s][s], clock + 1)
      <4>1. Informed(r, s)' <=>
                (~disturbed' => Arrives(net'[s][r], claims'[r][s], claims'[s][s], clock'))
        BY DEF Informed
      <4> QED BY <1>1, <4>1
    <3>2. claims[r][s] \in ClaimType /\ claims[s][s] \in ClaimType
      BY <2>1 DEF PairsInv, EngineTyped
    <3>3. \A i \in 1..Len(net[s][r]) : net[s][r][i].claim \in ClaimType
      <4>1. net[s][r] \in Seq(Messages)
        BY UnderWay
      <4>2. \A i \in 1..Len(net[s][r]) : net[s][r][i] \in Messages
        BY <4>1, ElementOfSeq
      <4> QED BY <4>2 DEF Messages
    <3> QED BY <1>1, <2>1, <3>1, <3>2, <3>3, ArrivesLater DEF Informed
  <2>3. Rostered(r, s)'
    BY <1>1, <2>1, UntouchedRoster
  <2> QED BY <1>1, <2>1, <2>2, <2>3 DEF Forgotten
<1>5. SignalsTyped'
  BY SignalsLater
<1> QED BY <1>2, <1>3, <1>4, <1>5 DEF PairsInv

-----------------------------------------------------------------------------
\* Calls of acquire.

CallTyped ==
    /\ call \in [Calls ->
           [pc : {"new", "settling", "waiting", "true", "false"}, due : Nat, deadline : Nat]]
    /\ granted \in [Peers -> BOOLEAN]

CallsInv ==
    /\ CallTyped
    /\ \A c \in Calls : Punctual(c)
    /\ \A p \in Peers : Placed(p) /\ Earned(p)

(* Calls that are not concerned go on as they did. *)
LEMMA CallsKept ==
  ASSUME CallsInv, EngineTyped, clock' = clock, call' = call, granted' = granted, OwnKept
  PROVE  CallsInv'
<1>1. CallTyped'
  BY DEF CallsInv, CallTyped
<1>2. ASSUME NEW c \in Calls PROVE Punctual(c)'
  <2>1. Punctual(c)
    BY DEF CallsInv
  <2> QED BY <2>1 DEF Punctual, InProgress
<1>3. \A p \in Peers : Settling(p)' = Settling(p)
  BY DEF Settling
<1>4. ASSUME NEW p \in Peers PROVE Placed(p)' /\ Earned(p)'
  <2>1. Placed(p) /\ Earned(p) /\ claims'[p][p] \in {claims[p][p], NoClaim}
    BY DEF CallsInv, OwnKept
  <2> QED BY <1>3, <2>1 DEF Placed, Earned
<1> QED BY <1>1, <1>2, <1>4 DEF CallsInv

(* Nor do they notice the time, until they are due. *)
LEMMA TickKeepsCalls ==
  ASSUME Typed, EngineTyped, CallsInv, Tick
  PROVE  CallsInv'
<1>1. clock \in Nat /\ clock' = clock + 1 /\ call' = call /\ granted' = granted /\ claims' = claims
  BY DEF Tick, Typed, engine, history
<1>2. CallTyped'
  BY <1>1 DEF CallsInv, CallTyped
<1>3. ASSUME NEW c \in Calls PROVE Punctual(c)'
  <2>1. Punctual(c) /\ call[c].due \in Nat
    BY DEF CallsInv, CallTyped
  <2>2. InProgress(c) => clock < call[c].due
    BY DEF Tick, Dues
  <2> QED BY <1>1, <2>1, <2>2 DEF Punctual, InProgress
<1>4. \A p \in Peers : Settling(p)' = Settling(p)
  BY <1>1 DEF Settling
<1>5. ASSUME NEW p \in Peers PROVE Placed(p)' /\ Earned(p)'
  <2>1. Placed(p) /\ Earned(p) /\ claims[p][p].at \in Nat /\ SettleTicks \in Nat
    BY TicksPositive DEF CallsInv, EngineTyped, ClaimType
  <2> QED BY <1>1, <1>4, <2>1 DEF Placed, Earned
<1> QED BY <1>2, <1>3, <1>5 DEF CallsInv

CallRecords ==
    [pc : {"new", "settling", "waiting", "true", "false"}, due : Nat, deadline : Nat]

\* What is asked of a call that goes on, at a time.
PunctualAt(record, now) ==
    record.pc \in {"settling", "waiting"} =>
        /\ now <= record.due
        /\ record.deadline # None => record.due < record.deadline + SettleTicks

\* Only c moves, and only its peer learns anything.
MovesCall(c, record) ==
    /\ call' = [call EXCEPT ![c] = record]
    /\ clock' = clock
    /\ \A r \in Peers \ {Caller[c]} : claims'[r] = claims[r]

(* A call that moves, whose peer is not granted anything unless the call succeeded. *)
LEMMA CallMoves ==
  ASSUME Typed, EngineTyped, CallsInv, NEW c \in Calls, NEW record \in CallRecords,
         call[c].pc # "true", MovesCall(c, record), PunctualAt(record, clock),
         granted' = granted \/ (granted' = [granted EXCEPT ![Caller[c]] = TRUE] /\ record.pc = "true"),
         Placed(Caller[c])'
  PROVE  CallsInv'
<1>1. /\ call \in [Calls -> CallRecords] /\ granted \in [Peers -> BOOLEAN] /\ Caller[c] \in Peers
      /\ clock' = clock
  BY CallsOfPeers DEF CallsInv, CallTyped, CallRecords, MovesCall
<1>2. /\ call' \in [Calls -> CallRecords] /\ call'[c] = record
      /\ \A d \in Calls \ {c} : call'[d] = call[d]
  BY <1>1 DEF MovesCall
<1>3. CallTyped'
  BY <1>1, <1>2 DEF CallTyped, CallRecords
<1>4. ASSUME NEW d \in Calls PROVE Punctual(d)'
  <2>1. CASE d = c
    BY <1>1, <1>2, <2>1 DEF Punctual, InProgress, PunctualAt
  <2>2. CASE d # c
    <3>1. Punctual(d)
      BY DEF CallsInv
    <3> QED BY <1>1, <1>2, <2>2, <3>1 DEF Punctual, InProgress
  <2> QED BY <2>1, <2>2
<1>5. ASSUME NEW r \in Peers PROVE Placed(r)'
  <2>1. CASE r = Caller[c]
    BY <2>1
  <2>2. CASE r # Caller[c]
    <3>1. Placed(r) /\ claims'[r] = claims[r] /\ granted'[r] = granted[r]
      BY <1>1, <2>2 DEF CallsInv, MovesCall
    <3>2. Settling(r)' = Settling(r) /\ \A d \in Settling(r) : call'[d] = call[d]
      BY <1>2, <2>2 DEF Settling
    <3> QED BY <1>1, <3>1, <3>2 DEF Placed
  <2> QED BY <2>1, <2>2
<1>6. ASSUME NEW r \in Peers PROVE Earned(r)'
  <2>1. Earned(r)
    BY DEF CallsInv
  <2>2. CASE granted'[r] = granted[r]
    BY <1>2, <2>1, <2>2 DEF Earned
  <2>3. CASE granted'[r] # granted[r]
    <3>1. r = Caller[c] /\ record.pc = "true"
      BY <1>1, <2>3
    <3> QED BY <1>2, <3>1 DEF Earned
  <2> QED BY <2>2, <2>3
<1> QED BY <1>3, <1>4, <1>5, <1>6 DEF CallsInv

(* An attempt that places a claim is due when the claim is settled. *)
LEMMA AttemptKeepsCalls ==
  ASSUME Typed, EngineTyped, CallsInv, NEW c \in Calls, NEW record \in CallRecords,
         call[c].pc # "true", call' = [call EXCEPT ![c] = record], clock' = clock,
         PunctualAt(record, clock), record.pc = "settling", record.due = clock + SettleTicks,
         granted' = granted, NEW claim \in ClaimType, claim.at = clock,
         Learns(Caller[c], Caller[c], claim)
  PROVE  CallsInv'
<1>1. Caller[c] \in Peers /\ call'[c] = record
  BY CallsOfPeers DEF CallsInv, CallTyped
<1>2. MovesCall(c, record) /\ claims'[Caller[c]][Caller[c]] \in {claim, NoClaim}
  BY <1>1 DEF MovesCall, Learns
<1>3. c \in Settling(Caller[c])'
  BY <1>1 DEF Settling
<1>4. Placed(Caller[c])'
  BY <1>1, <1>2, <1>3 DEF Placed
<1> QED BY <1>2, <1>4, CallMoves

-----------------------------------------------------------------------------
\* The steps of acquire, release and the timer.

\* What such a step keeps.
EngineKept == SignalsTyped' /\ PairsInv' /\ CallsInv' /\ disturbed' \in BOOLEAN

(* The types of the records of calls. *)
LEMMA CallOf ==
  ASSUME CallsInv, NEW c \in Calls
  PROVE  /\ call[c] \in CallRecords /\ Caller[c] \in Peers
         /\ call[c].due \in Nat /\ call[c].deadline \in Nat
         /\ Ttl[c] \in Nat /\ Timeout[c] \in Nat
         /\ InProgress(c) => PunctualAt(call[c], clock)
<1>1. Punctual(c) /\ call[c] \in CallRecords
  BY DEF CallsInv, CallTyped, CallRecords
<1> QED BY <1>1, CallsOfPeers DEF CallRecords, Punctual, InProgress, PunctualAt

GoesOn(record, pc, due) == [record EXCEPT !.pc = pc, !.due = due]

(* A call that goes on at another time. *)
LEMMA CallGoesOn ==
  ASSUME NEW record \in CallRecords, NEW pc \in {"settling", "waiting"}, NEW due \in Nat
  PROVE  GoesOn(record, pc, due) = [pc |-> pc, due |-> due, deadline |-> record.deadline]
<1> DEFINE first == [record EXCEPT !.pc = pc]
           then == [first EXCEPT !.due = due]
<1>1. first \in CallRecords /\ first.pc = pc /\ first.deadline = record.deadline
  BY DEF CallRecords
<1>2. GoesOn(record, pc, due) = then
  BY DEF GoesOn
<1> HIDE DEF first
<1>3. then \in CallRecords /\ then.pc = pc /\ then.due = due /\ then.deadline = record.deadline
  BY <1>1 DEF CallRecords
<1> HIDE DEF then
<1>4. then = [pc |-> then.pc, due |-> then.due, deadline |-> then.deadline]
  BY <1>3 DEF CallRecords
<1> QED BY <1>2, <1>3, <1>4

(* acquire. *)
LEMMA AcquireKeeps ==
  ASSUME Typed, PairsInv, CallsInv, NEW c \in Calls, Acquire(c)
  PROVE  EngineKept
<1> DEFINE p == Caller[c]
           record == [pc |-> "settling", due |-> clock + SettleTicks,
                      deadline |-> IF Timeout[c] = None THEN None ELSE clock + Timeout[c]]
<1>1. /\ PlaceClaim(p, Ttl[c]) /\ call' = [call EXCEPT ![c] = record] /\ call[c].pc = "new"
      /\ clock' = clock /\ granted' = granted /\ UNCHANGED <<clock, room, cleared, misled>>
  BY DEF Acquire
<1>2. clock \in Nat /\ SettleTicks \in Nat /\ Timeout[c] \in Nat /\ Ttl[c] \in Nat /\ p \in Peers
  BY CallOf, TicksPositive DEF Typed
<1>3. record \in CallRecords /\ PunctualAt(record, clock) /\ record.pc = "settling"
         /\ record.due = clock + SettleTicks
  BY <1>2 DEF CallRecords, PunctualAt, None
<1> HIDE DEF p, record
<1>4. EngineTyped /\ \A r \in Peers : Told(r)
  BY DEF PairsInv
<1>5. PICK claim \in ClaimType : claim.at = clock /\ ClaimsSo(p, claim)
  BY <1>1, <1>2, <1>4, PlaceClaims
<1>6. SignalsTyped' /\ PairsInv' /\ disturbed' \in BOOLEAN
  BY <1>1, <1>2, <1>5, ClaimsKeepPairs
<1>7. Learns(p, p, claim)
  BY <1>5 DEF ClaimsSo
<1>8. CallsInv'
  <2>1. call[c].pc # "true"
    BY <1>1
  <2> QED BY <1>1, <1>3, <1>4, <1>5, <1>7, <2>1, AttemptKeepsCalls DEF p
<1> QED BY <1>6, <1>8 DEF EngineKept

(* The delay before the next attempt ends with an attempt, or with the answer. *)
LEMMA RetryKeeps ==
  ASSUME Typed, PairsInv, CallsInv, NEW c \in Calls, Retry(c)
  PROVE  EngineKept
<1> DEFINE p == Caller[c]
<1>1. /\ call[c].pc = "waiting" /\ clock' = clock /\ granted' = granted
      /\ UNCHANGED <<clock, room, cleared, misled>>
  BY DEF Retry
<1>2. clock \in Nat /\ SettleTicks \in Nat /\ Ttl[c] \in Nat /\ p \in Peers /\ call[c] \in CallRecords
         /\ call[c].deadline \in Nat
  BY CallOf, TicksPositive DEF Typed
<1>3. EngineTyped /\ (\A r \in Peers : Told(r)) /\ call[c].pc # "true"
  BY <1>1 DEF PairsInv
<1>4. CASE clock >= call[c].deadline
  <2> DEFINE record == [NewCall EXCEPT !.pc = "false"]
  <2>1. call' = [call EXCEPT ![c] = record] /\ UNCHANGED <<engine, net, disturbed>>
    BY <1>4 DEF Retry
  <2>2. record \in CallRecords /\ PunctualAt(record, clock)
    BY DEF CallRecords, NewCall, None, PunctualAt
  <2> HIDE DEF p, record
  <2>3. ClaimsSo(p, claims[p][p])
    BY <1>1, <1>2, <1>3, <2>1, NothingClaimed
  <2>4. SignalsTyped' /\ PairsInv' /\ disturbed' \in BOOLEAN
    BY <1>1, <1>2, <2>3, ClaimsKeepPairs
  <2>5. claims' = claims
    BY <2>1 DEF engine
  <2>6. MovesCall(c, record)
    BY <1>1, <2>1, <2>5 DEF MovesCall
  <2>7. Placed(Caller[c])'
    <3>1. Placed(p) /\ call \in [Calls -> CallRecords]
      BY <1>2 DEF CallsInv, CallTyped, CallRecords
    <3>2. \A d \in Settling(p) : d # c /\ d \in Calls /\ call'[d] = call[d]
      BY <1>1, <2>1, <3>1 DEF Settling
    <3>3. \A d \in Settling(p) : d \in Settling(p)'
      BY <3>2 DEF Settling
    <3>4. Placed(p)'
      BY <1>1, <2>5, <3>1, <3>2, <3>3 DEF Placed
    <3> QED BY <3>4 DEF p
  <2>8. CallsInv'
    BY <1>1, <1>3, <2>2, <2>6, <2>7, CallMoves
  <2> QED BY <2>4, <2>8 DEF EngineKept
<1>5. CASE ~(clock >= call[c].deadline)
  <2> DEFINE record == [pc |-> "settling", due |-> clock + SettleTicks,
                        deadline |-> call[c].deadline]
  <2>1. PlaceClaim(p, Ttl[c])
    BY <1>5 DEF Retry
  <2>2. call' = [call EXCEPT ![c] = record]
    <3>1. call' = [call EXCEPT ![c].pc = "settling", ![c].due = clock + SettleTicks]
      BY <1>5 DEF Retry
    <3>2. call \in [Calls -> CallRecords]
      BY DEF CallsInv, CallTyped, CallRecords
    <3>3. call' = [call EXCEPT ![c] = GoesOn(call[c], "settling", clock + SettleTicks)]
      BY <3>1, <3>2 DEF GoesOn
    <3>4. GoesOn(call[c], "settling", clock + SettleTicks) = record
      BY <1>2, CallGoesOn
    <3> QED BY <3>3, <3>4
  <2>3. record \in CallRecords /\ record.pc = "settling" /\ record.due = clock + SettleTicks
           /\ record.deadline = call[c].deadline
    BY <1>2 DEF CallRecords
  <2>4. PunctualAt(record, clock)
    BY <1>2, <1>5, <2>3 DEF PunctualAt
  <2> HIDE DEF p, record
  <2>5. PICK claim \in ClaimType : claim.at = clock /\ ClaimsSo(p, claim)
    BY <1>1, <1>2, <1>3, <2>1, PlaceClaims
  <2>6. SignalsTyped' /\ PairsInv' /\ disturbed' \in BOOLEAN
    BY <1>1, <1>2, <2>5, ClaimsKeepPairs
  <2>7. Learns(p, p, claim)
    BY <2>5 DEF ClaimsSo
  <2>8. CallsInv'
    BY <1>1, <1>3, <2>2, <2>3, <2>4, <2>5, <2>7, AttemptKeepsCalls DEF p
  <2> QED BY <2>6, <2>8 DEF EngineKept
<1> QED BY <1>4, <1>5

(* The settle window ends with the key, or without the claim. *)
LEMMA SettledKeeps ==
  ASSUME Typed, PairsInv, CallsInv, NEW c \in Calls, Settled(c)
  PROVE  EngineKept
<1> DEFINE p == Caller[c]
<1>1. /\ call[c].pc = "settling" /\ clock' = clock /\ clock >= call[c].due
      /\ UNCHANGED <<clock, room, cleared, misled>>
  BY DEF Settled
<1>2. /\ clock \in Nat /\ SettleTicks \in Nat /\ RetryTicks \in Nat /\ p \in Peers
      /\ call[c] \in CallRecords /\ call[c].deadline \in Nat /\ call[c].due \in Nat
  BY CallOf, TicksPositive DEF Typed
<1>3. EngineTyped /\ (\A r \in Peers : Told(r)) /\ call[c].pc # "true"
  BY <1>1 DEF PairsInv
<1>4. CASE Refused(c)
  <2> DEFINE record == IF Timeout[c] = None \/ clock >= call[c].deadline
                       THEN [NewCall EXCEPT !.pc = "false"]
                       ELSE [pc |-> "waiting", due |-> clock + RetryTicks,
                             deadline |-> call[c].deadline]
  <2>1. call' = [call EXCEPT ![c] = record] /\ RemoveClaim(p) /\ granted' = granted
    <3>1. call' = [call EXCEPT ![c] =
              IF Timeout[c] = None \/ clock >= call[c].deadline
              THEN [NewCall EXCEPT !.pc = "false"]
              ELSE GoesOn(call[c], "waiting", clock + RetryTicks)]
      BY <1>4 DEF Refused, TryAgain, GoesOn
    <3>2. GoesOn(call[c], "waiting", clock + RetryTicks) =
              [pc |-> "waiting", due |-> clock + RetryTicks, deadline |-> call[c].deadline]
      BY <1>2, CallGoesOn
    <3> QED BY <1>4, <3>1, <3>2 DEF Refused
  <2>2. record \in CallRecords /\ PunctualAt(record, clock)
    <3>1. CASE Timeout[c] = None \/ clock >= call[c].deadline
      <4>1. record = [pc |-> "false", due |-> None, deadline |-> None]
        BY <3>1 DEF NewCall
      <4> HIDE DEF record
      <4> QED BY <4>1 DEF CallRecords, None, PunctualAt
    <3>2. CASE ~(Timeout[c] = None \/ clock >= call[c].deadline)
      <4>1. record = [pc |-> "waiting", due |-> clock + RetryTicks,
                      deadline |-> call[c].deadline]
        BY <3>2
      <4> HIDE DEF record
      <4>2. record \in CallRecords /\ record.deadline = call[c].deadline
               /\ record.due = clock + RetryTicks
        BY <1>2, <4>1 DEF CallRecords
      <4> QED BY <1>2, <3>2, <4>2, RetriesAreQuick DEF PunctualAt
    <3> QED BY <3>1, <3>2
  <2> HIDE DEF p, record
  <2>3. ClaimsSo(p, NoClaim)
    BY <1>1, <1>2, <1>3, <2>1, RemoveClaims
  <2>4. SignalsTyped' /\ PairsInv' /\ disturbed' \in BOOLEAN
    BY <1>1, <1>2, <2>3, ClaimsKeepPairs
  <2>5. claims'[p][p] = NoClaim /\ \A r \in Peers \ {p} : claims'[r] = claims[r]
    BY <1>2, <2>3 DEF ClaimsSo, Learns
  <2>6. MovesCall(c, record)
    BY <1>1, <2>1, <2>5 DEF MovesCall, p
  <2>7. Placed(Caller[c])'
    BY <2>5 DEF Placed, p
  <2>8. CallsInv'
    BY <1>1, <1>3, <2>1, <2>2, <2>6, <2>7, CallMoves
  <2> QED BY <2>4, <2>8 DEF EngineKept
<1>5. CASE Granted(c)
  <2> DEFINE record == [NewCall EXCEPT !.pc = "true"]
  <2>1. /\ call' = [call EXCEPT ![c] = record] /\ UNCHANGED <<engine, net, disturbed>>
        /\ granted' = [granted EXCEPT ![p] = TRUE]
    BY <1>5 DEF Granted
  <2>2. record \in CallRecords /\ PunctualAt(record, clock) /\ record.pc = "true"
    BY DEF CallRecords, NewCall, None, PunctualAt
  <2> HIDE DEF p, record
  <2>3. ClaimsSo(p, claims[p][p])
    BY <1>1, <1>2, <1>3, <2>1, NothingClaimed
  <2>4. SignalsTyped' /\ PairsInv' /\ disturbed' \in BOOLEAN
    BY <1>1, <1>2, <2>3, ClaimsKeepPairs
  <2>5. claims' = claims
    BY <2>1 DEF engine
  <2>6. MovesCall(c, record)
    BY <1>1, <2>1, <2>5 DEF MovesCall
  <2>7. Placed(Caller[c])'
    <3>1. Placed(p) /\ call \in [Calls -> CallRecords] /\ granted \in [Peers -> BOOLEAN]
             /\ claims[p][p].at \in Nat
      BY <1>2 DEF CallsInv, CallTyped, CallRecords, PairsInv, EngineTyped, ClaimType
    <3>2. granted'[p]
      BY <1>2, <2>1, <3>1
    <3>3. \A d \in Settling(p) \ {c} : d \in Calls /\ call'[d] = call[d] /\ d \in Settling(p)'
      BY <1>1, <2>1, <3>1 DEF Settling
    <3>4. call[c].due <= clock
      BY <1>1, <1>2
    <3>5. ASSUME claims[p][p] # NoClaim, ~(claims[p][p].at + SettleTicks <= clock)
          PROVE  \E d \in Settling(p)' : call'[d].due = claims[p][p].at + SettleTicks
      <4>1. PICK d \in Settling(p) : call[d].due = claims[p][p].at + SettleTicks
        BY <3>1, <3>5 DEF Placed
      <4>2. d # c
        BY <3>4, <3>5, <4>1
      <4> QED BY <3>3, <4>1, <4>2
    <3>6. Placed(p)'
      BY <1>1, <2>5, <3>2, <3>5 DEF Placed
    <3> QED BY <3>6 DEF p
  <2>8. CallsInv'
    BY <1>1, <1>3, <2>1, <2>2, <2>6, <2>7, CallMoves DEF p
  <2> QED BY <2>4, <2>8 DEF EngineKept
<1> QED BY <1>4, <1>5 DEF Settled

(* release. *)
LEMMA ReleaseKeeps ==
  ASSUME Typed, PairsInv, CallsInv, NEW p \in Peers, Release(p)
  PROVE  EngineKept
<1>1. /\ RemoveClaim(p) /\ granted' = [granted EXCEPT ![p] = FALSE] /\ call' = call
      /\ clock' = clock /\ UNCHANGED <<clock, room, cleared, misled>>
  BY DEF Release
<1>2. EngineTyped /\ \A r \in Peers : Told(r)
  BY DEF PairsInv
<1>3. ClaimsSo(p, NoClaim)
  BY <1>1, <1>2, RemoveClaims
<1>4. SignalsTyped' /\ PairsInv' /\ disturbed' \in BOOLEAN
  BY <1>1, <1>3, ClaimsKeepPairs
<1>5. claims'[p][p] = NoClaim /\ \A r \in Peers \ {p} : claims'[r] = claims[r]
  BY <1>3 DEF ClaimsSo, Learns
<1>6. granted \in [Peers -> BOOLEAN] /\ CallTyped /\ \A r \in Peers : Settling(r)' = Settling(r)
  BY <1>1 DEF CallsInv, CallTyped, Settling
<1>7. CallTyped'
  BY <1>1, <1>6 DEF CallTyped
<1>8. ASSUME NEW d \in Calls PROVE Punctual(d)'
  <2>1. Punctual(d)
    BY DEF CallsInv
  <2> QED BY <1>1, <2>1 DEF Punctual, InProgress
<1>9. ASSUME NEW r \in Peers PROVE Placed(r)' /\ Earned(r)'
  <2>1. Placed(r) /\ Earned(r)
    BY DEF CallsInv
  <2>2. CASE r = p
    BY <1>1, <1>5, <1>6, <2>2 DEF Placed, Earned
  <2>3. CASE r # p
    <3>1. claims'[r] = claims[r] /\ granted'[r] = granted[r]
      BY <1>1, <1>5, <1>6, <2>3
    <3> QED BY <1>1, <1>6, <2>1, <3>1 DEF Placed, Earned
  <2> QED BY <2>2, <2>3
<1> QED BY <1>4, <1>7, <1>8, <1>9 DEF CallsInv, EngineKept

(* scheduleExpiry. *)
LEMMA ExpiryKeeps ==
  ASSUME Typed, PairsInv, CallsInv, NEW p \in Peers, ClaimExpires(p)
  PROVE  EngineKept
<1>1. /\ Reconcile(p, claims[p]) /\ call' = call /\ granted' = granted
      /\ clock' = clock /\ UNCHANGED <<clock, room, cleared, misled>> /\ UNCHANGED <<net, disturbed>>
  BY DEF ClaimExpires, history
<1>2. EngineTyped /\ \A r \in Peers : Told(r)
  BY DEF PairsInv
<1>3. Learns(p, p, claims[p][p])
  BY <1>1, <1>2, ExpiryLearns
<1>4. ClaimsSo(p, claims[p][p])
  BY <1>1, <1>3 DEF ClaimsSo
<1>5. SignalsTyped' /\ PairsInv' /\ disturbed' \in BOOLEAN
  BY <1>1, <1>4, ClaimsKeepPairs
<1>6. OwnKept
  BY <1>3 DEF Learns, OwnKept
<1>7. CallsInv'
  BY <1>1, <1>2, <1>6, CallsKept
<1> QED BY <1>5, <1>7 DEF EngineKept

-----------------------------------------------------------------------------
\* The invariant holds.

WorldTyped ==
    /\ clock \in Nat \ {0}
    /\ link \in [Peers -> {"up", "dead", "off"}]
    /\ departed \subseteq Peers
    /\ misled \subseteq Peers
    /\ cleared \subseteq Peers
    /\ ends \in 0..MaxEnds /\ changes \in 0..MaxChanges

(* The parts of the invariant, as the lemmas about the steps give them. *)
LEMMA Parts ==
  /\ LocksInv <=> Typed /\ PairsInv /\ CallsInv
  /\ Typed <=> /\ WorldTyped /\ RegistryTyped /\ SignalsTyped /\ CallTyped
               /\ disturbed \in BOOLEAN
<1>1. LocksInv => Typed /\ PairsInv /\ CallsInv
  BY DEF LocksInv, PairsInv, CallsInv, Typed, CallTyped
<1>2. Typed /\ PairsInv /\ CallsInv => LocksInv
  BY DEF LocksInv, PairsInv, CallsInv
<1>3. Typed => /\ WorldTyped /\ RegistryTyped /\ SignalsTyped /\ CallTyped
               /\ disturbed \in BOOLEAN
  BY DEF Typed, WorldTyped, RegistryTyped, SignalsTyped, CallTyped
<1>4. WorldTyped /\ RegistryTyped /\ SignalsTyped /\ CallTyped /\ disturbed \in BOOLEAN
          => Typed
  BY DEF Typed, WorldTyped, RegistryTyped, SignalsTyped, CallTyped
<1> QED BY <1>1, <1>2, <1>3, <1>4

(* The parts after a step. *)
LEMMA Together ==
  ASSUME WorldTyped', RegistryTyped', SignalsTyped', PairsInv', CallsInv',
         disturbed' \in BOOLEAN
  PROVE  LocksInv'
<1>1. CallTyped'
  BY DEF CallsInv
<1>2. Typed'
  BY <1>1 DEF Typed, WorldTyped, RegistryTyped, SignalsTyped, CallTyped
<1> QED BY <1>2 DEF LocksInv, PairsInv, CallsInv

(* A free key, nothing on its way, everybody present. *)
LEMMA InitiallyInv == Init => LocksInv
<1> SUFFICES ASSUME Init PROVE LocksInv
  OBVIOUS
<1> DEFINE nothing == [q \in Peers |-> NoClaim]
<1>1. /\ claims = [p \in Peers |-> nothing] /\ notified = [p \in Peers |-> Free]
      /\ expiry = [p \in Peers |-> None] /\ clock = 1
  BY DEF Init
<1>2. nothing \in [Peers -> ClaimType] /\ \A q \in Peers : nothing[q] = NoClaim
  BY NoClaimTyped
<1> HIDE DEF nothing
<1>3. Soonest(nothing) = None
  BY <1>2 DEF Soonest, NoClaim
<1>4. Resolve(nothing) = Free /\ Free \in States
  BY <1>2 DEF Resolve, Claimants, Active, Free, States, None
<1>5. EngineTyped
  BY <1>1, <1>2, <1>3, <1>4 DEF EngineTyped
<1>6. \A p \in Peers : Told(p)
  BY <1>1, <1>4 DEF Told
<1>7. ASSUME NEW p \in Peers, NEW q \in Others(p)
      PROVE  Informed(p, q) /\ Rostered(p, q) /\ Forgotten(p, q)
  <2>1. q \in Peers /\ p \in Others(q)
    BY DEF Others
  <2>2. net[q][p] = <<>> /\ net[p][q] = <<>> /\ claims[p][q] = NoClaim /\ claims[q][q] = NoClaim
    BY <1>1, <1>2, <2>1 DEF Init
  <2>3. Present(p, q) = TRUE
    BY DEF Init, Present
  <2>4. link[p] = "up" /\ link[q] = "up"
    BY <2>1 DEF Init
  <2>5. Stays(<<>>, TRUE)
    BY NothingOnTheWay
  <2>6. Rostered(p, q)
    BY <2>2, <2>3, <2>4, <2>5 DEF Rostered
  <2>7. Arrives(<<>>, NoClaim, NoClaim, clock)
    BY NothingOnTheWay DEF AlikeAt
  <2> QED BY <2>2, <2>6, <2>7 DEF Informed, Forgotten
<1>8. PairsInv
  BY <1>5, <1>6, <1>7 DEF PairsInv
<1>9. CallsInv
  <2>1. call = [c \in Calls |-> NewCall] /\ granted = [p \in Peers |-> FALSE]
    BY DEF Init
  <2>2. CallTyped
    BY <2>1 DEF CallTyped, NewCall, None
  <2>3. ASSUME NEW c \in Calls PROVE Punctual(c)
    BY <2>1 DEF Punctual, InProgress, NewCall
  <2>4. ASSUME NEW p \in Peers PROVE Placed(p) /\ Earned(p)
    BY <1>1, <1>2, <2>1 DEF Placed, Earned
  <2> QED BY <2>2, <2>3, <2>4 DEF CallsInv
<1>10. WorldTyped /\ disturbed \in BOOLEAN
  <2>1. /\ clock = 1 /\ departed = {} /\ misled = {} /\ cleared = {}
        /\ link \in [Peers -> {"up", "dead", "off"}]
    BY DEF Init
  <2>2. ends \in 0..MaxEnds /\ changes \in 0..MaxChanges
    BY TicksPositive DEF Init
  <2>3. disturbed \in BOOLEAN
    BY DEF Init
  <2> QED BY <2>1, <2>2, <2>3 DEF WorldTyped
<1>11. RegistryTyped
  BY DEF Init, RegistryTyped, Entries
<1>12. SignalsTyped
  <2>1. <<>> \in Seq(Signals(clock))
    BY EmptySeq
  <2> QED BY <2>1 DEF Init, SignalsTyped
<1> QED BY <1>8, <1>9, <1>10, <1>11, <1>12, Parts DEF CallsInv

(* A step that leaves the world, but for the counters. *)
LEMMA WorldCounts ==
  ASSUME WorldTyped, UNCHANGED <<clock, room, cleared>>,
         misled' \subseteq misled,
         UNCHANGED counts \/ Change \/ End
  PROVE  WorldTyped'
BY TicksPositive DEF WorldTyped, room, counts, Change, End

(* A step of acquire. *)
LEMMA CallStepKeeps ==
  ASSUME LocksInv, NEW c \in Calls, Acquire(c) \/ Settled(c) \/ Retry(c)
  PROVE  LocksInv'
<1>1. Typed /\ PairsInv /\ CallsInv /\ WorldTyped /\ RegistryTyped
  BY Parts
<1>2. EngineKept
  BY <1>1, AcquireKeeps, SettledKeeps, RetryKeeps
<1>3. UNCHANGED <<clock, room, cleared, misled, counts>>
  BY DEF Acquire, Settled, Retry
<1>4. WorldTyped'
  BY <1>1, <1>3, WorldCounts
<1>5. RegistryTyped'
  BY <1>1, <1>3 DEF RegistryTyped, room
<1> QED BY <1>2, <1>4, <1>5, Together DEF EngineKept

(* release, and the timer. *)
LEMMA ReleaseStepKeeps ==
  ASSUME LocksInv, NEW p \in Peers, Release(p) \/ ClaimExpires(p)
  PROVE  LocksInv'
<1>1. Typed /\ PairsInv /\ CallsInv /\ WorldTyped /\ RegistryTyped
  BY Parts
<1>2. EngineKept
  BY <1>1, ReleaseKeeps, ExpiryKeeps
<1>3. UNCHANGED <<clock, room, cleared, misled>> /\ (UNCHANGED counts \/ Change)
  BY DEF Release, ClaimExpires, history
<1>4. WorldTyped'
  BY <1>1, <1>3, WorldCounts
<1>5. RegistryTyped'
  BY <1>1, <1>3 DEF RegistryTyped, room
<1> QED BY <1>2, <1>4, <1>5, Together DEF EngineKept

(* A signal that is handled, or a grace period that ends. *)
LEMMA ReceiveKeeps ==
  ASSUME LocksInv, NEW p \in Peers, NEW q \in Others(p),
         \/ HandleLockFrame(p, q) \/ HandlePresence(p, q) \/ HandleLeave(p, q)
         \/ HandlePeerLeft(p, q) \/ GraceEnds(p, q)
  PROVE  LocksInv'
<1>1. Typed /\ PairsInv /\ CallsInv /\ WorldTyped /\ RegistryTyped /\ disturbed \in BOOLEAN
         /\ EngineTyped
  BY Parts DEF PairsInv
<1>2. UNCHANGED <<clock, link, departed, call, granted, counts, cleared, misled>>
  BY DEF HandleLockFrame, HandlePresence, HandleLeave, HandlePeerLeft, GraceEnds, room, history
<1>3. SignalsTyped' /\ RegistryTyped' /\ PairsInv' /\ OwnKept /\ disturbed' \in BOOLEAN
  <2>1. CASE HandleLockFrame(p, q)
    <3>1. RegistryTyped'
      BY <1>1, <2>1 DEF HandleLockFrame, RegistryTyped, room
    <3> QED BY <1>1, <2>1, <3>1, LockFrameKeepsPairs
  <2>2. CASE HandlePresence(p, q)
    BY <1>1, <2>2, PresenceKeepsPairs DEF HandlePresence, history
  <2>3. CASE HandleLeave(p, q)
    BY <1>1, <2>3, LeaveKeepsPairs
  <2>4. CASE HandlePeerLeft(p, q)
    BY <1>1, <2>4, PeerLeftKeepsPairs DEF HandlePeerLeft, history
  <2>5. CASE GraceEnds(p, q)
    BY <1>1, <2>5, GraceKeepsPairs
  <2> QED BY <2>1, <2>2, <2>3, <2>4, <2>5
<1>4. WorldTyped'
  BY <1>1, <1>2 DEF WorldTyped, counts
<1>5. CallsInv'
  BY <1>1, <1>2, <1>3, CallsKept
<1> QED BY <1>3, <1>4, <1>5, Together

(* A connection that comes or goes, is announced or beats. *)
LEMMA ConnectionKeeps ==
  ASSUME LocksInv, NEW p \in Peers,
         \/ Connect(p) \/ Heartbeat(p) \/ Break(p) \/ HandleLoss(p) \/ Disconnect(p)
         \/ AnnounceDeparture(p)
  PROVE  LocksInv'
<1>1. Typed /\ PairsInv /\ CallsInv /\ WorldTyped /\ RegistryTyped /\ disturbed \in BOOLEAN
         /\ EngineTyped
  BY Parts DEF PairsInv
<1>2. UNCHANGED <<clock, call, granted>>
  BY DEF Connect, Heartbeat, Break, HandleLoss, Disconnect, AnnounceDeparture, history
<1>3. /\ SignalsTyped' /\ RegistryTyped' /\ PairsInv' /\ OwnKept /\ disturbed' \in BOOLEAN
      /\ WorldTyped'
  <2>1. CASE Connect(p)
    <3>1. SignalsTyped' /\ PairsInv' /\ OwnKept
      BY <1>1, <2>1, ConnectKeepsPairs
    <3>2. RegistryTyped' /\ disturbed' \in BOOLEAN
      BY <1>1, <2>1 DEF Connect, RegistryTyped
    <3>3. WorldTyped'
      BY <1>1, <2>1 DEF Connect, WorldTyped, counts
    <3> QED BY <3>1, <3>2, <3>3
  <2>2. CASE Heartbeat(p)
    <3>1. SignalsTyped' /\ PairsInv' /\ OwnKept
      BY <1>1, <2>2, HeartbeatKeepsPairs
    <3>2. RegistryTyped' /\ disturbed' \in BOOLEAN
      BY <1>1, <2>2 DEF Heartbeat, RegistryTyped, room
    <3>3. UNCHANGED <<clock, room, cleared>> /\ misled' \subseteq misled /\ Change
      BY <2>2 DEF Heartbeat
    <3>4. WorldTyped'
      BY <1>1, <3>3, WorldCounts
    <3> QED BY <3>1, <3>2, <3>4
  <2>3. CASE Break(p)
    <3>1. SignalsTyped' /\ PairsInv' /\ OwnKept /\ disturbed' \in BOOLEAN
      BY <1>1, <2>3, BreakKeepsPairs
    <3>2. RegistryTyped'
      BY <1>1, <2>3 DEF Break, RegistryTyped
    <3>3. WorldTyped'
      BY <1>1, <2>3, TicksPositive DEF Break, WorldTyped, End
    <3> QED BY <3>1, <3>2, <3>3
  <2>4. CASE HandleLoss(p)
    <3>1. SignalsTyped' /\ PairsInv' /\ OwnKept /\ RegistryTyped'
      BY <1>1, <2>4, LossKeepsPairs
    <3>2. disturbed' \in BOOLEAN
      BY <1>1, <2>4 DEF HandleLoss, history
    <3>3. WorldTyped'
      BY <1>1, <2>4 DEF HandleLoss, WorldTyped, history, counts
    <3> QED BY <3>1, <3>2, <3>3
  <2>5. CASE Disconnect(p)
    <3>1. SignalsTyped' /\ PairsInv' /\ OwnKept /\ RegistryTyped'
      BY <1>1, <2>5, DisconnectKeepsPairs
    <3>2. disturbed' \in BOOLEAN
      BY <2>5 DEF Disconnect
    <3>3. WorldTyped'
      BY <1>1, <2>5, TicksPositive DEF Disconnect, WorldTyped, End
    <3> QED BY <3>1, <3>2, <3>3
  <2>6. CASE AnnounceDeparture(p)
    <3>1. SignalsTyped' /\ PairsInv' /\ OwnKept
      BY <1>1, <2>6, AnnouncementKeepsPairs
    <3>2. RegistryTyped' /\ disturbed' \in BOOLEAN
      BY <1>1, <2>6 DEF AnnounceDeparture, RegistryTyped
    <3>3. WorldTyped'
      BY <1>1, <2>6 DEF AnnounceDeparture, WorldTyped, counts
    <3> QED BY <3>1, <3>2, <3>3
  <2> QED BY <2>1, <2>2, <2>3, <2>4, <2>5, <2>6
<1>5. CallsInv'
  BY <1>1, <1>2, <1>3, CallsKept
<1> QED BY <1>3, <1>5, Together

(* A tick. *)
LEMMA TickKeeps ==
  ASSUME LocksInv, Tick
  PROVE  LocksInv'
<1>1. Typed /\ PairsInv /\ CallsInv /\ WorldTyped /\ RegistryTyped /\ disturbed \in BOOLEAN
         /\ EngineTyped
  BY Parts DEF PairsInv
<1>2. SignalsTyped' /\ PairsInv' /\ CallsInv'
  BY <1>1, TickKeepsPairs, TickKeepsCalls
<1>3. RegistryTyped' /\ disturbed' \in BOOLEAN
  BY <1>1 DEF Tick, RegistryTyped, room, history
<1>4. WorldTyped'
  BY <1>1 DEF Tick, WorldTyped, room, counts, history
<1> QED BY <1>2, <1>3, <1>4, Together

(* No step at all. *)
LEMMA StutterKeeps ==
  ASSUME LocksInv, UNCHANGED vars
  PROVE  LocksInv'
<1>1. Typed /\ PairsInv /\ CallsInv /\ WorldTyped /\ RegistryTyped /\ disturbed \in BOOLEAN
         /\ EngineTyped /\ \A r \in Peers : Told(r)
  BY Parts DEF PairsInv
<1>2. /\ UNCHANGED <<engine, clock>> /\ UNCHANGED <<clock, room, cleared, misled>>
      /\ UNCHANGED <<net, disturbed>> /\ UNCHANGED counts /\ call' = call /\ granted' = granted
      /\ clock' = clock /\ claims' = claims
      /\ registry' = registry /\ cleared' = cleared /\ link' = link /\ departed' = departed
      /\ misled' = misled /\ net' = net /\ disturbed' = disturbed
  BY DEF vars, engine, room, counts
<1>3. EngineTyped' /\ \A r \in Peers : Told(r)'
  BY <1>1, <1>2, EngineSame
<1>4. ASSUME NEW r \in Peers, NEW s \in Others(r)
      PROVE  Informed(r, s)' /\ Rostered(r, s)' /\ Forgotten(r, s)'
  <2>1. Informed(r, s) /\ Rostered(r, s) /\ Forgotten(r, s)
    BY <1>1 DEF PairsInv
  <2>2. Rostered(r, s)'
    BY <1>2, <2>1, UntouchedRoster
  <2>3. Informed(r, s)'
    <3>1. AlikeAt(claims'[r][s], claims[r][s], clock) /\ AlikeAt(claims'[s][s], claims[s][s], clock)
      BY <1>2 DEF AlikeAt
    <3>2. net'[s][r] = net[s][r]
      BY <1>2
    <3> QED BY <1>1, <1>2, <2>1, <3>1, <3>2, InformedKept
  <2> QED BY <1>2, <2>1, <2>2, <2>3 DEF Forgotten
<1>5. PairsInv'
  BY <1>3, <1>4 DEF PairsInv
<1>6. OwnKept
  BY <1>2 DEF OwnKept
<1>7. CallsInv'
  BY <1>1, <1>2, <1>6, CallsKept
<1>8. RegistryTyped' /\ SignalsTyped'
  BY <1>1, <1>2, Parts DEF RegistryTyped, SignalsTyped
<1>9. WorldTyped'
  BY <1>1, <1>2, WorldCounts
<1> QED BY <1>1, <1>2, <1>5, <1>7, <1>8, <1>9, Together

(* Every step keeps the invariant. *)
LEMMA InvNext == LocksInv /\ [Next]_vars => LocksInv'
<1> SUFFICES ASSUME LocksInv, [Next]_vars PROVE LocksInv'
  OBVIOUS
<1>1. CASE \E c \in Calls : Acquire(c) \/ Settled(c) \/ Retry(c)
  BY <1>1, CallStepKeeps
<1>2. CASE Receive
  BY <1>2, ReceiveKeeps DEF Receive
<1>3. CASE \E p \in Peers : Release(p) \/ ClaimExpires(p)
  BY <1>3, ReleaseStepKeeps
<1>4. CASE \E p \in Peers : \/ Connect(p) \/ Heartbeat(p) \/ Break(p) \/ HandleLoss(p)
                            \/ Disconnect(p) \/ AnnounceDeparture(p)
  BY <1>4, ConnectionKeeps
<1>5. CASE \E p \in Peers : \E q \in Others(p) : GraceEnds(p, q)
  BY <1>5, ReceiveKeeps
<1>6. CASE Tick
  BY <1>6, TickKeeps
<1>7. CASE UNCHANGED vars
  BY <1>7, StutterKeeps
<1> QED BY <1>1, <1>2, <1>3, <1>4, <1>5, <1>6, <1>7 DEF Next, CallStep

(* The invariant holds in every reachable state. *)
THEOREM LocksInvCorrect == Spec => []LocksInv
BY InitiallyInv, InvNext, PTL DEF Spec

-----------------------------------------------------------------------------
\* What the invariant says at rest.

(* What p knows of any claim is what its owner knows, when nothing is on its way. *)
LEMMA KnownAtRest ==
  ASSUME LocksInv, ~disturbed, Quiet, NEW p \in Peers, NEW r \in Peers
  PROVE  AlikeAt(claims[p][r], claims[r][r], clock)
<1>1. CASE r = p
  BY <1>1 DEF AlikeAt
<1>2. CASE r # p
  <2>1. r \in Others(p) /\ p \in Others(r)
    BY <1>2 DEF Others
  <2>2. Informed(p, r) /\ net[r][p] = <<>>
    BY <2>1 DEF LocksInv, Quiet
  <2>3. Arrives(<<>>, claims[p][r], claims[r][r], clock)
    BY <2>2 DEF Informed
  <2> QED BY <2>3, NothingOnTheWay
<1> QED BY <1>1, <1>2

(* The types of claims. *)
LEMMA ClaimsTyped ==
  ASSUME LocksInv, NEW p \in Peers
  PROVE  claims[p] \in [Peers -> ClaimType] /\ clock \in Nat
BY DEF LocksInv, EngineTyped, Typed

(* Then all resolve the lock alike. *)
LEMMA RestAgrees == LocksInv => Agreement
<1> SUFFICES ASSUME LocksInv, ~disturbed, Quiet, NEW p \in Peers, NEW q \in Peers
             PROVE  Resolve(claims[p]) = Resolve(claims[q])
  BY DEF Agreement
<1>1. \A r \in Peers : AlikeAt(claims[p][r], claims[q][r], clock)
  <2>1. ASSUME NEW r \in Peers PROVE AlikeAt(claims[p][r], claims[q][r], clock)
    <3>1. AlikeAt(claims[p][r], claims[r][r], clock) /\ AlikeAt(claims[q][r], claims[r][r], clock)
      BY KnownAtRest
    <3> QED BY <3>1 DEF AlikeAt
  <2> QED BY <2>1
<1>2. ResolveAt(claims[p], clock) = ResolveAt(claims[q], clock)
  BY <1>1, ClaimsTyped, AlikeResolve
<1> QED BY <1>2, AtClock

(* Then the registries name the connected peers. *)
LEMMA RestRosters == LocksInv => RostersExact
<1> SUFFICES ASSUME LocksInv, Quiet, departed = {}, NEW p \in Peers,
                    NEW q \in Others(p) \ misled, link[p] = "up"
             PROVE  registry[p][q] = "present" <=> link[q] = "up"
  BY DEF RostersExact
<1>1. q \in Peers /\ p \in Others(q)
  BY DEF Others
<1>2. Rostered(p, q) /\ net[q][p] = <<>> /\ net[p][q] = <<>>
  BY <1>1 DEF LocksInv, Quiet
<1>3. Present(p, q) \in BOOLEAN
  BY DEF Present
<1>4. (Stays(<<>>, Present(p, q)) <=> Present(p, q)) /\ ~Asks(<<>>)
  BY <1>3, NothingOnTheWay
<1> QED BY <1>2, <1>4 DEF Rostered, Present

(* A claim that is settled is known to everybody: the signal that told of it has arrived
   before the settle window was over. *)
LEMMA SettledIsKnown ==
  ASSUME MaxDelay < SettleTicks, LocksInv, ~disturbed,
         NEW p \in Peers, NEW q \in Others(p),
         ActiveAt(claims[p][p], clock), claims[p][p].at + SettleTicks <= clock
  PROVE  claims[q][p] = claims[p][p]
<1> DEFINE s == net[p][q]
           own == claims[p][p]
           frames == {i \in 1..Len(s) : IsLockFrame(s[i])}
<1>1. q \in Peers /\ p \in Others(q) /\ Typed
  BY DEF Others, LocksInv
<1>2. s \in Seq(Signals(clock)) /\ Len(s) \in Nat /\ \A i \in 1..Len(s) : s[i] \in Signals(clock)
  <2>1. s \in Seq(Signals(clock))
    BY <1>1, UnderWay
  <2> QED BY <2>1, LenProperties, ElementOfSeq
<1>3. Arrives(s, claims[q][p], own, clock)
  BY <1>1 DEF LocksInv, Informed
<1>4. own.at \in Nat /\ clock \in Nat /\ own # NoClaim
  BY ClaimsTyped DEF ClaimType, ActiveAt
<1> HIDE DEF s, own
<1>5. ASSUME NEW i \in 1..Len(s), IsLockFrame(s[i]) PROVE s[i].claim # own
  <2>1. s[i] \in Messages /\ OnTheWay(s[i], clock)
    BY <1>2 DEF Signals
  <2>2. ASSUME s[i].claim = own PROVE FALSE
    <3>1. own.at = s[i].sentAt /\ s[i].sentAt \in Nat
      BY <1>4, <2>1, <2>2 DEF OnTheWay, Messages
    <3>2. clock <= own.at + MaxDelay /\ own.at + SettleTicks <= clock
      BY <2>1, <3>1 DEF OnTheWay, own
    <3> QED BY <1>4, <3>2, TicksPositive
  <2> QED BY <2>2
<1>6. CASE frames = {}
  <2>1. AlikeAt(claims[q][p], own, clock)
    BY <1>3, <1>6 DEF Arrives
  <2> QED BY <2>1 DEF AlikeAt, own
<1>7. CASE frames # {}
  <2> DEFINE T == {Len(s) - i : i \in frames}
  <2>1. T \subseteq Nat /\ T # {}
    BY <1>2, <1>7
  <2>2. PICK t \in T : \A u \in T : t <= u
    <3> HIDE DEF T
    <3> QED BY <2>1, Least
  <2>3. PICK i \in frames : t = Len(s) - i
    BY <2>2
  <2>4. ASSUME NEW j \in 1..Len(s), j > i PROVE ~IsLockFrame(s[j])
    <3>1. CASE j \in frames
      <4>1. Len(s) - i <= Len(s) - j
        BY <2>2, <2>3, <3>1
      <4> QED BY <1>2, <2>3, <2>4, <4>1
    <3> QED BY <3>1
  <2>5. AlikeAt(s[i].claim, own, clock)
    BY <1>3, <2>3, <2>4 DEF Arrives
  <2>6. s[i].claim = own
    BY <2>5 DEF AlikeAt, own
  <2> QED BY <1>5, <2>3, <2>6
<1> QED BY <1>6, <1>7 DEF own

\* A peer whose claim is settled, and which sees itself as the holder, is the only one
\* that does.
SettledHolderIsAlone ==
    ~disturbed => \A p, q \in Peers :
        /\ Holder(p) = p /\ claims[p][p].at + SettleTicks <= clock
        /\ Holder(q) = q
        => p = q

(* A peer that sees itself as the holder has the claim that wins among those it knows. *)
LEMMA HolderWins ==
  ASSUME LocksInv, NEW p \in Peers, Holder(p) = p
  PROVE  WinsAt(claims[p], clock, p) /\ ActiveAt(claims[p][p], clock)
<1>1. ResolveAt(claims[p], clock).holder = p
  BY AtClock DEF Holder
<1> QED BY <1>1, ClaimsTyped, Resolution DEF WinsAt, ClaimantsAt

(* Of two that see themselves as the holder the one with the later claim knows of the
   other, which is settled as well: then the other knows of it too. *)
LEMMA SettledAlone ==
  ASSUME MaxDelay < SettleTicks, LocksInv
  PROVE  SettledHolderIsAlone
<1> SUFFICES ASSUME ~disturbed, NEW p \in Peers, NEW q \in Peers, p # q,
                    Holder(p) = p, claims[p][p].at + SettleTicks <= clock, Holder(q) = q
             PROVE  FALSE
  BY DEF SettledHolderIsAlone
<1>1. /\ WinsAt(claims[p], clock, p) /\ ActiveAt(claims[p][p], clock)
      /\ WinsAt(claims[q], clock, q) /\ ActiveAt(claims[q][q], clock)
  BY HolderWins
<1>2. /\ claims[p][p].at \in Nat /\ claims[q][q].at \in Nat /\ clock \in Nat
      /\ SettleTicks \in Nat /\ p \in Nat /\ q \in Nat /\ q \in Others(p) /\ p \in Others(q)
  BY ClaimsTyped, TicksPositive, PeersAreOrdered DEF ClaimType, Others
<1>3. claims[q][p] = claims[p][p]
  BY <1>1, <1>2, SettledIsKnown
<1>4. claims[q][q].at < claims[p][p].at \/ (claims[q][q].at = claims[p][p].at /\ q < p)
  BY <1>1, <1>3 DEF WinsAt, ClaimantsAt
<1>5. claims[q][q].at + SettleTicks <= clock
  BY <1>2, <1>4
<1>6. claims[p][q] = claims[q][q]
  BY <1>1, <1>2, <1>5, SettledIsKnown
<1>7. claims[p][p].at < claims[q][q].at \/ (claims[p][p].at = claims[q][q].at /\ p < q)
  BY <1>1, <1>6 DEF WinsAt, ClaimantsAt
<1> QED BY <1>2, <1>4, <1>7

(* If no peer calls acquire twice, one that holds the key has a claim that is settled. *)
LEMMA HoldersAlone ==
  ASSUME MaxDelay < SettleTicks, \A c, d \in Calls : Caller[c] = Caller[d] => c = d, LocksInv
  PROVE  OneHolder
<1>1. ASSUME NEW p \in Peers, Holds(p) PROVE claims[p][p].at + SettleTicks <= clock
  <2>1. granted[p] /\ Holder(p) = p /\ Placed(p) /\ Earned(p)
    BY <1>1 DEF LocksInv, Holds
  <2>2. claims[p][p] # NoClaim
    BY <2>1, HolderWins DEF ActiveAt
  <2>3. PICK c \in Calls : Caller[c] = p /\ call[c].pc = "true"
    BY <2>1 DEF Earned
  <2>4. Settling(p) = {}
    BY <2>3 DEF Settling
  <2> QED BY <2>1, <2>2, <2>4 DEF Placed
<1>2. SettledHolderIsAlone
  BY SettledAlone
<1> QED BY <1>1, <1>2 DEF OneHolder, SettledHolderIsAlone, Holds

-----------------------------------------------------------------------------
\* The theorems.

(* The types, and the one timer of a key, which scheduleExpiry leaves due when the first
   of the claims ends. *)
THEOREM TypeOKCorrect == Spec => []TypeOK
<1>1. LocksInv => TypeOK
  <2> SUFFICES ASSUME LocksInv PROVE TypeOK
    OBVIOUS
  <2>1. Typed /\ EngineTyped
    BY DEF LocksInv
  <2>2. ASSUME NEW p \in Peers
        PROVE  /\ registry[p] \in [Others(p) -> Entries]
               /\ net[p] \in [Others(p) -> Seq(Messages)]
               /\ claims[p] \in [Peers -> ClaimType]
               /\ expiry[p] = Soonest(claims[p])
    <3>1. net[p] \in [Others(p) -> Seq(Signals(clock))] /\ registry[p] \in [Others(p) -> Entries]
      BY <2>1 DEF Typed
    <3>2. net[p] \in [Others(p) -> Seq(Messages)]
      BY <3>1, SignalsAreMessages
    <3> QED BY <2>1, <3>1, <3>2 DEF EngineTyped
  <2>3. notified \in [Peers -> States]
    BY <2>1 DEF EngineTyped
  <2> QED BY <2>1, <2>2, <2>3 DEF TypeOK, Typed
<1> QED BY <1>1, LocksInvCorrect, PTL

(* What subscribers were last told is the state of the lock, unless the timer is due:
   reconcileKey notifies whenever the state it resolves to is another one. *)
THEOREM SubscribersCurrentCorrect == Spec => []SubscribersCurrent
<1>1. LocksInv => SubscribersCurrent
  BY DEF LocksInv, Told, SubscribersCurrent
<1> QED BY <1>1, LocksInvCorrect, PTL

(* The claims of a peer go with the peer, through onPeerLeave, and none is taken from a
   peer that is not in the registry. *)
THEOREM ClaimsOfMembersCorrect == Spec => []ClaimsOfMembers
<1>1. LocksInv => ClaimsOfMembers
  BY DEF LocksInv, Forgotten, ClaimsOfMembers
<1> QED BY <1>1, LocksInvCorrect, PTL

(* A peer claims nothing unless a call of acquire succeeded or goes on, however often
   attempts fail, are repeated and overlap. *)
THEOREM NoStrayClaimCorrect == Spec => []NoStrayClaim
<1>1. ASSUME LocksInv, NEW p \in Peers, Active(claims[p][p])
      PROVE  granted[p] \/ \E c \in Calls : Caller[c] = p /\ InProgress(c)
  <2>1. granted[p] \/ Settling(p) # {}
    BY <1>1 DEF LocksInv, Placed, Active
  <2> QED BY <2>1 DEF Settling, InProgress
<1>2. LocksInv => NoStrayClaim
  BY <1>1 DEF NoStrayClaim
<1> QED BY <1>2, LocksInvCorrect, PTL

(* acquire outlasts its timeout by less than a settle window: the last attempt starts
   before the deadline, and the delays in between are no longer than the window. *)
THEOREM PatienceBoundedCorrect == Spec => []PatienceBounded
<1>1. ASSUME LocksInv, NEW c \in Calls, InProgress(c), call[c].deadline # None
      PROVE  clock < call[c].deadline + SettleTicks
  <2>1. clock <= call[c].due /\ call[c].due < call[c].deadline + SettleTicks
    BY <1>1 DEF LocksInv, Punctual
  <2>2. call[c].due \in Nat /\ call[c].deadline \in Nat /\ clock \in Nat /\ SettleTicks \in Nat
    BY <1>1, TicksPositive DEF LocksInv, Typed
  <2> QED BY <2>1, <2>2
<1>2. LocksInv => PatienceBounded
  BY <1>1 DEF PatienceBounded
<1> QED BY <1>2, LocksInvCorrect, PTL

(* At rest the registries name the connected peers: the handshake of hello and welcome,
   and 'peer-left', make up for every removal timer that was started and cancelled. *)
THEOREM RostersExactCorrect == Spec => []RostersExact
BY RestRosters, LocksInvCorrect, PTL

(* Once everything has arrived all peers resolve the lock alike: signals arrive in the
   order in which they were sent, and the last one says all there is to say. *)
THEOREM AgreementCorrect == Spec => []Agreement
BY RestAgrees, LocksInvCorrect, PTL

(* If every signal takes less than the settle window, a peer whose claim is settled and
   which sees itself as the holder is the only one that does, whoever called acquire and
   how often. *)
THEOREM SettledHolderIsAloneCorrect ==
  ASSUME MaxDelay < SettleTicks
  PROVE  Spec => []SettledHolderIsAlone
<1>1. LocksInv => SettledHolderIsAlone
  BY SettledAlone
<1> QED BY <1>1, LocksInvCorrect, PTL

(* If every signal takes less than the settle window and no peer calls acquire twice, the
   key has one holder at a time.  A second call of the same peer renews its claim, and
   then it is not settled, though an earlier call was granted the key. *)
THEOREM OneHolderCorrect ==
  ASSUME MaxDelay < SettleTicks, \A c, d \in Calls : Caller[c] = Caller[d] => c = d
  PROVE  Spec => []OneHolder
<1>1. LocksInv => OneHolder
  BY HoldersAlone
<1> QED BY <1>1, LocksInvCorrect, PTL
=============================================================================
