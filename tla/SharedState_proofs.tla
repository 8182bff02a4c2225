-------------------------- MODULE SharedState_proofs --------------------------
(***************************************************************************)
(* Proofs about SharedState, for every set of peers, every skew of their   *)
(* clocks and every bound.  First, that a connected room which has         *)
(* something to replay has its replay timer set: that needs nothing of     *)
(* what the queue holds.  Then what the folds over the queue make of it,   *)
(* and with that the types, that a room shows the synced state with its    *)
(* queue applied, and that operations are dispatched in the order made.    *)
(* Last, of rooms of two peers, that they converge, whatever their clocks  *)
(* say, and that a replay drops only what lost against the other's writes. *)
(***************************************************************************)
EXTENDS SharedState, SequenceTheorems, FiniteSetTheorems, WellFoundedInduction, TLAPS


(* The inductive invariant *)

ControlOK ==
    /\ link \in [Peers -> Links]
    /\ timer \in [Peers -> BOOLEAN]
    /\ window \in [Peers -> BOOLEAN]
    /\ DOMAIN queue = Peers
    /\ queue = [p \in Peers |-> queue[p]]

\* No page but a running one has a timer, a window or a queue.
AtRest ==
    \A p \in Peers : ~Running(p) => ~timer[p] /\ ~window[p] /\ queue[p] = <<>>

IInv == ControlOK /\ AtRest /\ ReplayArmed

\* scheduleOfflineQueueReplay leaves the timer of p set if there is something to
\* replay or to announce, and every other timer as it was.
LEMMA Scheduled ==
    ASSUME ControlOK, NEW p \in Peers, NEW q, ScheduleReplay(p, q)
    PROVE  /\ timer' \in [Peers -> BOOLEAN]
           /\ window' \in [Peers -> BOOLEAN]
           /\ q # <<>> \/ window'[p] => timer'[p]
           /\ \A r \in Peers \ {p} : timer'[r] = timer[r] /\ window'[r] = window[r]
BY DEF ControlOK, ScheduleReplay

\* So does an operation that is queued, if the room is connected.
LEMMA Enqueued ==
    ASSUME ControlOK, ReplayArmed, NEW p \in Peers, NEW e, Enqueue(p, e),
           Running(p), link' = link
    PROVE  /\ ControlOK'
           /\ AtRest => AtRest'
           /\ ReplayArmed'
<1>1. CASE HasTransport(p)
  <2>1. ScheduleReplay(p, queue'[p])
    BY <1>1 DEF Enqueue, ScheduleIfConnected
  <2>2. DOMAIN queue' = Peers /\ queue' = [r \in Peers |-> queue'[r]]
        /\ \A r \in Peers \ {p} : queue'[r] = queue[r]
    BY DEF Enqueue, ControlOK
  <2> QED
    BY <2>1, <2>2, Scheduled DEF ControlOK, AtRest, ReplayArmed, Running
<1>2. CASE ~HasTransport(p)
  <2>1. UNCHANGED <<timer, window>> /\ link[p] # "up"
    BY <1>2 DEF Enqueue, ScheduleIfConnected, HasTransport
  <2>2. DOMAIN queue' = Peers /\ queue' = [r \in Peers |-> queue'[r]]
        /\ \A r \in Peers \ {p} : queue'[r] = queue[r]
    BY DEF Enqueue, ControlOK
  <2> QED
    BY <2>1, <2>2 DEF ControlOK, AtRest, ReplayArmed, Running
<1> QED
  BY <1>1, <1>2

\* Every step keeps the invariant.
LEMMA ArmedStep == IInv /\ [Next]_vars => IInv'
<1> SUFFICES ASSUME IInv, [Next]_vars PROVE IInv'
  OBVIOUS
<1> USE DEF IInv
<1>0. ASSUME UNCHANGED <<link, queue, timer, window>> PROVE IInv'
  BY <1>0 DEF ControlOK, AtRest, ReplayArmed, Running
<1>1. ASSUME NEW p \in Peers, NEW kind, Mutate(p, kind) PROVE IInv'
  <2>1. Running(p) /\ link' = link
    BY <1>1 DEF Mutate, NextOperation
  <2>2. ASSUME NEW e, Enqueue(p, e) PROVE IInv'
    BY <2>1, <2>2, Enqueued
  <2>3. ASSUME NEW signals, Dispatch(p, signals) PROVE IInv'
    BY <2>1, <2>3, <1>0 DEF Dispatch
  <2>4. (\E e : Enqueue(p, e)) \/ (\E signals : Dispatch(p, signals))
    BY <1>1 DEF Mutate
  <2> QED
    BY <2>2, <2>3, <2>4
<1>2. ASSUME NEW p \in Peers, Emit(p) PROVE IInv'
  <2>1. Running(p) /\ link' = link
    BY <1>2 DEF Emit, NextOperation
  <2>2. CASE Enqueue(p, EventEntry(ops + 1))
    BY <2>1, <2>2, Enqueued
  <2>3. CASE Dispatch(p, <<>>)
    BY <2>1, <2>3, <1>0 DEF Dispatch
  <2> QED
    BY <1>2, <2>2, <2>3 DEF Emit
<1>3. ASSUME NEW p \in Peers, Load(p) PROVE IInv'
  BY <1>3 DEF Load, ControlOK, AtRest, ReplayArmed, Running, Links
<1>4. ASSUME NEW p \in Peers, Unload(p) PROVE IInv'
  BY <1>4 DEF Unload, ControlOK, AtRest, ReplayArmed, Running, Links
<1>5. ASSUME NEW p \in Peers, Break(p) PROVE IInv'
  BY <1>5 DEF Break, states, ControlOK, AtRest, ReplayArmed, Running, Links
<1>6. ASSUME NEW p \in Peers, Connect(p) PROVE IInv'
  <2>1. ScheduleReplay(p, queue[p]) /\ queue' = queue
    BY <1>6 DEF Connect, states
  <2>2. Running(p) /\ link' = [link EXCEPT ![p] = "up"]
    BY <1>6 DEF Connect, Running
  <2> QED
    BY <2>1, <2>2, Scheduled DEF ControlOK, AtRest, ReplayArmed, Running, Links
<1>7. ASSUME NEW p \in Peers, HandleLoss(p) PROVE IInv'
  BY <1>7 DEF HandleLoss, states, ControlOK, AtRest, ReplayArmed, Running, Links
<1>8. ASSUME NEW p \in Peers, Disconnect(p) PROVE IInv'
  BY <1>8 DEF Disconnect, states, ControlOK, AtRest, ReplayArmed, Running, Links
<1>9. ASSUME NEW p \in Peers, Disconnected(p) PROVE IInv'
  BY <1>9 DEF Disconnected, states, ControlOK, AtRest, ReplayArmed, Running, Links
<1>10. ASSUME NEW p \in Peers, ReplayTimer(p) PROVE IInv'
  <2>1. timer[p] /\ timer' = [timer EXCEPT ![p] = FALSE] /\ link' = link
    BY <1>10 DEF ReplayTimer
  <2>2. CASE HasTransport(p)
    <3>1. queue' = [queue EXCEPT ![p] = <<>>] /\ window' = [window EXCEPT ![p] = FALSE]
      BY <1>10, <2>2 DEF ReplayTimer
    <3> QED
      BY <2>1, <3>1 DEF ControlOK, AtRest, ReplayArmed, Running
  <2>3. CASE ~HasTransport(p)
    <3>1. queue' = queue /\ window' = window
      BY <1>10, <2>3 DEF ReplayTimer, states
    <3> QED
      BY <2>1, <2>3, <3>1 DEF ControlOK, AtRest, ReplayArmed, Running, HasTransport
  <2> QED
    BY <2>2, <2>3
<1>11. ASSUME NEW p \in Peers, Relay(p) PROVE IInv'
  BY <1>11, <1>0 DEF Relay, states
<1>12. ASSUME NEW p \in Peers, HandleHello(p) PROVE IInv'
  BY <1>12, <1>0 DEF HandleHello, Receive, states
<1>13. ASSUME NEW p \in Peers, HandleWelcome(p) PROVE IInv'
  <2>1. ScheduleReplay(p, queue[p]) /\ queue' = queue /\ link' = link /\ inbox[p] # <<>>
    BY <1>13 DEF HandleWelcome, Receive, states
  <2> QED
    BY <2>1, Scheduled DEF ControlOK, AtRest, ReplayArmed, Running, ScheduleReplay
<1>14. ASSUME NEW p \in Peers, HandleState(p) PROVE IInv'
  <2>1. ScheduleReplay(p, queue[p]) /\ queue' = queue /\ link' = link
    BY <1>14 DEF HandleState, Receive
  <2> QED
    BY <2>1, Scheduled DEF ControlOK, AtRest, ReplayArmed, Running, ScheduleReplay
<1>15. CASE UNCHANGED vars
  BY <1>15, <1>0 DEF vars
<1> QED
  BY <1>1, <1>2, <1>3, <1>4, <1>5, <1>6, <1>7, <1>8, <1>9, <1>10, <1>11, <1>12,
     <1>13, <1>14, <1>15 DEF Next

\* No wake-up of the replay is lost: however losses, disconnects, reconnections
\* and queued operations follow each other, a connected room with something to
\* replay or to announce has its timer set.
THEOREM NoLostWakeUp == Spec => []ReplayArmed
<1>1. Init => IInv
  BY DEF Init, IInv, ControlOK, AtRest, ReplayArmed, Links
<1>2. IInv => ReplayArmed
  BY DEF IInv
<1> QED
  BY <1>1, <1>2, ArmedStep, PTL DEF Spec

-----------------------------------------------------------------------------

(* Of some numbers one is the least. *)
LEMMA Least ==
  ASSUME NEW T, T \subseteq Nat, T # {}
  PROVE  \E t \in T : \A u \in T : t <= u
<1> DEFINE R == {ss \in Nat \X Nat : ss[1] < ss[2]}
<1>1. IsWellFoundedOn(R, Nat)
  BY NatLessThanWellFounded DEF OpToRel
<1> HIDE DEF R
<1>2. PICK t \in T : \A u \in T : ~(<<u, t>> \in R)
  BY <1>1, WFMin
<1>3. ASSUME NEW u \in T PROVE t <= u
  <2>1. u \in Nat /\ t \in Nat /\ <<u, t>> \notin R
    BY <1>2
  <2>2. ~(u < t)
    BY <2>1 DEF R
  <2> QED BY <2>1, <2>2
<1> QED BY <1>3

(* What holds of 0 and of the successor of each number below a bound it holds of, holds up
   to the bound. *)
LEMMA UpTo ==
  ASSUME NEW N \in Nat, NEW T, 0 \in T, \A n \in 1..N : n - 1 \in T => n \in T
  PROVE  \A n \in 0..N : n \in T
<1> SUFFICES ASSUME {n \in 0..N : n \notin T} # {} PROVE FALSE
  OBVIOUS
<1>1. PICK m \in {n \in 0..N : n \notin T} : \A u \in {n \in 0..N : n \notin T} : m <= u
  <2>1. {n \in 0..N : n \notin T} \subseteq Nat
    OBVIOUS
  <2> QED BY <2>1, Least
<1>2. m \in 1..N /\ m - 1 \in 0..N
  BY <1>1
<1> QED BY <1>1, <1>2

(* The folds over a queue, one entry at a time. *)
Projected(s, e) == IF Counts(s, e) THEN Apply(s, e.mutation) ELSE s
Replayed(r, e) ==
    CASE e.type = "event" -> [r EXCEPT !.done = Append(@, e.op)]
      [] Counts(r.synced, e) ->
            LET s == Apply(r.synced, e.mutation)
            IN  [synced |-> s, sent |-> Append(r.sent, s),
                 done |-> Append(r.done, e.mutation.op)]
      [] OTHER -> r
Nothing(base) == [synced |-> base, sent |-> <<>>, done |-> <<>>]

Step(fold, r, e) == IF fold = "project" THEN Projected(r, e) ELSE Replayed(r, e)

(* The recursion by which a fold is defined: over the sets of places, from the last. *)
Iterates(fold, f, base, q) ==
    f = [s \in SUBSET (DOMAIN q) |->
            IF s = {} THEN base ELSE Step(fold, f[s \ {Max(s)}], q[Max(s)])]

Fold(fold, base, q) == (CHOOSE f : Iterates(fold, f, base, q))[DOMAIN q]

IterP(f, base, q) ==
    f = [s \in SUBSET (DOMAIN q) |->
            IF s = {} THEN base ELSE Projected(f[s \ {Max(s)}], q[Max(s)])]
IterR(f, base, q) ==
    f = [s \in SUBSET (DOMAIN q) |->
            IF s = {} THEN base ELSE Replayed(f[s \ {Max(s)}], q[Max(s)])]

(* What a room shows is the fold of its queue over what it shares. *)
LEMMA ProjectFolds ==
  ASSUME NEW base, NEW q
  PROVE  Project(base, q) = Fold("project", base, q)
<1>1. Project(base, q) = (CHOOSE f : IterP(f, base, q))[DOMAIN q]
  BY DEF Project, FoldLeft, MapThenFoldSet, IterP, Projected
<1>2. \A f : IterP(f, base, q) <=> Iterates("project", f, base, q)
  BY DEF IterP, Iterates, Step
<1> QED BY <1>1, <1>2 DEF Fold

(* A replay is the fold of the queue over what was shared, with nothing sent yet. *)
LEMMA ReplayFolds ==
  ASSUME NEW base, NEW q
  PROVE  Replay(base, q) = Fold("replay", Nothing(base), q)
<1>1. Replay(base, q) = (CHOOSE f : IterR(f, Nothing(base), q))[DOMAIN q]
  BY DEF Replay, FoldLeft, MapThenFoldSet, IterR, Replayed, Nothing
<1>2. \A f : IterR(f, Nothing(base), q) <=> Iterates("replay", f, Nothing(base), q)
  BY DEF IterR, Iterates, Step
<1> QED BY <1>1, <1>2 DEF Fold

(* The largest of the first n places. *)
LEMMA LastPlace ==
  ASSUME NEW n \in Nat \ {0}, NEW s \in SUBSET (1..n), n \in s
  PROVE  Max(s) = n /\ s \ {Max(s)} \in SUBSET (1..n - 1)
<1>1. \A x \in s : (\A y \in s : x >= y) <=> x = n
  OBVIOUS
<1>2. Max(s) = n
  BY <1>1 DEF Max
<1> QED BY <1>2

(* Some function satisfies the recursion. *)
LEMMA FoldExists ==
  ASSUME NEW fold, NEW S, NEW base, NEW q \in Seq(S)
  PROVE  \E f : Iterates(fold, f, base, q)
<1> DEFINE Is(h, n) == h = [s \in SUBSET (1..n) |->
                IF s = {} THEN base ELSE Step(fold, h[s \ {Max(s)}], q[Max(s)])]
           T == {n \in Nat : \E h : Is(h, n)}
<1>1. Len(q) \in Nat /\ DOMAIN q = 1..Len(q)
  BY LenProperties
<1>2. 0 \in T
  <2>1. SUBSET (1..0) = {{}}
    OBVIOUS
  <2>2. Is([s \in {{}} |-> base], 0)
    BY <2>1
  <2> QED BY <2>2
<1>3. ASSUME NEW n \in 1..Len(q), n - 1 \in T PROVE n \in T
  <2>1. PICK h : Is(h, n - 1)
    BY <1>3
  <2> DEFINE g == [s \in SUBSET (1..n) |->
                IF n \in s THEN Step(fold, h[s \ {n}], q[n]) ELSE h[s]]
             val(s) == IF s = {} THEN base ELSE Step(fold, g[s \ {Max(s)}], q[Max(s)])
  <2>a. /\ \A s \in SUBSET (1..n) : n \in s => g[s] = Step(fold, h[s \ {n}], q[n])
        /\ \A s \in SUBSET (1..n) : n \notin s => g[s] = h[s]
        /\ g = [s \in SUBSET (1..n) |-> g[s]]
    OBVIOUS
  <2> HIDE DEF g
  <2>2. ASSUME NEW s \in SUBSET (1..n), n \in s PROVE g[s] = val(s)
    <3>1. Max(s) = n /\ s \ {n} \in SUBSET (1..n - 1) /\ s \ {n} \in SUBSET (1..n) /\ s # {}
      BY <1>1, <2>2, LastPlace
    <3>2. g[s \ {n}] = h[s \ {n}]
      BY <2>a, <3>1
    <3> QED BY <2>a, <2>2, <3>1, <3>2
  <2>3. ASSUME NEW s \in SUBSET (1..n), n \notin s PROVE g[s] = val(s)
    <3>1. s \in SUBSET (1..n - 1) /\ s \ {Max(s)} \in SUBSET (1..n - 1) /\ s \ {Max(s)} \in SUBSET (1..n)
      <4>1. ASSUME NEW y \in s PROVE y \in 1..n - 1
        BY <1>1, <2>3, <4>1
      <4>2. 1..n - 1 \subseteq 1..n
        BY <1>1
      <4> QED BY <4>1, <4>2
    <3>2. h[s] = IF s = {} THEN base ELSE Step(fold, h[s \ {Max(s)}], q[Max(s)])
      BY <2>1, <3>1
    <3>3. g[s] = h[s] /\ g[s \ {Max(s)}] = h[s \ {Max(s)}]
      BY <2>a, <2>3, <3>1
    <3> QED BY <3>2, <3>3
  <2>5. \A s \in SUBSET (1..n) : g[s] = val(s)
    BY <2>2, <2>3
  <2>6. Is(g, n)
    BY <2>a, <2>5
  <2>7. n \in Nat
    BY <1>1
  <2> QED BY <2>6, <2>7
<1>4. Len(q) \in T
  <2> HIDE DEF T
  <2>1. \A n \in 0..Len(q) : n \in T
    BY <1>1, <1>2, <1>3, UpTo
  <2> QED BY <1>1, <2>1
<1> QED BY <1>1, <1>4 DEF Iterates

(* A fold as it runs over a queue: what it has made of the first n entries. *)
Runs(fold, f, base, q) ==
    /\ f[0] = base
    /\ \A n \in 1..Len(q) : f[n] = Step(fold, f[n - 1], q[n])

(* A fold is where a run over the queue ends. *)
LEMMA FoldRuns ==
  ASSUME NEW fold, NEW S, NEW base, NEW q \in Seq(S)
  PROVE  \E f : Runs(fold, f, base, q) /\ f[Len(q)] = Fold(fold, base, q)
<1> DEFINE g == CHOOSE f : Iterates(fold, f, base, q)
           h == [n \in 0..Len(q) |-> g[1..n]]
<1>1. Iterates(fold, g, base, q)
  BY FoldExists
<1>2. Len(q) \in Nat /\ DOMAIN q = 1..Len(q)
  BY LenProperties
<1>3. h[Len(q)] = Fold(fold, base, q)
  BY <1>2 DEF Fold
<1> HIDE DEF g
<1>4. \A s \in SUBSET (1..Len(q)) :
          g[s] = IF s = {} THEN base ELSE Step(fold, g[s \ {Max(s)}], q[Max(s)])
  BY <1>1, <1>2 DEF Iterates
<1>5. h[0] = base
  <2>1. 1..0 = {} /\ {} \in SUBSET (1..Len(q)) /\ 0 \in 0..Len(q)
    BY <1>2
  <2>2. h[0] = g[1..0]
    BY <2>1
  <2> QED BY <1>4, <2>1, <2>2
<1>6. ASSUME NEW n \in 1..Len(q) PROVE h[n] = Step(fold, h[n - 1], q[n])
  <2>1. 1..n \in SUBSET (1..Len(q)) /\ 1..n # {} /\ n \in 1..n /\ n \in Nat \ {0}
    BY <1>2
  <2>2. Max(1..n) = n
    BY <2>1, LastPlace
  <2>3. (1..n) \ {n} = 1..n - 1 /\ n - 1 \in 0..Len(q) /\ n \in 0..Len(q)
    BY <1>2
  <2>4. h[n] = g[1..n] /\ h[n - 1] = g[1..n - 1]
    BY <2>3
  <2> QED BY <1>4, <2>1, <2>2, <2>3, <2>4
<1> HIDE DEF h
<1>7. Runs(fold, h, base, q)
  BY <1>5, <1>6 DEF Runs
<1> QED BY <1>3, <1>7

(* Two runs that have read the same have made the same of it. *)
LEMMA RunsAgree ==
  ASSUME NEW fold, NEW base, NEW f, NEW g, NEW q, NEW t, NEW n \in Nat,
         Runs(fold, f, base, q), Runs(fold, g, base, t),
         Len(q) \in Nat, Len(t) \in Nat, n <= Len(q), n <= Len(t),
         \A i \in 1..n : q[i] = t[i]
  PROVE  f[n] = g[n]
<1> DEFINE T == {m \in 0..n : f[m] = g[m]}
<1>1. 0 \in T
  BY DEF Runs
<1>2. ASSUME NEW m \in 1..n, m - 1 \in T PROVE m \in T
  <2>1. m \in 1..Len(q) /\ m \in 1..Len(t) /\ m \in 0..n
    OBVIOUS
  <2>2. f[m] = Step(fold, f[m - 1], q[m]) /\ g[m] = Step(fold, g[m - 1], t[m])
    BY <2>1 DEF Runs
  <2> QED BY <1>2, <2>1, <2>2
<1> HIDE DEF T
<1>3. \A m \in 0..n : m \in T
  BY <1>1, <1>2, UpTo
<1> QED BY <1>3 DEF T

(* Every run over the queue ends where the fold does. *)
LEMMA FoldIs ==
  ASSUME NEW fold, NEW S, NEW base, NEW q \in Seq(S), NEW f, Runs(fold, f, base, q)
  PROVE  Fold(fold, base, q) = f[Len(q)]
<1>1. PICK g : Runs(fold, g, base, q) /\ g[Len(q)] = Fold(fold, base, q)
  BY FoldRuns
<1>2. Len(q) \in Nat
  BY LenProperties
<1> QED BY <1>1, <1>2, RunsAgree

(* Of an empty queue a fold makes nothing. *)
LEMMA FoldEmpty ==
  ASSUME NEW fold, NEW base
  PROVE  Fold(fold, base, <<>>) = base
<1>1. <<>> \in Seq({}) /\ Len(<<>>) = 0
  BY EmptySeq
<1>2. PICK g : Runs(fold, g, base, <<>>) /\ g[Len(<<>>)] = Fold(fold, base, <<>>)
  BY <1>1, FoldRuns
<1> QED BY <1>1, <1>2 DEF Runs

(* An entry more is a step more. *)
LEMMA FoldAppend ==
  ASSUME NEW fold, NEW S, NEW base, NEW q \in Seq(S), NEW e \in S
  PROVE  Fold(fold, base, Append(q, e)) = Step(fold, Fold(fold, base, q), e)
<1>1. /\ Len(q) \in Nat /\ Append(q, e) \in Seq(S) /\ Len(Append(q, e)) = Len(q) + 1
      /\ \A n \in 1..Len(q) : Append(q, e)[n] = q[n]
      /\ Append(q, e)[Len(q) + 1] = e
  BY LenProperties, AppendProperties
<1>2. PICK f : Runs(fold, f, base, Append(q, e)) /\ f[Len(Append(q, e))] = Fold(fold, base, Append(q, e))
  BY <1>1, FoldRuns
<1>3. Runs(fold, f, base, q)
  BY <1>1, <1>2 DEF Runs
<1>4. Fold(fold, base, q) = f[Len(q)]
  BY <1>3, FoldIs
<1>5. f[Len(q) + 1] = Step(fold, f[Len(q)], e)
  BY <1>1, <1>2 DEF Runs
<1> QED BY <1>1, <1>2, <1>4, <1>5

(* What every step keeps, the fold keeps. *)
LEMMA FoldKeeps ==
  ASSUME NEW fold, NEW S, NEW base, NEW q \in Seq(S), NEW T,
         base \in T[0],
         \A n \in 1..Len(q) : \A r \in T[n - 1] : Step(fold, r, q[n]) \in T[n]
  PROVE  Fold(fold, base, q) \in T[Len(q)]
<1>1. PICK f : Runs(fold, f, base, q) /\ f[Len(q)] = Fold(fold, base, q)
  BY FoldRuns
<1>2. Len(q) \in Nat
  BY LenProperties
<1> DEFINE U == {n \in 0..Len(q) : f[n] \in T[n]}
<1>3. 0 \in U
  BY <1>1, <1>2 DEF Runs
<1>4. ASSUME NEW n \in 1..Len(q), n - 1 \in U PROVE n \in U
  <2>1. f[n] = Step(fold, f[n - 1], q[n])
    BY <1>1 DEF Runs
  <2>2. f[n - 1] \in T[n - 1] /\ n \in 0..Len(q)
    BY <1>2, <1>4
  <2> QED BY <2>1, <2>2
<1> HIDE DEF U
<1>5. \A n \in 0..Len(q) : n \in U
  BY <1>2, <1>3, <1>4, UpTo
<1> QED BY <1>1, <1>2, <1>5 DEF U

(* An entry taken out of a queue. *)
LEMMA Removed ==
  ASSUME NEW S, NEW q \in Seq(S), NEW i \in 1..Len(q)
  PROVE  /\ RemoveAt(q, i) \in Seq(S)
         /\ Len(RemoveAt(q, i)) = Len(q) - 1
         /\ \A n \in 1..Len(q) - 1 : RemoveAt(q, i)[n] = IF n < i THEN q[n] ELSE q[n + 1]
<1> DEFINE a == SubSeq(q, 1, i - 1)
           b == SubSeq(q, i + 1, Len(q))
<1>1. Len(q) \in Nat /\ \A n \in 1..Len(q) : q[n] \in S
  BY LenProperties, ElementOfSeq
<1>2. /\ a \in Seq(S) /\ Len(a) = i - 1
      /\ \A n \in 1..i - 1 : a[n] = q[n]
  <2>1. \A n \in 1..i - 1 : q[n] \in S
    BY <1>1
  <2>2. /\ SubSeq(q, 1, i - 1) \in Seq(S)
        /\ Len(SubSeq(q, 1, i - 1)) = IF 1 <= i - 1 THEN (i - 1) - 1 + 1 ELSE 0
        /\ \A n \in 1..(i - 1) - 1 + 1 : SubSeq(q, 1, i - 1)[n] = q[1 + n - 1]
    BY <1>1, <2>1, SubSeqProperties
  <2> QED BY <1>1, <2>2
<1>3. /\ b \in Seq(S) /\ Len(b) = Len(q) - i
      /\ \A n \in 1..Len(q) - i : b[n] = q[i + n]
  <2>1. \A n \in i + 1..Len(q) : q[n] \in S
    BY <1>1
  <2>2. /\ SubSeq(q, i + 1, Len(q)) \in Seq(S)
        /\ Len(SubSeq(q, i + 1, Len(q))) = IF i + 1 <= Len(q) THEN Len(q) - (i + 1) + 1 ELSE 0
        /\ \A n \in 1..Len(q) - (i + 1) + 1 : SubSeq(q, i + 1, Len(q))[n] = q[(i + 1) + n - 1]
    BY <1>1, <2>1, SubSeqProperties
  <2> QED BY <1>1, <2>2
<1> HIDE DEF a, b
<1>4. /\ a \o b \in Seq(S) /\ Len(a \o b) = Len(a) + Len(b)
      /\ \A n \in 1..Len(a) + Len(b) : (a \o b)[n] = IF n <= Len(a) THEN a[n] ELSE b[n - Len(a)]
  BY <1>2, <1>3, ConcatProperties
<1>5. RemoveAt(q, i) = a \o b
  BY DEF RemoveAt, a, b
<1>6. Len(a \o b) = Len(q) - 1
  BY <1>1, <1>2, <1>3, <1>4
<1>7. ASSUME NEW n \in 1..Len(q) - 1 PROVE (a \o b)[n] = IF n < i THEN q[n] ELSE q[n + 1]
  <2>1. n \in 1..Len(a) + Len(b)
    BY <1>1, <1>2, <1>3
  <2>2. CASE n < i
    <3>1. n <= Len(a) /\ n \in 1..i - 1
      BY <1>1, <1>2, <2>2
    <3> QED BY <1>2, <1>4, <2>1, <2>2, <3>1
  <2>3. CASE ~(n < i)
    <3>1. ~(n <= Len(a)) /\ n - Len(a) \in 1..Len(q) - i /\ i + (n - Len(a)) = n + 1
      BY <1>1, <1>2, <2>3
    <3>2. b[n - Len(a)] = q[n + 1]
      BY <1>3, <3>1
    <3> QED BY <1>4, <2>1, <2>3, <3>1, <3>2
  <2> QED BY <2>2, <2>3
<1> QED BY <1>4, <1>5, <1>6, <1>7

(* A fold does not miss an entry that is nothing to it. *)
LEMMA FoldWithout ==
  ASSUME NEW fold, NEW S, NEW base, NEW q \in Seq(S), NEW i \in 1..Len(q),
         \A r : Step(fold, r, q[i]) = r
  PROVE  Fold(fold, base, RemoveAt(q, i)) = Fold(fold, base, q)
<1>1. PICK f : Runs(fold, f, base, q) /\ f[Len(q)] = Fold(fold, base, q)
  BY FoldRuns
<1>2. /\ Len(q) \in Nat /\ RemoveAt(q, i) \in Seq(S) /\ Len(RemoveAt(q, i)) = Len(q) - 1
      /\ \A n \in 1..Len(q) - 1 : RemoveAt(q, i)[n] = IF n < i THEN q[n] ELSE q[n + 1]
  BY LenProperties, Removed
<1>3. /\ f[0] = base /\ f[i] = f[i - 1]
      /\ \A n \in 1..Len(q) : f[n] = Step(fold, f[n - 1], q[n])
  BY <1>1 DEF Runs
<1> DEFINE g == [n \in 0..Len(q) - 1 |-> IF n < i THEN f[n] ELSE f[n + 1]]
<1>4. /\ \A n \in 0..Len(q) - 1 : n < i => g[n] = f[n]
      /\ \A n \in 0..Len(q) - 1 : n + 1 >= i => g[n] = f[n + 1]
  <2>1. ASSUME NEW n \in 0..Len(q) - 1, n + 1 >= i PROVE g[n] = f[n + 1]
    <3>1. CASE n < i
      <4>1. n + 1 = i /\ n = i - 1
        BY <1>2, <2>1, <3>1
      <4> QED BY <1>3, <3>1, <4>1
    <3>2. CASE ~(n < i)
      BY <3>2
    <3> QED BY <3>1, <3>2
  <2> QED BY <2>1
<1> HIDE DEF g
<1>5. g[0] = base
  <2>1. 0 \in 0..Len(q) - 1 /\ 0 < i
    BY <1>2
  <2> QED BY <1>3, <1>4, <2>1
<1>6. ASSUME NEW n \in 1..Len(q) - 1 PROVE g[n] = Step(fold, g[n - 1], RemoveAt(q, i)[n])
  <2>1. /\ n \in 0..Len(q) - 1 /\ n - 1 \in 0..Len(q) - 1
        /\ n \in 1..Len(q) /\ n + 1 \in 1..Len(q) /\ (n + 1) - 1 = n /\ (n - 1) + 1 = n
    BY <1>2
  <2>2. CASE n < i
    <3>1. g[n] = f[n] /\ g[n - 1] = f[n - 1] /\ RemoveAt(q, i)[n] = q[n]
      BY <1>2, <1>4, <2>1, <2>2
    <3> QED BY <1>3, <2>1, <3>1
  <2>3. CASE ~(n < i)
    <3>1. g[n] = f[n + 1] /\ g[n - 1] = f[n] /\ RemoveAt(q, i)[n] = q[n + 1]
      BY <1>2, <1>4, <2>1, <2>3
    <3> QED BY <1>3, <2>1, <3>1
  <2> QED BY <2>2, <2>3
<1>7. Runs(fold, g, base, RemoveAt(q, i))
  BY <1>2, <1>5, <1>6 DEF Runs
<1>8. g[Len(q) - 1] = f[Len(q)]
  <2>1. Len(q) - 1 \in 0..Len(q) - 1 /\ (Len(q) - 1) + 1 >= i /\ (Len(q) - 1) + 1 = Len(q)
    BY <1>2
  <2> QED BY <1>4, <2>1
<1> QED BY <1>1, <1>2, <1>7, <1>8, FoldIs

-----------------------------------------------------------------------------
\* Snapshots, entries and what is made of them keep their types.

Values == SUBSET (1..MaxWork)

(* The history after a write: its last HistoryLimit values. *)
LEMMA Trimmed ==
  ASSUME NEW h \in Seq(Values), NEW v \in Values
  PROVE  TrimHistory(Append(h, v)) \in Seq(Values)
<1> DEFINE a == Append(h, v)
<1>1. a \in Seq(Values) /\ Len(a) \in Nat /\ \A n \in 1..Len(a) : a[n] \in Values
  BY AppendProperties, LenProperties, ElementOfSeq
<1> HIDE DEF a
<1>2. CASE Len(a) <= HistoryLimit
  BY <1>1, <1>2 DEF TrimHistory, a
<1>3. CASE ~(Len(a) <= HistoryLimit)
  <2>1. Len(a) - HistoryLimit + 1 \in Int /\ \A n \in Len(a) - HistoryLimit + 1..Len(a) : a[n] \in Values
    BY <1>1, <1>3, LimitsPositive
  <2>2. SubSeq(a, Len(a) - HistoryLimit + 1, Len(a)) \in Seq(Values)
    BY <1>1, <2>1, SubSeqProperties
  <2> QED BY <1>3, <2>2 DEF TrimHistory, a
<1> QED BY <1>2, <1>3

(* A mutation makes a snapshot, and a newer one. *)
LEMMA Applied ==
  ASSUME NEW s \in Snapshots, NEW m \in Mutations, CanApply(s, m)
  PROVE  Apply(s, m) \in Snapshots /\ Newer(Apply(s, m), s)
<1>1. /\ s.value \in Values /\ s.history \in Seq(Values) /\ s.vectorClock \in [Peers -> Nat]
      /\ m.kind \in MutationKinds /\ m.op \in 1..MaxWork /\ m.changedBy \in Peers /\ m.timestamp \in Int
  BY DEF Snapshots, Mutations, Values
<1>2. m.kind = "undo" =>
          /\ Len(s.history) \in Nat \ {0} /\ Last(s.history) \in Values
          /\ Front(s.history) \in Seq(Values)
  <2> HAVE m.kind = "undo"
  <2>1. s.history # <<>>
    BY DEF CanApply
  <2>2. Len(s.history) \in Nat \ {0} /\ \A n \in 1..Len(s.history) : s.history[n] \in Values
    BY <1>1, <2>1, EmptySeq, ElementOfSeq
  <2>3. SubSeq(s.history, 1, Len(s.history) - 1) \in Seq(Values)
    BY <2>2, SubSeqProperties
  <2> QED BY <2>2, <2>3 DEF Last, Front
<1>3. NewValue(s, m) \in Values
  BY <1>1, <1>2 DEF NewValue, MutationKinds, Values
<1>4. NewHistory(s, m) \in Seq(Values)
  <2>1. TrimHistory(Append(s.history, s.value)) \in Seq(Values) /\ <<>> \in Seq(Values)
    BY <1>1, Trimmed, EmptySeq
  <2> QED BY <1>1, <1>2, <2>1 DEF NewHistory, MutationKinds
<1> DEFINE c == s.vectorClock
           d == [c EXCEPT ![m.changedBy] = @ + 1]
<1>5. d \in [Peers -> Nat]
  BY <1>1
<1>6. Before(c, d)
  <2>1. d[m.changedBy] = c[m.changedBy] + 1 /\ c[m.changedBy] \in Nat
    BY <1>1
  <2>2. \A p \in Peers : c[p] <= d[p]
    BY <1>1
  <2>3. c # d
    BY <2>1
  <2> HIDE DEF c, d
  <2> QED BY <2>2, <2>3 DEF Before
<1>7. Apply(s, m).vectorClock = d
  BY DEF Apply
<1>8. Newer(Apply(s, m), s)
  <2> HIDE DEF d
  <2> QED BY <1>6, <1>7 DEF Newer
<1>9. Apply(s, m) \in Snapshots
  <2> HIDE DEF d
  <2>1. Apply(s, m) = [value |-> NewValue(s, m), history |-> NewHistory(s, m), vectorClock |-> d,
                       changedBy |-> m.changedBy, timestamp |-> m.timestamp]
    BY DEF Apply, d
  <2> QED BY <1>1, <1>3, <1>4, <1>5, <2>1 DEF Snapshots, Values
<1> QED BY <1>8, <1>9

(* What an entry is. *)
LEMMA EntryIs ==
  ASSUME NEW e \in Entries
  PROVE  /\ e.type = "state" => e.mutation \in Mutations /\ e.snapshot \in Snapshots
         /\ e.type = "event" => e.op \in 1..MaxWork
         /\ e.type \in {"state", "event"}
BY DEF Entries

(* The projection of a queue is a snapshot, and without mutations it is its base. *)
LEMMA ProjectTyped ==
  ASSUME NEW base \in Snapshots, NEW q \in Seq(Entries)
  PROVE  Project(base, q) \in Snapshots
<1> DEFINE T == [n \in 0..Len(q) |-> Snapshots]
<1>0. Len(q) \in Nat
  BY LenProperties
<1>1. ASSUME NEW n \in 1..Len(q), NEW r \in T[n - 1] PROVE Step("project", r, q[n]) \in T[n]
  <2>1. r \in Snapshots /\ T[n] = Snapshots /\ q[n] \in Entries
    BY <1>0, <1>1, ElementOfSeq
  <2>2. Projected(r, q[n]) \in Snapshots
    BY <2>1, EntryIs, Applied DEF Projected, Counts
  <2> QED BY <2>1, <2>2 DEF Step
<1>2. base \in T[0] /\ T[Len(q)] = Snapshots
  BY <1>0
<1> HIDE DEF T
<1>3. Fold("project", base, q) \in T[Len(q)]
  BY <1>1, <1>2, FoldKeeps
<1> QED BY <1>2, <1>3, ProjectFolds

(* A queue without mutations leaves what it is projected over as it was. *)
LEMMA ProjectNothing ==
  ASSUME NEW base, NEW q \in Seq(Entries), ~HasMutations(q)
  PROVE  Project(base, q) = base
<1> DEFINE T == [n \in 0..Len(q) |-> {base}]
<1>0. Len(q) \in Nat /\ DOMAIN q = 1..Len(q)
  BY LenProperties
<1>1. ASSUME NEW n \in 1..Len(q), NEW r \in T[n - 1] PROVE Step("project", r, q[n]) \in T[n]
  <2>1. r = base /\ T[n] = {base} /\ q[n].type # "state"
    BY <1>0, <1>1 DEF HasMutations
  <2> QED BY <2>1 DEF Step, Projected, Counts
<1>2. base \in T[0] /\ T[Len(q)] = {base}
  BY <1>0
<1> HIDE DEF T
<1>3. Fold("project", base, q) \in T[Len(q)]
  BY <1>1, <1>2, FoldKeeps
<1> QED BY <1>2, <1>3, ProjectFolds

-----------------------------------------------------------------------------
\* A replay.

OpOf(e) == IF e.type = "event" THEN e.op ELSE e.mutation.op

Increasing(s) == \A i, j \in DOMAIN s : i < j => s[i] < s[j]

\* What a replay may have come to after n entries of q.
Results(base, q, n) ==
    {r \in [synced : Snapshots, sent : Seq(Snapshots), done : Seq(1..MaxWork)] :
        /\ (\A i \in 1..n : q[i].type = "event") => r.synced = base
        /\ Increasing(r.done)
        /\ \A i \in DOMAIN r.done : \E k \in 1..n : r.done[i] = OpOf(q[k])}

Ordered(q) == \A i, j \in DOMAIN q : i < j => OpOf(q[i]) < OpOf(q[j])

(* An operation after those dispatched before it. *)
LEMMA IncreasingAppend ==
  ASSUME NEW S, NEW s \in Seq(S), NEW o \in S, Increasing(s), \A i \in DOMAIN s : s[i] < o
  PROVE  Increasing(Append(s, o))
<1>1. /\ Len(s) \in Nat /\ DOMAIN s = 1..Len(s) /\ DOMAIN Append(s, o) = 1..Len(s) + 1
      /\ \A n \in 1..Len(s) : Append(s, o)[n] = s[n]
      /\ Append(s, o)[Len(s) + 1] = o
  BY LenProperties, AppendProperties
<1> QED BY <1>1 DEF Increasing

(* A replay ends with a snapshot, sends snapshots, and dispatches in order operations that
   were queued. *)
LEMMA ReplayIs ==
  ASSUME NEW base \in Snapshots, NEW q \in Seq(Entries), Ordered(q)
  PROVE  Replay(base, q) \in Results(base, q, Len(q))
<1> DEFINE T == [n \in 0..Len(q) |-> Results(base, q, n)]
<1>0. Len(q) \in Nat /\ DOMAIN q = 1..Len(q)
  BY LenProperties
<1>1. ASSUME NEW n \in 1..Len(q), NEW r \in T[n - 1] PROVE Step("replay", r, q[n]) \in T[n]
  <2>1. /\ r \in Results(base, q, n - 1) /\ T[n] = Results(base, q, n)
        /\ n \in Nat /\ q[n] \in Entries
    BY <1>0, <1>1, ElementOfSeq
  <2>2. /\ r \in [synced : Snapshots, sent : Seq(Snapshots), done : Seq(1..MaxWork)]
        /\ r.synced \in Snapshots /\ r.sent \in Seq(Snapshots) /\ r.done \in Seq(1..MaxWork)
        /\ Increasing(r.done)
        /\ DOMAIN r.done = 1..Len(r.done) /\ Len(r.done) \in Nat
    BY <2>1, LenProperties DEF Results
  <2>3. \A i \in DOMAIN r.done : \E k \in 1..n - 1 : r.done[i] = OpOf(q[k])
    BY <2>1 DEF Results
  <2>4. (\A i \in 1..n - 1 : q[i].type = "event") => r.synced = base
    BY <2>1 DEF Results
  <2>5. OpOf(q[n]) \in 1..MaxWork
    BY <2>1, EntryIs DEF OpOf, Mutations
  <2> DEFINE more == Append(r.done, OpOf(q[n]))
  <2>6. /\ more \in Seq(1..MaxWork) /\ Increasing(more)
        /\ \A i \in DOMAIN more : \E k \in 1..n : more[i] = OpOf(q[k])
    <3>1. ASSUME NEW i \in DOMAIN r.done PROVE r.done[i] < OpOf(q[n])
      <4>1. PICK k \in 1..n - 1 : r.done[i] = OpOf(q[k])
        BY <2>3
      <4>2. k \in DOMAIN q /\ n \in DOMAIN q /\ k < n
        BY <1>0, <2>1
      <4> QED BY <4>1, <4>2 DEF Ordered
    <3>3. Increasing(more)
      BY <2>2, <2>5, <3>1, IncreasingAppend
    <3>4. /\ more \in Seq(1..MaxWork) /\ Len(more) = Len(r.done) + 1 /\ DOMAIN more = 1..Len(more)
          /\ \A i \in 1..Len(r.done) : more[i] = r.done[i]
          /\ more[Len(r.done) + 1] = OpOf(q[n])
      BY <2>2, <2>5, AppendProperties, LenProperties
    <3> HIDE DEF more
    <3>5. ASSUME NEW i \in DOMAIN more PROVE \E k \in 1..n : more[i] = OpOf(q[k])
      <4>1. CASE i = Len(r.done) + 1
        BY <2>1, <3>4, <4>1
      <4>2. CASE i # Len(r.done) + 1
        <5>1. i \in 1..Len(r.done)
          BY <2>2, <3>4, <4>2
        <5>2. PICK k \in 1..n - 1 : r.done[i] = OpOf(q[k])
          BY <2>2, <2>3, <5>1
        <5>3. k \in 1..n
          BY <2>1
        <5> QED BY <3>4, <5>1, <5>2, <5>3
      <4> QED BY <4>1, <4>2
    <3> QED BY <3>3, <3>4, <3>5
  <2> HIDE DEF more
  <2>7. CASE q[n].type = "event"
    <3>0. ~Counts(r.synced, q[n]) /\ OpOf(q[n]) = q[n].op
      BY <2>7 DEF Counts, OpOf
    <3>1. Replayed(r, q[n]) = [r EXCEPT !.done = more]
      BY <2>7, <3>0 DEF Replayed, more
    <3>2. [r EXCEPT !.done = more] \in Results(base, q, n)
      <4>1. (\A i \in 1..n : q[i].type = "event") => r.synced = base
        <5>1. \A i \in 1..n - 1 : i \in 1..n
          BY <2>1
        <5> QED BY <2>4, <5>1
      <4> QED BY <2>2, <2>6, <4>1 DEF Results
    <3> QED BY <2>1, <3>1, <3>2 DEF Step
  <2>8. CASE q[n].type # "event"
    <3>0. q[n].type = "state" /\ q[n].mutation \in Mutations /\ n \in 1..n
          /\ OpOf(q[n]) = q[n].mutation.op
      BY <2>1, <2>8, EntryIs DEF OpOf
    <3>1. CASE Counts(r.synced, q[n])
      <4> DEFINE s == Apply(r.synced, q[n].mutation)
      <4>1. s \in Snapshots
        BY <2>2, <3>0, <3>1, Applied DEF Counts
      <4>2. Append(r.sent, s) \in Seq(Snapshots)
        BY <2>2, <4>1, AppendProperties
      <4>3. Replayed(r, q[n]) = [synced |-> s, sent |-> Append(r.sent, s), done |-> more]
        BY <3>0, <3>1 DEF Replayed, more
      <4> HIDE DEF s
      <4>4. ~\A i \in 1..n : q[i].type = "event"
        BY <3>0
      <4>5. [synced |-> s, sent |-> Append(r.sent, s), done |-> more] \in Results(base, q, n)
        BY <2>6, <4>1, <4>2, <4>4 DEF Results
      <4> QED BY <2>1, <4>3, <4>5 DEF Step
    <3>2. CASE ~Counts(r.synced, q[n])
      <4>1. Replayed(r, q[n]) = r
        BY <3>0, <3>2 DEF Replayed
      <4>2. \A i \in 1..n - 1 : i \in 1..n
        BY <2>1
      <4>3. \A i \in DOMAIN r.done : \E k \in 1..n : r.done[i] = OpOf(q[k])
        BY <2>3, <4>2
      <4>4. r \in Results(base, q, n)
        BY <2>2, <3>0, <4>3 DEF Results
      <4> QED BY <2>1, <4>1, <4>4 DEF Step
    <3> QED BY <3>1, <3>2
  <2> QED BY <2>7, <2>8
<1>2. Nothing(base) \in T[0] /\ T[Len(q)] = Results(base, q, Len(q))
  <2>1. <<>> \in Seq(Snapshots) /\ <<>> \in Seq(1..MaxWork) /\ DOMAIN <<>> = {}
    BY EmptySeq
  <2>2. Nothing(base) \in Results(base, q, 0)
    BY <2>1 DEF Nothing, Results, Increasing
  <2> QED BY <1>0, <2>2
<1> HIDE DEF T
<1>3. Fold("replay", Nothing(base), q) \in T[Len(q)]
  BY <1>1, <1>2, FoldKeeps
<1> QED BY <1>2, <1>3, ReplayFolds

-----------------------------------------------------------------------------
\* An entry is queued.

EventsOf(q) == {i \in DOMAIN q : q[i].type = "event"}

(* The operation of an entry is a number. *)
LEMMA OpTyped ==
  ASSUME NEW q \in Seq(Entries)
  PROVE  \A i \in DOMAIN q : q[i] \in Entries /\ OpOf(q[i]) \in 1..MaxWork
<1>1. \A i \in DOMAIN q : q[i] \in Entries
  BY LenProperties, ElementOfSeq
<1> QED BY <1>1, EntryIs DEF OpOf, Mutations

(* A queue has finitely many events. *)
LEMMA EventsFinite ==
  ASSUME NEW q \in Seq(Entries)
  PROVE  IsFiniteSet(EventsOf(q)) /\ Cardinality(EventsOf(q)) \in Nat
<1>1. Len(q) \in Nat /\ DOMAIN q = 1..Len(q)
  BY LenProperties
<1>2. IsFiniteSet(1..Len(q)) /\ EventsOf(q) \in SUBSET (1..Len(q))
  BY <1>1, FS_Interval DEF EventsOf
<1> QED BY <1>2, FS_Subset, FS_CardinalityType

(* Appending adds the one event it may be. *)
LEMMA EventsAppended ==
  ASSUME NEW q \in Seq(Entries), NEW e \in Entries
  PROVE  EventsOf(Append(q, e)) =
             IF e.type = "event" THEN EventsOf(q) \cup {Len(q) + 1} ELSE EventsOf(q)
<1>1. /\ Len(q) \in Nat /\ DOMAIN q = 1..Len(q) /\ DOMAIN Append(q, e) = 1..Len(q) + 1
      /\ \A n \in 1..Len(q) : Append(q, e)[n] = q[n]
      /\ Append(q, e)[Len(q) + 1] = e
  BY LenProperties, AppendProperties
<1> QED BY <1>1 DEF EventsOf

(* Removing an event leaves one event less. *)
LEMMA EventsRemoved ==
  ASSUME NEW q \in Seq(Entries), NEW i \in EventsOf(q)
  PROVE  Cardinality(EventsOf(RemoveAt(q, i))) <= Cardinality(EventsOf(q)) - 1
<1> DEFINE r == RemoveAt(q, i)
           f == [n \in EventsOf(r) |-> IF n < i THEN n ELSE n + 1]
<1>1. /\ Len(q) \in Nat /\ DOMAIN q = 1..Len(q) /\ i \in 1..Len(q)
      /\ r \in Seq(Entries) /\ DOMAIN r = 1..Len(q) - 1
      /\ \A n \in 1..Len(q) - 1 : r[n] = IF n < i THEN q[n] ELSE q[n + 1]
  BY Removed, LenProperties DEF EventsOf
<1> HIDE DEF r
<1>2. \A n \in EventsOf(r) : f[n] \in EventsOf(q) \ {i}
  BY <1>1 DEF EventsOf
<1>3. \A m, n \in EventsOf(r) : f[m] = f[n] => m = n
  BY <1>1 DEF EventsOf
<1>4. f \in Injection(EventsOf(r), EventsOf(q) \ {i})
  <2>1. f \in [EventsOf(r) -> EventsOf(q) \ {i}]
    BY <1>2
  <2> HIDE DEF f
  <2>2. DOMAIN f = EventsOf(r)
    BY <2>1
  <2> QED BY <1>3, <2>1, <2>2 DEF Injection, IsInjective
<1>5. /\ IsFiniteSet(EventsOf(q) \ {i})
      /\ Cardinality(EventsOf(q) \ {i}) = Cardinality(EventsOf(q)) - 1
  BY EventsFinite, FS_RemoveElement
<1> QED BY <1>4, <1>5, FS_Injection DEF r

(* What AppendEntry makes of a queue. *)
LEMMA EntryAppended ==
  ASSUME NEW q \in Seq(Entries), NEW e \in Entries, Cardinality(EventsOf(q)) <= EventLimit
  PROVE  /\ Cardinality(EventsOf(AppendEntry(q, e))) <= EventLimit
         /\ \/ AppendEntry(q, e) = Append(q, e)
            \/ /\ e.type = "event"
               /\ \E i \in EventsOf(Append(q, e)) : AppendEntry(q, e) = RemoveAt(Append(q, e), i)
<1> DEFINE all == Append(q, e)
           events == EventsOf(all)
<1>1. /\ all \in Seq(Entries) /\ Len(q) \in Nat
      /\ IsFiniteSet(EventsOf(q)) /\ Cardinality(EventsOf(q)) \in Nat
      /\ EventLimit \in Nat
  BY AppendProperties, LenProperties, EventsFinite, LimitsPositive
<1>2. AppendEntry(q, e) = IF Cardinality(events) <= EventLimit
                          THEN all
                          ELSE RemoveAt(all, CHOOSE i \in events : \A j \in events : i <= j)
  BY DEF AppendEntry, EventsOf
<1>3. events = IF e.type = "event" THEN EventsOf(q) \cup {Len(q) + 1} ELSE EventsOf(q)
  BY EventsAppended
<1>4. /\ IsFiniteSet(events) /\ Cardinality(events) \in Nat
      /\ Cardinality(events) <= EventLimit + 1
      /\ e.type # "event" => Cardinality(events) <= EventLimit
  <2>1. CASE e.type = "event"
    <3>1. events = EventsOf(q) \cup {Len(q) + 1}
      BY <1>3, <2>1
    <3> HIDE DEF events
    <3>2. /\ IsFiniteSet(events)
          /\ Cardinality(events) = IF Len(q) + 1 \in EventsOf(q) THEN Cardinality(EventsOf(q))
                                   ELSE Cardinality(EventsOf(q)) + 1
      BY <1>1, <3>1, FS_AddElement
    <3> QED BY <1>1, <2>1, <3>2
  <2>2. CASE e.type # "event"
    <3>1. events = EventsOf(q)
      BY <1>3, <2>2
    <3> HIDE DEF events
    <3> QED BY <1>1, <3>1
  <2> QED BY <2>1, <2>2
<1>5. events \subseteq Nat
  BY <1>1, LenProperties DEF EventsOf
<1> HIDE DEF all, events
<1>6. CASE Cardinality(events) <= EventLimit
  BY <1>2, <1>6 DEF events, all
<1>7. CASE ~(Cardinality(events) <= EventLimit)
  <2>1. events # {}
    <3>1. events = {} => Cardinality(events) = 0
      BY FS_EmptySet
    <3> QED BY <1>1, <1>7, <3>1
  <2>2. PICK k \in events : \A j \in events : k <= j
    BY <1>5, <2>1, Least
  <2> DEFINE i == CHOOSE i \in events : \A j \in events : i <= j
  <2>3. i \in events
    BY <2>2
  <2>4. AppendEntry(q, e) = RemoveAt(all, i)
    BY <1>2, <1>7
  <2> HIDE DEF i
  <2>5. Cardinality(EventsOf(RemoveAt(all, i))) <= Cardinality(events) - 1
    BY <1>1, <2>3, EventsRemoved DEF events
  <2>6. Cardinality(EventsOf(RemoveAt(all, i))) \in Nat
    <3>1. i \in 1..Len(all)
      BY <1>1, <2>3, LenProperties DEF events, EventsOf
    <3> QED BY <1>1, <3>1, Removed, EventsFinite
  <2>7. e.type = "event"
    BY <1>4, <1>7
  <2>8. Cardinality(EventsOf(RemoveAt(all, i))) <= EventLimit
    BY <1>1, <1>4, <2>5, <2>6
  <2> QED BY <2>3, <2>4, <2>7, <2>8 DEF events, all
<1> QED BY <1>6, <1>7

(* Whatever it drops, the projection shows the new entry over the old ones. *)
LEMMA EntryProjected ==
  ASSUME NEW q \in Seq(Entries), NEW e \in Entries, Cardinality(EventsOf(q)) <= EventLimit,
         NEW base
  PROVE  Project(base, AppendEntry(q, e)) = Projected(Project(base, q), e)
<1>1. Append(q, e) \in Seq(Entries)
  BY AppendProperties
<1>2. Project(base, Append(q, e)) = Projected(Project(base, q), e)
  BY FoldAppend, ProjectFolds DEF Step
<1>3. ASSUME NEW i \in EventsOf(Append(q, e))
      PROVE  Project(base, RemoveAt(Append(q, e), i)) = Project(base, Append(q, e))
  <2>1. i \in 1..Len(Append(q, e)) /\ Append(q, e)[i].type = "event"
    BY <1>1, <1>3, LenProperties DEF EventsOf
  <2>2. \A r : Step("project", r, Append(q, e)[i]) = r
    BY <2>1 DEF Step, Projected, Counts
  <2>3. Fold("project", base, RemoveAt(Append(q, e), i)) = Fold("project", base, Append(q, e))
    BY <1>1, <2>1, <2>2, FoldWithout
  <2> QED BY <2>3, ProjectFolds
<1> QED BY <1>2, <1>3, EntryAppended

(* Its entries are the old ones and the new one, in order. *)
LEMMA EntryOrdered ==
  ASSUME NEW q \in Seq(Entries), NEW e \in Entries, Cardinality(EventsOf(q)) <= EventLimit,
         Ordered(q), \A i \in DOMAIN q : OpOf(q[i]) < OpOf(e)
  PROVE  /\ AppendEntry(q, e) \in Seq(Entries)
         /\ Ordered(AppendEntry(q, e))
         /\ \A i \in DOMAIN AppendEntry(q, e) :
                AppendEntry(q, e)[i] = e \/ \E k \in DOMAIN q : AppendEntry(q, e)[i] = q[k]
<1> DEFINE all == Append(q, e)
           Good(s) == /\ s \in Seq(Entries) /\ Ordered(s)
                      /\ \A i \in DOMAIN s : s[i] = e \/ \E k \in DOMAIN q : s[i] = q[k]
<1>1. /\ Len(q) \in Nat /\ DOMAIN q = 1..Len(q)
      /\ all \in Seq(Entries) /\ Len(all) = Len(q) + 1 /\ DOMAIN all = 1..Len(q) + 1
      /\ \A n \in 1..Len(q) : all[n] = q[n]
      /\ all[Len(q) + 1] = e
  BY LenProperties, AppendProperties
<1> HIDE DEF all
<1>2. Good(all)
  <2>1. Ordered(all)
    <3> SUFFICES ASSUME NEW i \in 1..Len(q) + 1, NEW j \in 1..Len(q) + 1, i < j
                 PROVE  OpOf(all[i]) < OpOf(all[j])
      BY <1>1 DEF Ordered
    <3>1. i \in 1..Len(q)
      BY <1>1
    <3>2. CASE j = Len(q) + 1
      BY <1>1, <3>1, <3>2
    <3>3. CASE j # Len(q) + 1
      <4>1. j \in 1..Len(q)
        BY <1>1, <3>3
      <4> QED BY <1>1, <3>1, <4>1 DEF Ordered
    <3> QED BY <3>2, <3>3
  <2>2. ASSUME NEW i \in DOMAIN all PROVE all[i] = e \/ \E k \in DOMAIN q : all[i] = q[k]
    BY <1>1
  <2> QED BY <1>1, <2>1, <2>2
<1>3. ASSUME NEW i \in EventsOf(all) PROVE Good(RemoveAt(all, i))
  <2> DEFINE r == RemoveAt(all, i)
  <2>1. /\ i \in 1..Len(all) /\ r \in Seq(Entries) /\ DOMAIN r = 1..Len(q)
        /\ \A n \in 1..Len(q) : r[n] = IF n < i THEN all[n] ELSE all[n + 1]
    <3>1. i \in 1..Len(all)
      BY <1>1, <1>3 DEF EventsOf
    <3>2. r \in Seq(Entries) /\ Len(r) = Len(all) - 1
          /\ \A n \in 1..Len(all) - 1 : r[n] = IF n < i THEN all[n] ELSE all[n + 1]
      BY <1>1, <3>1, Removed
    <3>3. Len(all) - 1 = Len(q)
      BY <1>1
    <3> HIDE DEF r
    <3> QED BY <3>1, <3>2, <3>3, LenProperties
  <2> HIDE DEF r
  <2>2. ASSUME NEW n \in 1..Len(q) PROVE \E k \in 1..Len(q) + 1 : k = (IF n < i THEN n ELSE n + 1) /\ r[n] = all[k]
    BY <1>1, <2>1
  <2>3. Ordered(r)
    <3> SUFFICES ASSUME NEW m \in 1..Len(q), NEW n \in 1..Len(q), m < n
                 PROVE  OpOf(r[m]) < OpOf(r[n])
      BY <2>1 DEF Ordered
    <3>1. PICK k \in 1..Len(q) + 1 : k = (IF m < i THEN m ELSE m + 1) /\ r[m] = all[k]
      BY <2>2
    <3>2. PICK l \in 1..Len(q) + 1 : l = (IF n < i THEN n ELSE n + 1) /\ r[n] = all[l]
      BY <2>2
    <3>3. k < l
      BY <1>1, <2>1, <3>1, <3>2
    <3> QED BY <1>1, <1>2, <3>1, <3>2, <3>3 DEF Ordered
  <2>4. ASSUME NEW n \in DOMAIN r PROVE r[n] = e \/ \E k \in DOMAIN q : r[n] = q[k]
    <3>1. PICK k \in 1..Len(q) + 1 : r[n] = all[k]
      BY <2>1, <2>2
    <3> QED BY <1>1, <1>2, <3>1
  <2> QED BY <2>1, <2>3, <2>4 DEF r
<1>4. \/ AppendEntry(q, e) = all
      \/ \E i \in EventsOf(all) : AppendEntry(q, e) = RemoveAt(all, i)
  BY EntryAppended DEF all
<1>5. Good(AppendEntry(q, e))
  <2>1. CASE AppendEntry(q, e) = all
    BY <1>2, <2>1
  <2>2. ASSUME NEW i \in EventsOf(all), AppendEntry(q, e) = RemoveAt(all, i)
        PROVE  Good(AppendEntry(q, e))
    BY <1>3, <2>2
  <2> HIDE DEF Good
  <2> QED BY <1>4, <2>1, <2>2
<1> QED BY <1>5

-----------------------------------------------------------------------------
\* What p has dispatched and what it has queued are in the order of their operations, and
\* nothing queued is older than what was dispatched.
InOrder(p) ==
    /\ Ordered(queue[p]) /\ Increasing(log[p])
    /\ \A k \in DOMAIN queue[p] : OpOf(queue[p][k]) <= ops
    /\ \A i \in DOMAIN log[p] : log[p][i] <= ops
    /\ \A i \in DOMAIN log[p], k \in DOMAIN queue[p] : log[p][i] < OpOf(queue[p][k])

SharedInv == IInv /\ TypeOK /\ ShownIsProjection /\ \A p \in Peers : InOrder(p)

(* What a room was told that it keeps is a snapshot; what it sends is signals. *)
LEMMA SignalIs ==
  ASSUME NEW s \in Signals
  PROVE  /\ s.from \in Peers
         /\ s.message.type = "state:update" => s.message.snapshot \in Snapshots
BY DEF Signals, Messages, Hello, Welcome

(* What a room sends is a signal. *)
LEMMA SignalsTyped ==
  ASSUME NEW p \in Peers, NEW to \in Peers \cup {Everyone}
  PROVE  /\ Signal(p, to, Hello) \in Signals /\ Signal(p, to, Welcome) \in Signals
         /\ \A s \in Snapshots : Signal(p, to, StateUpdate(s)) \in Signals
BY DEF Signal, Signals, Messages, Hello, Welcome, StateUpdate

(* Short sequences of signals. *)
LEMMA ShortSeqs ==
  ASSUME NEW S
  PROVE  /\ <<>> \in Seq(S)
         /\ \A a \in S : <<a>> \in Seq(S)
         /\ \A s, t \in Seq(S) : s \o t \in Seq(S)
BY EmptySeq, ConcatProperties

(* The snapshot that is sent to a newcomer, or none, is a sequence of signals. *)
LEMMA SnapshotForTyped ==
  ASSUME TypeOK, NEW p \in Peers, NEW to \in Peers \cup {Everyone}
  PROVE  SnapshotFor(p, to) \in Seq(Signals)
<1>1. shown[p] \in Snapshots
  BY DEF TypeOK
<1> QED BY <1>1, SignalsTyped, ShortSeqs DEF SnapshotFor

(* What is sent goes on its way, or nowhere. *)
LEMMA SendTyped ==
  ASSUME TypeOK, NEW p \in Peers, NEW signals \in Seq(Signals), Send(p, signals)
  PROVE  outbox' \in [Peers -> Seq(Signals)]
<1>1. outbox[p] \o signals \in Seq(Signals)
  BY ShortSeqs DEF TypeOK
<1> QED BY <1>1 DEF TypeOK, Send

(* The types of a peer's own state. *)
LEMMA OwnTyped ==
  ASSUME TypeOK, NEW p \in Peers
  PROVE  /\ shown[p] \in Snapshots /\ synced[p] \in Snapshots /\ queue[p] \in Seq(Entries)
         /\ Cardinality(EventsOf(queue[p])) <= EventLimit
         /\ outbox[p] \in Seq(Signals) /\ inbox[p] \in Seq(Signals) /\ log[p] \in Seq(1..MaxWork)
         /\ Skew[p] \in Int /\ clock \in Nat /\ ops \in Nat /\ work \in Nat /\ MaxWork \in Nat
         /\ ops <= work
BY SkewOfPeers, BoundsNatural DEF TypeOK, EventsOf

(* The parts of TypeOK that are not about the connection, the timer or the bounds. *)
StatesTyped ==
    /\ shown \in [Peers -> Snapshots]
    /\ synced \in [Peers -> Snapshots]
    /\ queue \in [Peers -> Seq(Entries)]
    /\ \A p \in Peers : Cardinality(EventsOf(queue[p])) <= EventLimit
NetTyped ==
    /\ outbox \in [Peers -> Seq(Signals)]
    /\ inbox \in [Peers -> Seq(Signals)]
RestTyped ==
    /\ connectedOnce \in [Peers -> BOOLEAN]
    /\ clock \in Nat /\ ops \in 0..MaxWork /\ work \in ops..MaxWork

(* TypeOK is the conjunction of its parts. *)
LEMMA TypeOKParts ==
  TypeOK <=> /\ link \in [Peers -> Links] /\ timer \in [Peers -> BOOLEAN]
             /\ window \in [Peers -> BOOLEAN]
             /\ StatesTyped /\ NetTyped /\ RestTyped /\ log \in [Peers -> Seq(1..MaxWork)]
BY DEF TypeOK, StatesTyped, NetTyped, RestTyped, EventsOf

\* What a step may not break, apart from the control that ArmedStep looks after.
Data ==
    /\ StatesTyped /\ log \in [Peers -> Seq(1..MaxWork)]
    /\ ShownIsProjection /\ \A p \in Peers : InOrder(p)

(* The invariant is the conjunction of what the steps are shown to keep one by one. *)
LEMMA SharedParts ==
  SharedInv <=> IInv /\ NetTyped /\ RestTyped /\ Data
BY TypeOKParts DEF SharedInv, Data, IInv, ControlOK

(* So it is after a step. *)
LEMMA SharedPartsNext ==
  IInv' /\ NetTyped' /\ RestTyped' /\ Data' => SharedInv'
<1>1. SharedInv' <=> IInv' /\ NetTyped' /\ RestTyped' /\ Data'
  BY SharedParts, PTL
<1> QED BY <1>1

(* A step that leaves the states, the log and the count of operations alone. *)
LEMMA DataSame ==
  ASSUME Data, UNCHANGED states, UNCHANGED log, ops' = ops
  PROVE  Data'
BY DEF Data, states, StatesTyped, ShownIsProjection, InOrder

(* What p shows and shares may change together, if it shows the projection. *)
LEMMA DataShown ==
  ASSUME Data, NEW p \in Peers, NEW s \in Snapshots,
         synced' = [synced EXCEPT ![p] = s],
         shown' = [shown EXCEPT ![p] = Project(s, queue[p])],
         UNCHANGED <<queue, log, ops>>
  PROVE  Data'
<1>0. queue' = queue /\ log' = log /\ ops' = ops
  OBVIOUS
<1>1. Project(s, queue[p]) \in Snapshots
  BY ProjectTyped DEF Data, StatesTyped
<1>2. StatesTyped'
  BY <1>0, <1>1 DEF Data, StatesTyped
<1>3. ShownIsProjection'
  BY <1>0 DEF Data, ShownIsProjection, StatesTyped
<1>4. \A r \in Peers : InOrder(r)'
  BY <1>0 DEF Data, InOrder
<1> QED BY <1>0, <1>2, <1>3, <1>4 DEF Data

(* A queue that is dropped or has been replayed: p shows what it shares. *)
LEMMA DataEmptied ==
  ASSUME Data, RestTyped, NEW p \in Peers, NEW s \in Snapshots, NEW dispatched \in Seq(1..MaxWork),
         synced' = [synced EXCEPT ![p] = s],
         shown' = [shown EXCEPT ![p] = s],
         queue' = [queue EXCEPT ![p] = <<>>],
         log' = [log EXCEPT ![p] = dispatched],
         Increasing(dispatched), \A i \in DOMAIN dispatched : dispatched[i] <= ops,
         ops' = ops
  PROVE  Data'
<1>0. <<>> \in Seq(Entries) /\ DOMAIN <<>> = {} /\ EventsOf(<<>>) = {} /\ Cardinality({}) = 0
  BY EmptySeq, FS_EmptySet DEF EventsOf
<1>1. StatesTyped'
  <2>1. Cardinality(EventsOf(<<>>)) <= EventLimit
    <3>1. Cardinality(EventsOf(<<>>)) = 0
      BY <1>0, Zenon
    <3>2. 0 <= EventLimit
      BY LimitsPositive
    <3> QED BY <3>1, <3>2
  <2>2. \A r \in Peers : queue'[r] = queue[r] \/ queue'[r] = <<>>
    BY DEF Data, StatesTyped
  <2>3. \A r \in Peers : Cardinality(EventsOf(queue'[r])) <= EventLimit
    BY <2>1, <2>2 DEF Data, StatesTyped
  <2> QED BY <1>0, <2>3 DEF Data, StatesTyped, EventsOf
<1>2. ShownIsProjection'
  <2>1. Project(s, <<>>) = s
    BY FoldEmpty, ProjectFolds
  <2> QED BY <2>1 DEF Data, ShownIsProjection, StatesTyped
<1>3. ASSUME NEW r \in Peers PROVE InOrder(r)'
  <2>1. CASE r # p
    <3>1. queue'[r] = queue[r] /\ log'[r] = log[r] /\ InOrder(r)
      BY <2>1 DEF Data
    <3> QED BY <3>1 DEF InOrder
  <2>2. CASE r = p
    <3>1. queue'[r] = <<>> /\ log'[r] = dispatched
      BY <2>2 DEF Data, StatesTyped
    <3> QED BY <1>0, <3>1 DEF InOrder, Ordered
  <2> QED BY <2>1, <2>2
<1> QED BY <1>1, <1>2, <1>3 DEF Data

(* An operation that is queued: the newest, shown over the others. *)
LEMMA DataQueued ==
  ASSUME Data, RestTyped, NEW p \in Peers, NEW e \in Entries, OpOf(e) = ops + 1,
         synced' = synced, log' = log, ops' = ops + 1,
         shown' = [shown EXCEPT ![p] = Projected(@, e)],
         queue' = [queue EXCEPT ![p] = AppendEntry(@, e)]
  PROVE  Data'
<1>1. /\ shown[p] \in Snapshots /\ synced[p] \in Snapshots /\ queue[p] \in Seq(Entries)
      /\ Cardinality(EventsOf(queue[p])) <= EventLimit /\ ops \in Nat /\ InOrder(p)
      /\ log[p] \in Seq(1..MaxWork)
  BY DEF Data, StatesTyped, RestTyped
<1>2. \A i \in DOMAIN queue[p] : OpOf(queue[p][i]) < OpOf(e)
  BY <1>1, OpTyped DEF InOrder
<1>3. /\ AppendEntry(queue[p], e) \in Seq(Entries) /\ Ordered(AppendEntry(queue[p], e))
      /\ \A i \in DOMAIN AppendEntry(queue[p], e) :
             \/ AppendEntry(queue[p], e)[i] = e
             \/ \E k \in DOMAIN queue[p] : AppendEntry(queue[p], e)[i] = queue[p][k]
      /\ Cardinality(EventsOf(AppendEntry(queue[p], e))) <= EventLimit
  <2>1. Ordered(queue[p])
    BY <1>1 DEF InOrder
  <2> QED BY <1>1, <1>2, <2>1, EntryOrdered, EntryAppended
<1>4. Project(synced[p], AppendEntry(queue[p], e)) = Projected(shown[p], e)
  <2>1. shown[p] = Project(synced[p], queue[p])
    BY DEF Data, ShownIsProjection
  <2> QED BY <1>1, <2>1, EntryProjected
<1>5. Projected(shown[p], e) \in Snapshots
  BY <1>1, Applied, EntryIs DEF Projected, Counts
<1> DEFINE new == AppendEntry(queue[p], e)
           view == Projected(shown[p], e)
<1>6. /\ queue' = [queue EXCEPT ![p] = new] /\ shown' = [shown EXCEPT ![p] = view]
      /\ queue'[p] = new /\ \A r \in Peers : r # p => queue'[r] = queue[r]
      /\ shown'[p] = view /\ \A r \in Peers : r # p => shown'[r] = shown[r]
  BY DEF Data, StatesTyped
<1> HIDE DEF new, view
<1>7. StatesTyped'
  <2>1. \A r \in Peers : Cardinality(EventsOf(queue'[r])) <= EventLimit
    BY <1>3, <1>6 DEF Data, StatesTyped, new
  <2>2. queue' \in [Peers -> Seq(Entries)] /\ shown' \in [Peers -> Snapshots]
    BY <1>3, <1>5, <1>6 DEF Data, StatesTyped, new, view
  <2> QED BY <2>1, <2>2 DEF Data, StatesTyped, EventsOf
<1>8. ShownIsProjection'
  BY <1>4, <1>6 DEF Data, ShownIsProjection, new, view
<1>9. ASSUME NEW r \in Peers PROVE InOrder(r)'
  <2>1. CASE r # p
    <3>1. queue'[r] = queue[r] /\ log'[r] = log[r] /\ InOrder(r)
      BY <1>6, <2>1 DEF Data
    <3>2. /\ queue[r] \in Seq(Entries) /\ log[r] \in Seq(1..MaxWork)
          /\ \A k \in DOMAIN queue[r] : OpOf(queue[r][k]) \in Nat
          /\ \A i \in DOMAIN log[r] : log[r][i] \in Nat
      <4>1. queue[r] \in Seq(Entries) /\ log[r] \in Seq(1..MaxWork)
        BY DEF Data, StatesTyped
      <4>2. \A i \in DOMAIN log[r] : log[r][i] \in 1..MaxWork
        BY <4>1, LenProperties, ElementOfSeq
      <4> QED BY <4>1, <4>2, OpTyped
    <3>3. \A k \in DOMAIN queue[r] : OpOf(queue[r][k]) <= ops + 1
      BY <1>1, <3>1, <3>2 DEF InOrder
    <3>4. \A i \in DOMAIN log[r] : log[r][i] <= ops + 1
      BY <1>1, <3>1, <3>2 DEF InOrder
    <3> QED BY <3>1, <3>3, <3>4 DEF InOrder
  <2>2. CASE r = p
    <3>1. queue'[r] = new /\ log'[r] = log[p] /\ r = p
      BY <1>6, <2>2
    <3>2. \A i \in DOMAIN log[p] : log[p][i] \in Nat /\ log[p][i] <= ops
      <4>1. \A i \in DOMAIN log[p] : log[p][i] \in 1..MaxWork
        BY <1>1, LenProperties, ElementOfSeq
      <4> QED BY <1>1, <4>1 DEF InOrder
    <3>3. \A k \in DOMAIN new : OpOf(new[k]) = ops + 1 \/ \E l \in DOMAIN queue[p] : new[k] = queue[p][l]
      BY <1>3 DEF new
    <3>4. \A k \in DOMAIN new : OpOf(new[k]) <= ops + 1
      BY <1>1, <1>2, <3>3, OpTyped DEF InOrder
    <3>5. \A i \in DOMAIN log[p], k \in DOMAIN new : log[p][i] < OpOf(new[k])
      BY <1>1, <3>2, <3>3 DEF InOrder
    <3>6. \A i \in DOMAIN log[p] : log[p][i] <= ops + 1
      BY <1>1, <3>2
    <3>7. Ordered(new) /\ Increasing(log[p])
      BY <1>1, <1>3 DEF InOrder, new
    <3> QED BY <3>1, <3>4, <3>5, <3>6, <3>7 DEF InOrder
  <2> QED BY <2>1, <2>2
<1> QED BY <1>7, <1>8, <1>9 DEF Data

-----------------------------------------------------------------------------
\* Each action.

(* An operation that goes to the others at once, when nothing is queued. *)
LEMMA DataDispatched ==
  ASSUME Data, RestTyped, NEW p \in Peers, NEW s \in Snapshots, queue[p] = <<>>,
         ops + 1 \in 1..MaxWork, ops' = ops + 1,
         synced' = [synced EXCEPT ![p] = s],
         shown' = [shown EXCEPT ![p] = s],
         queue' = queue,
         log' = IF HasTransport(p) THEN [log EXCEPT ![p] = Append(@, ops')] ELSE log
  PROVE  Data'
<1>1. /\ ops \in Nat /\ InOrder(p) /\ log[p] \in Seq(1..MaxWork) /\ DOMAIN <<>> = {}
  BY EmptySeq DEF Data, RestTyped
<1>2. \A r \in Peers : \A i \in DOMAIN log[r] : log[r][i] \in Nat
  <2>1. \A r \in Peers : log[r] \in Seq(1..MaxWork)
    BY DEF Data
  <2>2. \A r \in Peers : \A i \in DOMAIN log[r] : log[r][i] \in 1..MaxWork
    BY <2>1, LenProperties, ElementOfSeq
  <2> QED BY <2>2
<1>3. \A r \in Peers : \A k \in DOMAIN queue[r] : OpOf(queue[r][k]) \in Nat
  <2>1. \A r \in Peers : queue[r] \in Seq(Entries)
    BY DEF Data, StatesTyped
  <2> QED BY <2>1, OpTyped
<1> DEFINE new == Append(log[p], ops + 1)
<1>4. new \in Seq(1..MaxWork) /\ Increasing(new) /\ \A i \in DOMAIN new : new[i] <= ops + 1
  <2>1. \A i \in DOMAIN log[p] : log[p][i] < ops + 1
    BY <1>1, <1>2 DEF InOrder
  <2>2. Increasing(new)
    <3>1. Increasing(log[p])
      BY <1>1 DEF InOrder
    <3> QED BY <1>1, <2>1, <3>1, IncreasingAppend
  <2>3. /\ new \in Seq(1..MaxWork) /\ Len(log[p]) \in Nat /\ DOMAIN log[p] = 1..Len(log[p])
        /\ DOMAIN new = 1..Len(log[p]) + 1
        /\ \A i \in 1..Len(log[p]) : new[i] = log[p][i]
        /\ new[Len(log[p]) + 1] = ops + 1
    BY <1>1, AppendProperties, LenProperties
  <2> HIDE DEF new
  <2>4. ASSUME NEW i \in DOMAIN new PROVE new[i] <= ops + 1
    <3>1. CASE i = Len(log[p]) + 1
      BY <1>1, <2>3, <3>1
    <3>2. CASE i # Len(log[p]) + 1
      <4>1. i \in 1..Len(log[p])
        BY <2>3, <3>2
      <4>2. new[i] = log[p][i] /\ log[p][i] < ops + 1 /\ log[p][i] \in Nat
        BY <1>2, <2>1, <2>3, <4>1
      <4> QED BY <1>1, <4>2
    <3> QED BY <3>1, <3>2
  <2> QED BY <2>2, <2>3, <2>4
<1>5. log' = IF HasTransport(p) THEN [log EXCEPT ![p] = new] ELSE log
  OBVIOUS
<1> HIDE DEF new
<1>6. StatesTyped' /\ log' \in [Peers -> Seq(1..MaxWork)]
  BY <1>4, <1>5 DEF Data, StatesTyped
<1>7. ShownIsProjection'
  <2>1. Project(s, queue[p]) = s
    BY FoldEmpty, ProjectFolds
  <2> QED BY <2>1 DEF Data, ShownIsProjection, StatesTyped
<1>8. ASSUME NEW r \in Peers PROVE InOrder(r)'
  <2>1. CASE log'[r] = log[r]
    <3>1. InOrder(r) /\ queue'[r] = queue[r]
      BY DEF Data
    <3>2. \A i \in DOMAIN log[r] : log[r][i] <= ops + 1
      BY <1>1, <1>2, <3>1 DEF InOrder
    <3>3. \A k \in DOMAIN queue[r] : OpOf(queue[r][k]) <= ops + 1
      BY <1>1, <1>3, <3>1 DEF InOrder
    <3> QED BY <2>1, <3>1, <3>2, <3>3 DEF InOrder
  <2>2. CASE r = p /\ log'[r] = new
    <3>1. queue'[r] = <<>>
      BY <2>2
    <3> QED BY <1>1, <1>4, <2>2, <3>1 DEF InOrder, Ordered
  <2>3. (r = p /\ log'[r] = new) \/ log'[r] = log[r]
    BY <1>5 DEF Data
  <2> QED BY <2>1, <2>2, <2>3
<1> QED BY <1>6, <1>7, <1>8 DEF Data

(* An operation is numbered, within the bound, and takes its time. *)
LEMMA BudgetKept ==
  ASSUME TypeOK, NEW p \in Peers, NEW at \in Nat, NextOperation(p, at)
  PROVE  RestTyped' /\ ops' = ops + 1 /\ ops + 1 \in 1..MaxWork /\ inbox' = inbox
<1>1. /\ work < MaxWork /\ work' = work + 1 /\ ops' = ops + 1 /\ clock' = at /\ inbox' = inbox
      /\ connectedOnce' = connectedOnce
  BY DEF NextOperation, Work
<1>2. ops \in Nat /\ work \in Nat /\ MaxWork \in Nat /\ ops <= work /\ connectedOnce \in [Peers -> BOOLEAN]
  BY BoundsNatural DEF TypeOK
<1> QED BY <1>1, <1>2 DEF RestTyped

(* state.set, update and undo, queued or at once. *)
LEMMA MutateKeeps ==
  ASSUME SharedInv, NEW p \in Peers, NEW kind \in Kinds[p], Mutate(p, kind)
  PROVE  NetTyped' /\ RestTyped' /\ Data'
<1>1. PICK d \in Advance :
        LET m == [kind |-> kind, op |-> ops + 1, changedBy |-> p,
                  timestamp |-> clock + d + Skew[p]]
            s == Apply(shown[p], m)
        IN  /\ Running(p)
            /\ CanApply(shown[p], m)
            /\ NextOperation(p, clock + d)
            /\ shown' = [shown EXCEPT ![p] = s]
            /\ IF ShouldQueue(p)
               THEN Enqueue(p, StateEntry(m, s)) /\ UNCHANGED synced
               ELSE /\ synced' = [synced EXCEPT ![p] = s]
                    /\ Dispatch(p, <<ToAll(p, StateUpdate(s))>>)
  BY DEF Mutate
<1> DEFINE m == [kind |-> kind, op |-> ops + 1, changedBy |-> p,
                 timestamp |-> clock + d + Skew[p]]
           s == Apply(shown[p], m)
<1>2. /\ CanApply(shown[p], m) /\ NextOperation(p, clock + d)
      /\ shown' = [shown EXCEPT ![p] = s]
      /\ ShouldQueue(p) => Enqueue(p, StateEntry(m, s)) /\ synced' = synced
      /\ ~ShouldQueue(p) => /\ synced' = [synced EXCEPT ![p] = s]
                            /\ Dispatch(p, <<ToAll(p, StateUpdate(s))>>)
  BY <1>1
<1>3. TypeOK /\ Data /\ RestTyped /\ NetTyped
  BY SharedParts DEF SharedInv
<1>4. clock + d \in Nat /\ clock + d + Skew[p] \in Int
  BY <1>3, OwnTyped, TimeGoesOn
<1>5. RestTyped' /\ ops' = ops + 1 /\ ops + 1 \in 1..MaxWork /\ inbox' = inbox
  BY <1>2, <1>3, <1>4, BudgetKept
<1>6. m \in Mutations /\ m.op = ops + 1
  <2>1. kind \in MutationKinds
    BY KindsOfPeers
  <2> QED BY <1>4, <1>5, <2>1 DEF Mutations
<1> HIDE DEF m
<1>7. s \in Snapshots /\ Newer(s, shown[p])
  BY <1>2, <1>3, <1>6, Applied, OwnTyped
<1> HIDE DEF s
<1>8. CASE ShouldQueue(p)
  <2> DEFINE e == StateEntry(m, s)
  <2>1. e \in Entries /\ OpOf(e) = ops + 1
    BY <1>6, <1>7 DEF StateEntry, Entries, OpOf
  <2>2. Projected(shown[p], e) = s
    <3>1. e.type = "state" /\ e.snapshot = s /\ e.mutation = m
      BY DEF StateEntry
    <3> HIDE DEF e
    <3> QED BY <1>2, <1>7, <3>1 DEF Projected, Counts, s
  <2>3. /\ queue' = [queue EXCEPT ![p] = AppendEntry(@, e)]
        /\ outbox' = outbox /\ log' = log /\ synced' = synced
    BY <1>2, <1>8 DEF Enqueue
  <2> HIDE DEF e
  <2>4. shown' = [shown EXCEPT ![p] = Projected(@, e)]
    BY <1>2, <2>2
  <2>5. Data'
    BY <1>3, <1>5, <2>1, <2>3, <2>4, DataQueued
  <2>6. NetTyped'
    BY <1>3, <1>5, <2>3 DEF NetTyped
  <2> QED BY <1>5, <2>5, <2>6
<1>9. CASE ~ShouldQueue(p)
  <2>1. queue[p] = <<>>
    BY <1>9 DEF ShouldQueue
  <2>2. /\ Send(p, <<ToAll(p, StateUpdate(s))>>) /\ queue' = queue
        /\ log' = IF HasTransport(p) THEN [log EXCEPT ![p] = Append(@, ops')] ELSE log
        /\ synced' = [synced EXCEPT ![p] = s]
    BY <1>2, <1>9 DEF Dispatch
  <2>3. <<ToAll(p, StateUpdate(s))>> \in Seq(Signals)
    BY <1>7, SignalsTyped, ShortSeqs DEF ToAll
  <2>4. NetTyped'
    BY <1>3, <1>5, <2>2, <2>3, SendTyped DEF NetTyped
  <2>5. Data'
    BY <1>2, <1>3, <1>5, <1>7, <2>1, <2>2, DataDispatched
  <2> QED BY <1>5, <2>4, <2>5
<1> QED BY <1>8, <1>9

(* room.emit, queued or at once. *)
LEMMA EmitKeeps ==
  ASSUME SharedInv, NEW p \in Peers, Emit(p)
  PROVE  NetTyped' /\ RestTyped' /\ Data'
<1>1. TypeOK /\ Data /\ RestTyped /\ NetTyped
  BY SharedParts DEF SharedInv
<1>2. NextOperation(p, clock) /\ shown' = shown /\ synced' = synced
  BY DEF Emit
<1>3. RestTyped' /\ ops' = ops + 1 /\ ops + 1 \in 1..MaxWork /\ inbox' = inbox
  BY <1>1, <1>2, BudgetKept, OwnTyped
<1>4. shown \in [Peers -> Snapshots] /\ synced \in [Peers -> Snapshots]
  BY <1>1 DEF TypeOK
<1>5. CASE ShouldQueue(p)
  <2> DEFINE e == EventEntry(ops + 1)
  <2>1. e \in Entries /\ OpOf(e) = ops + 1 /\ e.type = "event"
    BY <1>3 DEF EventEntry, Entries, OpOf
  <2>2. /\ queue' = [queue EXCEPT ![p] = AppendEntry(@, e)]
        /\ outbox' = outbox /\ log' = log
    BY <1>5 DEF Emit, Enqueue
  <2> HIDE DEF e
  <2>3. Projected(shown[p], e) = shown[p]
    BY <2>1 DEF Projected, Counts
  <2>4. shown' = [shown EXCEPT ![p] = Projected(@, e)]
    BY <1>2, <1>4, <2>3
  <2>5. Data'
    BY <1>1, <1>2, <1>3, <2>1, <2>2, <2>4, DataQueued
  <2>6. NetTyped'
    BY <1>1, <1>3, <2>2 DEF NetTyped
  <2> QED BY <1>3, <2>5, <2>6
<1>6. CASE ~ShouldQueue(p)
  <2>1. queue[p] = <<>>
    BY <1>6 DEF ShouldQueue
  <2>2. /\ Send(p, <<>>) /\ queue' = queue
        /\ log' = IF HasTransport(p) THEN [log EXCEPT ![p] = Append(@, ops')] ELSE log
    BY <1>6 DEF Emit, Dispatch
  <2>3. NetTyped'
    BY <1>1, <1>3, <2>2, ShortSeqs, SendTyped DEF NetTyped
  <2>4. shown[p] = synced[p]
    <3>1. shown[p] = Project(synced[p], <<>>)
      BY <1>1, <2>1 DEF Data, ShownIsProjection
    <3> QED BY <3>1, FoldEmpty, ProjectFolds
  <2>5. /\ synced[p] \in Snapshots
        /\ synced' = [synced EXCEPT ![p] = synced[p]] /\ shown' = [shown EXCEPT ![p] = synced[p]]
    BY <1>2, <1>4, <2>4
  <2>6. Data'
    BY <1>1, <1>3, <2>1, <2>2, <2>5, DataDispatched
  <2> QED BY <1>3, <2>3, <2>6
<1> QED BY <1>5, <1>6

(* A new page starts from a snapshot, and has nothing queued. *)
LEMMA InitialTyped ==
  ASSUME NEW p \in Peers, NEW at \in Int
  PROVE  Initial(p, at) \in Snapshots
<1>1. <<>> \in Seq(SUBSET (1..MaxWork))
  BY EmptySeq
<1> QED BY <1>1 DEF Initial, Snapshots

(* A page is loaded, with its own initial value or with what a page before it kept. *)
LEMMA LoadKeeps ==
  ASSUME SharedInv, NEW p \in Peers, Load(p)
  PROVE  NetTyped' /\ RestTyped' /\ Data'
<1>1. TypeOK /\ Data /\ RestTyped /\ NetTyped /\ AtRest
  BY SharedParts DEF SharedInv, IInv
<1>2. PICK s \in {Initial(p, clock + Skew[p])} \cup {synced[q] : q \in {g \in Peers : link[g] = "gone"}} :
          shown' = [shown EXCEPT ![p] = s] /\ synced' = [synced EXCEPT ![p] = s]
  BY DEF Load
<1>3. s \in Snapshots
  <2>1. clock + Skew[p] \in Int
    BY <1>1, OwnTyped
  <2> QED BY <1>1, <1>2, <2>1, InitialTyped DEF TypeOK
<1>4. queue[p] = <<>>
  BY <1>1 DEF Load, AtRest, Running
<1>5. /\ UNCHANGED <<queue, log, ops, clock, outbox, inbox, connectedOnce>>
      /\ work' = work + 1 /\ work < MaxWork
  BY DEF Load, net, Work
<1>6. Project(s, queue[p]) = s
  BY <1>4, FoldEmpty, ProjectFolds
<1>7. Data'
  BY <1>1, <1>2, <1>3, <1>5, <1>6, DataShown
<1>8. RestTyped'
  BY <1>1, <1>5, OwnTyped, BoundsNatural DEF RestTyped
<1>9. NetTyped'
  BY <1>1, <1>5 DEF NetTyped
<1> QED BY <1>7, <1>8, <1>9

(* What was on its way to a peer that is cut off is gone. *)
LEMMA CutOffTyped ==
  ASSUME NetTyped, NEW p \in Peers, CutOff(p)
  PROVE  NetTyped'
<1>1. <<>> \in Seq(Signals)
  BY EmptySeq
<1> QED BY <1>1 DEF NetTyped, CutOff

(* A page goes, and its queue with it. *)
LEMMA UnloadKeeps ==
  ASSUME SharedInv, NEW p \in Peers, Unload(p)
  PROVE  NetTyped' /\ RestTyped' /\ Data'
<1>1. TypeOK /\ Data /\ RestTyped /\ NetTyped
  BY SharedParts DEF SharedInv
<1>2. /\ queue' = [queue EXCEPT ![p] = <<>>] /\ shown' = [shown EXCEPT ![p] = synced[p]]
      /\ CutOff(p) /\ UNCHANGED <<connectedOnce, synced, clock, ops, log>>
      /\ work' = work + 1 /\ work < MaxWork
  BY DEF Unload, Work
<1>3. /\ synced' = [synced EXCEPT ![p] = synced[p]] /\ log' = [log EXCEPT ![p] = log[p]]
      /\ synced[p] \in Snapshots /\ log[p] \in Seq(1..MaxWork) /\ ops' = ops
  BY <1>1, <1>2 DEF TypeOK
<1>4. Increasing(log[p]) /\ \A i \in DOMAIN log[p] : log[p][i] <= ops
  BY <1>1 DEF Data, InOrder
<1>5. Data'
  BY <1>1, <1>2, <1>3, <1>4, DataEmptied
<1>6. RestTyped'
  BY <1>1, <1>2, OwnTyped, BoundsNatural DEF RestTyped
<1> QED BY <1>1, <1>2, <1>5, <1>6, CutOffTyped

(* The connection comes and goes: nothing of the states changes. *)
LEMMA ConnectionKeeps ==
  ASSUME SharedInv, NEW p \in Peers,
         Connect(p) \/ Break(p) \/ HandleLoss(p) \/ Disconnect(p) \/ Disconnected(p)
  PROVE  NetTyped' /\ RestTyped' /\ Data'
<1>1. TypeOK /\ Data /\ RestTyped /\ NetTyped
  BY SharedParts DEF SharedInv
<1>2. UNCHANGED states /\ UNCHANGED log /\ ops' = ops
  BY DEF Connect, Break, HandleLoss, Disconnect, Disconnected, bounds
<1>3. Data'
  BY <1>1, <1>2, DataSame
<1>4. RestTyped'
  <2>1. connectedOnce' = connectedOnce \/ connectedOnce' = [connectedOnce EXCEPT ![p] = TRUE]
    BY DEF Connect, Break, HandleLoss, Disconnect, Disconnected
  <2>2. clock' = clock /\ (work' = work \/ (work' = work + 1 /\ work < MaxWork))
    BY DEF Connect, Break, HandleLoss, Disconnect, Disconnected, bounds, Work
  <2>3. connectedOnce' \in [Peers -> BOOLEAN]
    BY <1>1, <2>1 DEF RestTyped
  <2>4. work' \in ops..MaxWork
    BY <1>1, <2>2, OwnTyped, BoundsNatural DEF RestTyped
  <2> QED BY <1>1, <1>2, <2>2, <2>3, <2>4 DEF RestTyped
<1>5. NetTyped'
  <2>1. CASE Connect(p)
    <3>1. <<ToAll(p, Hello)>> \o SnapshotFor(p, Everyone) \in Seq(Signals)
      BY <1>1, SignalsTyped, ShortSeqs, SnapshotForTyped DEF ToAll
    <3>2. /\ outbox' = [outbox EXCEPT ![p] = <<ToAll(p, Hello)>> \o SnapshotFor(p, Everyone)]
          /\ inbox' = inbox
      BY <2>1 DEF Connect
    <3> QED BY <1>1, <3>1, <3>2 DEF NetTyped
  <2>2. CASE Break(p) \/ Disconnected(p)
    BY <1>1, <2>2, CutOffTyped DEF Break, Disconnected
  <2>3. CASE HandleLoss(p) \/ Disconnect(p)
    BY <1>1, <2>3 DEF HandleLoss, Disconnect, net, NetTyped
  <2> QED BY <2>1, <2>2, <2>3
<1> QED BY <1>3, <1>4, <1>5

(* The replay ends with what it dispatched after what had been, in order. *)
LEMMA DispatchedInOrder ==
  ASSUME TypeOK, NEW p \in Peers, InOrder(p),
         NEW done \in Seq(1..MaxWork), Increasing(done),
         \A i \in DOMAIN done : \E k \in DOMAIN queue[p] : done[i] = OpOf(queue[p][k])
  PROVE  /\ log[p] \o done \in Seq(1..MaxWork) /\ Increasing(log[p] \o done)
         /\ \A i \in DOMAIN (log[p] \o done) : (log[p] \o done)[i] <= ops
<1> DEFINE l == log[p]
           a == l \o done
<1>1. /\ l \in Seq(1..MaxWork) /\ Len(l) \in Nat /\ Len(done) \in Nat
      /\ DOMAIN l = 1..Len(l) /\ DOMAIN done = 1..Len(done)
  BY OwnTyped, LenProperties
<1>2. /\ a \in Seq(1..MaxWork) /\ DOMAIN a = 1..Len(l) + Len(done)
      /\ \A i \in 1..Len(l) + Len(done) : a[i] = IF i <= Len(l) THEN l[i] ELSE done[i - Len(l)]
  BY <1>1, ConcatProperties, LenProperties
<1>3. /\ Increasing(l) /\ \A i \in DOMAIN l : l[i] <= ops
      /\ \A i \in DOMAIN done : done[i] <= ops
      /\ \A i \in DOMAIN l, j \in DOMAIN done : l[i] < done[j]
  BY DEF InOrder
<1> HIDE DEF a, l
<1>4. ASSUME NEW i \in DOMAIN a
      PROVE  \/ i \in DOMAIN l /\ a[i] = l[i]
             \/ i > Len(l) /\ i - Len(l) \in DOMAIN done /\ a[i] = done[i - Len(l)]
  BY <1>1, <1>2
<1>5. \A i \in DOMAIN a : a[i] <= ops
  BY <1>3, <1>4
<1>6. Increasing(a)
  <2> SUFFICES ASSUME NEW i \in DOMAIN a, NEW j \in DOMAIN a, i < j
               PROVE  a[i] < a[j]
    BY DEF Increasing
  <2>0. i \in Nat /\ j \in Nat
    BY <1>1, <1>2
  <2>1. CASE i \in DOMAIN l /\ a[i] = l[i] /\ j \in DOMAIN l /\ a[j] = l[j]
    BY <1>3, <2>1 DEF Increasing
  <2>2. CASE i \in DOMAIN l /\ a[i] = l[i] /\ j - Len(l) \in DOMAIN done /\ a[j] = done[j - Len(l)]
    BY <1>3, <2>2
  <2>3. CASE i > Len(l) /\ j \in DOMAIN l
    BY <1>1, <2>0, <2>3
  <2>4. CASE /\ i - Len(l) \in DOMAIN done /\ a[i] = done[i - Len(l)]
             /\ j - Len(l) \in DOMAIN done /\ a[j] = done[j - Len(l)]
    <3>1. i - Len(l) < j - Len(l)
      BY <1>1, <2>0
    <3> QED BY <2>4, <3>1 DEF Increasing
  <2> QED BY <1>4, <2>1, <2>2, <2>3, <2>4
<1> QED BY <1>2, <1>5, <1>6 DEF a, l

(* The replay timer: the queue is replayed, dispatched and emptied. *)
LEMMA ReplayTimerKeeps ==
  ASSUME SharedInv, NEW p \in Peers, ReplayTimer(p)
  PROVE  NetTyped' /\ RestTyped' /\ Data'
<1>1. TypeOK /\ Data /\ RestTyped /\ NetTyped /\ InOrder(p)
  BY SharedParts DEF SharedInv
<1> DEFINE r == Replay(synced[p], queue[p])
           sends == [i \in DOMAIN r.sent |-> ToAll(p, StateUpdate(r.sent[i]))]
<1>2. UNCHANGED <<connectedOnce, inbox, clock, ops, work>>
  BY DEF ReplayTimer, bounds
<1>3. RestTyped'
  BY <1>1, <1>2 DEF RestTyped
<1>4. CASE ~HasTransport(p)
  <2>1. UNCHANGED states /\ UNCHANGED log /\ ops' = ops /\ outbox' = outbox
    BY <1>2, <1>4 DEF ReplayTimer
  <2>2. Data'
    BY <1>1, <2>1, DataSame
  <2> QED BY <1>1, <1>2, <1>3, <2>1, <2>2 DEF NetTyped
<1>5. CASE HasTransport(p)
  <2>1. /\ synced' = [synced EXCEPT ![p] = r.synced]
        /\ shown' = [shown EXCEPT ![p] = IF HasMutations(queue[p]) THEN r.synced ELSE @]
        /\ queue' = [queue EXCEPT ![p] = <<>>]
        /\ Send(p, sends)
        /\ log' = [log EXCEPT ![p] = @ \o r.done]
    BY <1>5 DEF ReplayTimer
  <2>2. /\ synced[p] \in Snapshots /\ shown[p] \in Snapshots /\ queue[p] \in Seq(Entries)
        /\ Ordered(queue[p])
    BY <1>1, OwnTyped DEF InOrder
  <2>3. r \in Results(synced[p], queue[p], Len(queue[p]))
    BY <2>2, ReplayIs
  <2> HIDE DEF r
  <2>4. Len(queue[p]) \in Nat /\ DOMAIN queue[p] = 1..Len(queue[p])
    BY <2>2, LenProperties
  <2>5. /\ r.synced \in Snapshots /\ r.sent \in Seq(Snapshots) /\ r.done \in Seq(1..MaxWork)
        /\ Increasing(r.done)
        /\ \A i \in DOMAIN r.done : \E k \in DOMAIN queue[p] : r.done[i] = OpOf(queue[p][k])
    BY <2>3, <2>4 DEF Results
  <2>6. ~HasMutations(queue[p]) => r.synced = shown[p]
    <3> HAVE ~HasMutations(queue[p])
    <3>1. \A i \in 1..Len(queue[p]) : queue[p][i].type = "event"
      BY <2>2, <2>4, OpTyped, EntryIs DEF HasMutations
    <3>2. r.synced = synced[p]
      BY <2>3, <3>1 DEF Results
    <3>3. shown[p] = Project(synced[p], queue[p])
      BY <1>1 DEF Data, ShownIsProjection
    <3> QED BY <2>2, <3>2, <3>3, ProjectNothing
  <2>7. shown' = [shown EXCEPT ![p] = r.synced]
    BY <2>1, <2>6
  <2> DEFINE dispatched == log[p] \o r.done
  <2>8. /\ dispatched \in Seq(1..MaxWork) /\ Increasing(dispatched)
        /\ \A i \in DOMAIN dispatched : dispatched[i] <= ops
    BY <1>1, <2>5, DispatchedInOrder
  <2>9. log' = [log EXCEPT ![p] = dispatched] /\ ops' = ops
    BY <1>2, <2>1
  <2> HIDE DEF dispatched, sends
  <2>10. Data'
    BY <1>1, <2>1, <2>5, <2>7, <2>8, <2>9, DataEmptied
  <2>11. sends \in Seq(Signals)
    <3>1. Len(r.sent) \in Nat /\ DOMAIN r.sent = 1..Len(r.sent) /\ \A i \in 1..Len(r.sent) : r.sent[i] \in Snapshots
      BY <2>5, LenProperties, ElementOfSeq
    <3>2. \A i \in 1..Len(r.sent) : ToAll(p, StateUpdate(r.sent[i])) \in Signals
      BY <3>1, SignalsTyped DEF ToAll
    <3>3. sends = [i \in 1..Len(r.sent) |-> ToAll(p, StateUpdate(r.sent[i]))]
      BY <3>1 DEF sends
    <3>4. sends \in [1..Len(r.sent) -> Signals]
      BY <3>2, <3>3
    <3> QED BY <3>1, <3>4, SeqDef
  <2>12. NetTyped'
    BY <1>1, <1>2, <2>1, <2>11, SendTyped DEF NetTyped
  <2> QED BY <1>3, <2>10, <2>12
<1> QED BY <1>4, <1>5

(* The relay hands a signal on: no state changes. *)
LEMMA RelayKeeps ==
  ASSUME SharedInv, NEW p \in Peers, Relay(p)
  PROVE  NetTyped' /\ RestTyped' /\ Data'
<1>1. TypeOK /\ Data /\ RestTyped /\ NetTyped
  BY SharedParts DEF SharedInv
<1>2. UNCHANGED states /\ UNCHANGED log /\ UNCHANGED <<connectedOnce, clock, ops, work>>
  BY DEF Relay, bounds
<1>3. Data'
  BY <1>1, <1>2, DataSame
<1>4. outbox[p] \in Seq(Signals) /\ outbox[p] # <<>>
  BY <1>1, OwnTyped DEF Relay
<1>5. Head(outbox[p]) \in Signals /\ Tail(outbox[p]) \in Seq(Signals)
  BY <1>4, HeadTailProperties
<1>6. \A q \in Peers : inbox[q] \in Seq(Signals) /\ Append(inbox[q], Head(outbox[p])) \in Seq(Signals)
  BY <1>1, <1>5, OwnTyped, AppendProperties
<1>7. outbox' = [outbox EXCEPT ![p] = Tail(@)]
  BY DEF Relay
<1>8. inbox' \in [Peers -> Seq(Signals)]
  BY <1>6 DEF Relay
<1> QED BY <1>1, <1>2, <1>3, <1>5, <1>7, <1>8 DEF NetTyped, RestTyped

(* A signal is taken and answered. *)
LEMMA ReceiveKeeps ==
  ASSUME TypeOK, NEW p \in Peers, NEW type, NEW answer \in Seq(Signals), Receive(p, type, answer)
  PROVE  /\ NetTyped' /\ RestTyped' /\ log' = log /\ ops' = ops
         /\ Head(inbox[p]) \in Signals /\ Head(inbox[p]).message.type = type
<1>1. inbox[p] \in Seq(Signals) /\ inbox[p] # <<>>
  BY OwnTyped DEF Receive
<1>2. Head(inbox[p]) \in Signals /\ Tail(inbox[p]) \in Seq(Signals)
  BY <1>1, HeadTailProperties
<1>3. /\ inbox' = [inbox EXCEPT ![p] = Tail(@)] /\ Send(p, answer)
      /\ UNCHANGED <<connectedOnce, clock, ops, work, log>>
      /\ Head(inbox[p]).message.type = type
  BY DEF Receive, bounds
<1>4. outbox' \in [Peers -> Seq(Signals)]
  BY <1>3, SendTyped
<1>5. inbox' \in [Peers -> Seq(Signals)]
  BY <1>2, <1>3 DEF TypeOK
<1>6. RestTyped'
  BY <1>3, TypeOKParts DEF RestTyped
<1> QED BY <1>2, <1>3, <1>4, <1>5, <1>6 DEF NetTyped

(* A hello is answered, a welcome sets the replay timer: the states stay. *)
LEMMA HandlersKeep ==
  ASSUME SharedInv, NEW p \in Peers, HandleHello(p) \/ HandleWelcome(p)
  PROVE  NetTyped' /\ RestTyped' /\ Data'
<1>1. TypeOK /\ Data
  BY SharedParts DEF SharedInv
<1>2. NetTyped' /\ RestTyped' /\ log' = log /\ ops' = ops
  <2>1. CASE HandleHello(p)
    <3> DEFINE answer == <<Signal(p, Head(inbox[p]).from, Welcome)>> \o SnapshotFor(p, Head(inbox[p]).from)
    <3>1. Receive(p, "hello", answer)
      BY <2>1 DEF HandleHello
    <3>2. inbox[p] \in Seq(Signals) /\ inbox[p] # <<>>
      BY <1>1, <3>1, OwnTyped DEF Receive
    <3>3. Head(inbox[p]).from \in Peers
      BY <3>2, HeadTailProperties, SignalIs
    <3>4. answer \in Seq(Signals)
      BY <1>1, <3>3, SignalsTyped, ShortSeqs, SnapshotForTyped
    <3> HIDE DEF answer
    <3> QED BY <1>1, <3>1, <3>4, ReceiveKeeps
  <2>2. CASE HandleWelcome(p)
    <3>1. Receive(p, "welcome", <<>>) /\ <<>> \in Seq(Signals)
      BY <2>2, EmptySeq DEF HandleWelcome
    <3> QED BY <1>1, <3>1, ReceiveKeeps
  <2> QED BY <2>1, <2>2
<1>3. UNCHANGED states
  BY DEF HandleHello, HandleWelcome
<1> QED BY <1>1, <1>2, <1>3, DataSame

(* A state:update is taken if it is newer, and what is queued shown over it. *)
LEMMA HandleStateKeeps ==
  ASSUME SharedInv, NEW p \in Peers, HandleState(p)
  PROVE  NetTyped' /\ RestTyped' /\ Data'
<1>1. TypeOK /\ Data
  BY SharedParts DEF SharedInv
<1> DEFINE incoming == Head(inbox[p]).message.snapshot
<1>2. Receive(p, "state:update", <<>>) /\ queue' = queue /\ <<>> \in Seq(Signals)
  BY EmptySeq DEF HandleState
<1>3. /\ NetTyped' /\ RestTyped' /\ log' = log /\ ops' = ops
      /\ Head(inbox[p]) \in Signals /\ Head(inbox[p]).message.type = "state:update"
  BY <1>1, <1>2, ReceiveKeeps
<1>4. incoming \in Snapshots
  BY <1>3, SignalIs
<1>5. CASE ~Newer(incoming, synced[p])
  <2>1. UNCHANGED states
    BY <1>2, <1>5 DEF HandleState, states
  <2> QED BY <1>1, <1>3, <2>1, DataSame
<1>6. CASE Newer(incoming, synced[p])
  <2>1. /\ synced' = [synced EXCEPT ![p] = incoming]
        /\ shown' = [shown EXCEPT ![p] =
               IF HasMutations(queue[p]) THEN Project(incoming, queue[p]) ELSE incoming]
    BY <1>6 DEF HandleState
  <2> HIDE DEF incoming
  <2>2. ~HasMutations(queue[p]) => Project(incoming, queue[p]) = incoming
    BY <1>1, OwnTyped, ProjectNothing
  <2>3. shown' = [shown EXCEPT ![p] = Project(incoming, queue[p])]
    BY <2>1, <2>2
  <2> QED BY <1>1, <1>2, <1>3, <1>4, <2>1, <2>3, DataShown
<1> QED BY <1>5, <1>6

-----------------------------------------------------------------------------
(* The invariant holds at first and after every step. *)
LEMMA SharedStep == SharedInv /\ [Next]_vars => SharedInv'
<1> SUFFICES ASSUME SharedInv, [Next]_vars PROVE SharedInv'
  OBVIOUS
<1>1. IInv'
  BY ArmedStep DEF SharedInv
<1>2. NetTyped' /\ RestTyped' /\ Data'
  <2>1. CASE UNCHANGED vars
    <3>1. NetTyped /\ RestTyped /\ Data
      BY SharedParts
    <3>2. /\ UNCHANGED states /\ UNCHANGED log /\ ops' = ops
          /\ UNCHANGED <<outbox, inbox, connectedOnce, clock, work>>
      BY <2>1 DEF vars, states
    <3>3. Data'
      BY <3>1, <3>2, DataSame
    <3> QED BY <3>1, <3>2, <3>3 DEF NetTyped, RestTyped
  <2>2. CASE Next
    <3>1. PICK p \in Peers :
            \/ \E kind \in Kinds[p] : Mutate(p, kind)
            \/ Emit(p) \/ Load(p) \/ Unload(p) \/ Break(p) \/ Connect(p) \/ HandleLoss(p)
            \/ Disconnect(p) \/ Disconnected(p) \/ ReplayTimer(p) \/ Relay(p)
            \/ HandleHello(p) \/ HandleWelcome(p) \/ HandleState(p)
      BY <2>2 DEF Next
    <3> QED
      BY <3>1, MutateKeeps, EmitKeeps, LoadKeeps, UnloadKeeps, ConnectionKeeps,
         ReplayTimerKeeps, RelayKeeps, HandlersKeep, HandleStateKeeps
  <2> QED BY <2>1, <2>2
<1> QED BY <1>1, <1>2, SharedPartsNext

(* The invariant holds of the first page. *)
LEMMA SharedInit == Init => SharedInv
<1> SUFFICES ASSUME Init PROVE SharedInv
  OBVIOUS
<1>1. IInv
  BY DEF Init, IInv, ControlOK, AtRest, ReplayArmed, Links
<1>2. /\ <<>> \in Seq(Signals) /\ <<>> \in Seq(Entries) /\ <<>> \in Seq(1..MaxWork)
      /\ DOMAIN <<>> = {} /\ EventsOf(<<>>) = {}
  BY EmptySeq DEF EventsOf
<1>3. Initial(First, Skew[First]) \in Snapshots
  BY StartsArePeers, SkewOfPeers, InitialTyped
<1>4. Cardinality(EventsOf(<<>>)) <= EventLimit
  <2>1. Cardinality(EventsOf(<<>>)) = 0
    BY <1>2, FS_EmptySet, Zenon
  <2> QED BY <2>1, LimitsPositive
<1>5. NetTyped
  BY <1>2 DEF Init, NetTyped
<1>6. RestTyped
  BY BoundsNatural DEF Init, RestTyped
<1>7. StatesTyped /\ log \in [Peers -> Seq(1..MaxWork)]
  BY <1>2, <1>3, <1>4 DEF Init, StatesTyped
<1>8. ShownIsProjection
  <2>1. \A p \in Peers : Project(synced[p], <<>>) = synced[p]
    BY FoldEmpty, ProjectFolds
  <2> QED BY <2>1 DEF Init, ShownIsProjection
<1>9. \A p \in Peers : InOrder(p)
  BY <1>2 DEF Init, InOrder, Ordered, Increasing
<1> QED BY <1>1, <1>5, <1>6, <1>7, <1>8, <1>9, SharedParts DEF Data

(* The types, the projection and the order of operations hold together in every
   reachable state. *)
THEOREM SharedInvCorrect == Spec => []SharedInv
BY SharedInit, SharedStep, PTL DEF Spec

\* Every variable keeps its type, through any projection and replay, and a queue holds at
\* most OFFLINE_EVENT_QUEUE_LIMIT events.
THEOREM TypeOKCorrect == Spec => []TypeOK
<1>1. SharedInv => TypeOK
  BY DEF SharedInv
<1> QED BY <1>1, SharedInvCorrect, PTL

\* What a peer shows is what it shares with its queued mutations made over it: whatever was
\* queued, dropped, replayed or received, for any merge order of any number of peers.
THEOREM ShownIsProjectionCorrect == Spec => []ShownIsProjection
<1>1. SharedInv => ShownIsProjection
  BY DEF SharedInv
<1> QED BY <1>1, SharedInvCorrect, PTL

\* A peer dispatches its operations in the order in which they were made, however
\* connections, replays and new operations follow each other.
THEOREM InAppendOrderCorrect == Spec => []InAppendOrder
<1>1. SharedInv => InAppendOrder
  BY DEF SharedInv, InOrder, Increasing, InAppendOrder
<1> QED BY <1>1, SharedInvCorrect, PTL

-----------------------------------------------------------------------------
(* Rooms of two peers converge *)

Two(p, q) == Peers = {p, q} /\ p # q

\* The later of two concurrent snapshots, whoever wins against it by its clock.
Wins(a, b) ==
    \/ a.timestamp > b.timestamp
    \/ a.timestamp = b.timestamp /\ a.changedBy > b.changedBy

\* b comes after a in what p knows of the writes of q, or else in its own writes, or else
\* (both are initial values) it wins.
Later(p, q, a, b) ==
    \/ a = b
    \/ a.vectorClock[q] < b.vectorClock[q]
    \/ /\ a.vectorClock[q] = b.vectorClock[q]
       /\ a.vectorClock[p] < b.vectorClock[p] /\ b.changedBy = p
    \/ a.vectorClock = b.vectorClock /\ Wins(b, a)

\* So come the snapshots that p has, one after another; the times of its own do not go back.
Follows(p, q, a, b) ==
    /\ Later(p, q, a, b)
    /\ a.changedBy = p /\ b.changedBy = p => a.timestamp <= b.timestamp

Zero(a) == \A r \in Peers : a.vectorClock[r] = 0

(* What Newer says of two peers. *)
LEMMA NewerOfTwo ==
  ASSUME NEW p, NEW q, Two(p, q), NEW a \in Snapshots, NEW b \in Snapshots
  PROVE  /\ a.vectorClock[p] \in Nat /\ a.vectorClock[q] \in Nat
         /\ a.timestamp \in Int /\ a.changedBy \in {p, q} /\ p \in Nat /\ q \in Nat /\ p # q
         /\ a.vectorClock = b.vectorClock <=>
                a.vectorClock[p] = b.vectorClock[p] /\ a.vectorClock[q] = b.vectorClock[q]
         /\ Before(a.vectorClock, b.vectorClock) <=>
                /\ a.vectorClock[p] <= b.vectorClock[p] /\ a.vectorClock[q] <= b.vectorClock[q]
                /\ a.vectorClock[p] < b.vectorClock[p] \/ a.vectorClock[q] < b.vectorClock[q]
         /\ Newer(a, b) <=>
                \/ Before(b.vectorClock, a.vectorClock)
                \/ ~Before(a.vectorClock, b.vectorClock) /\ Wins(a, b)
<1>1. /\ a.vectorClock \in [Peers -> Nat] /\ b.vectorClock \in [Peers -> Nat]
      /\ a.timestamp \in Int /\ a.changedBy \in Peers /\ Peers \subseteq Nat
  BY PeersAreOrdered DEF Snapshots
<1>2. /\ a.vectorClock[p] \in Nat /\ a.vectorClock[q] \in Nat
      /\ b.vectorClock[p] \in Nat /\ b.vectorClock[q] \in Nat
      /\ a.changedBy \in {p, q} /\ p \in Nat /\ q \in Nat /\ p # q
  BY <1>1 DEF Two
<1>3. a.vectorClock = b.vectorClock <=>
          a.vectorClock[p] = b.vectorClock[p] /\ a.vectorClock[q] = b.vectorClock[q]
  BY <1>1 DEF Two
<1>4. Before(a.vectorClock, b.vectorClock) <=>
          /\ a.vectorClock[p] <= b.vectorClock[p] /\ a.vectorClock[q] <= b.vectorClock[q]
          /\ a.vectorClock[p] < b.vectorClock[p] \/ a.vectorClock[q] < b.vectorClock[q]
  BY <1>2, <1>3 DEF Before, Two
<1>5. Newer(a, b) <=>
          \/ Before(b.vectorClock, a.vectorClock)
          \/ ~Before(a.vectorClock, b.vectorClock) /\ Wins(a, b)
  BY DEF Newer, Wins
<1> QED BY <1>1, <1>2, <1>3, <1>4, <1>5

(* Of what p has one after another, the later knows all that the earlier knew of q. *)
LEMMA LaterKnows ==
  ASSUME NEW p, NEW q, Two(p, q), NEW a \in Snapshots, NEW b \in Snapshots
  PROVE  /\ Later(p, q, a, b) => a.vectorClock[q] <= b.vectorClock[q]
         /\ Later(q, p, a, b) => a.vectorClock[p] <= b.vectorClock[p]
BY NewerOfTwo DEF Later

(* A write of p goes on from what it had. *)
Writes(p, q, s, w) ==
    /\ w.vectorClock[p] = s.vectorClock[p] + 1 /\ w.vectorClock[q] = s.vectorClock[q]
    /\ w.changedBy = p

(* It comes after what p had before. *)
LEMMA WriteFollows ==
  ASSUME NEW p, NEW q, Two(p, q), NEW s \in Snapshots, NEW w \in Snapshots, NEW a \in Snapshots,
         Writes(p, q, s, w), Later(p, q, a, s)
  PROVE  Later(p, q, a, w)
BY NewerOfTwo DEF Later, Writes

(* What is not newer than s, and q has or had of it, is not newer than a write over s. *)
LEMMA WriteStays ==
  ASSUME NEW p, NEW q, Two(p, q), NEW s \in Snapshots, NEW w \in Snapshots, NEW v \in Snapshots,
         Writes(p, q, s, w), ~Newer(v, s), v.vectorClock[p] <= s.vectorClock[p],
         v.changedBy = p => v.timestamp <= w.timestamp,
         s.changedBy = p => s.timestamp <= w.timestamp,
         s.changedBy = q => Later(q, p, s, v)
  PROVE  ~Newer(v, w)
<1>1. CASE v.changedBy = p
  BY <1>1, NewerOfTwo DEF Writes, Wins
<1>2. CASE v.changedBy = q /\ s.changedBy = p
  BY <1>2, NewerOfTwo DEF Writes, Wins
<1>3. CASE v.changedBy = q /\ s.changedBy = q
  BY <1>3, NewerOfTwo DEF Writes, Wins, Later
<1> QED BY <1>1, <1>2, <1>3, NewerOfTwo

\* Places of w at which a snapshot is told, and what it is.
Tells(w, i) == i \in DOMAIN w /\ w[i].message.type = "state:update"
Told(w, i) == w[i].message.snapshot

\* s and the snapshots told on the way w of the peer that has s.
Live(w, s) == {Told(w, i) : i \in {j \in DOMAIN w : Tells(w, j)}} \cup {s}

\* p has s and q has t, with w on its way from p to q.  What p has and had come one after
\* another, and so does what q has of p; p never knows of more writes of q than q does; and
\* what p had before it knew of the last of them, or has from q, is not news to q.
Half(p, q, s, t, w) ==
    /\ \A i, j : Tells(w, i) /\ Tells(w, j) /\ i < j => Follows(p, q, Told(w, i), Told(w, j))
    /\ \A i : Tells(w, i) => Follows(p, q, Told(w, i), s)
    /\ s.vectorClock[q] <= t.vectorClock[q]
    /\ \A i : Tells(w, i) /\ (Told(w, i).vectorClock[q] < s.vectorClock[q] \/ s.changedBy = q) =>
           ~Newer(Told(w, i), t)
    /\ \A v \in Live(w, s) : v.changedBy = q => ~Newer(v, t)
    /\ t.changedBy = p => \A v \in Live(w, s) : Follows(p, q, t, v)

\* Different peers do not come to the same clock by a write.
Apart(S) ==
    \A a, b \in S : a.changedBy # b.changedBy /\ a.vectorClock = b.vectorClock => Zero(a)

\* p has s and q has t, v is on its way from p to q and w from q to p.
Both(p, q, s, t, v, w) ==
    /\ Half(p, q, s, t, v) /\ Half(q, p, t, s, w)
    /\ Apart(Live(v, s) \cup Live(w, t))

(* The same seen from the other end. *)
LEMMA BothSides ==
  ASSUME NEW p, NEW q, NEW s, NEW t, NEW v, NEW w, Both(p, q, s, t, v, w)
  PROVE  Both(q, p, t, s, w, v)
<1>1. Live(v, s) \cup Live(w, t) = Live(w, t) \cup Live(v, s)
  OBVIOUS
<1> QED BY <1>1 DEF Both

(* What is told is a snapshot. *)
LEMMA ToldTyped ==
  ASSUME NEW w \in Seq(Signals), NEW s \in Snapshots
  PROVE  /\ Len(w) \in Nat /\ DOMAIN w = 1..Len(w)
         /\ \A i : Tells(w, i) => i \in 1..Len(w) /\ Told(w, i) \in Snapshots /\ Told(w, i) \in Live(w, s)
         /\ Live(w, s) \subseteq Snapshots /\ s \in Live(w, s)
         /\ \A v \in Live(w, s) : v = s \/ \E i : Tells(w, i) /\ v = Told(w, i)
<1>1. Len(w) \in Nat /\ DOMAIN w = 1..Len(w) /\ \A i \in 1..Len(w) : w[i] \in Signals
  BY LenProperties, ElementOfSeq
<1>2. \A i : Tells(w, i) => i \in 1..Len(w) /\ Told(w, i) \in Snapshots
  BY <1>1, SignalIs DEF Tells, Told
<1>3. Live(w, s) = {Told(w, i) : i \in {j \in DOMAIN w : Tells(w, j)}} \cup {s}
  BY DEF Live
<1>4. \A i : Tells(w, i) => i \in DOMAIN w
  BY DEF Tells
<1> QED BY <1>1, <1>2, <1>3, <1>4

(* Signals that are lost or have arrived. *)
Within(v, w) ==
    \E f \in [DOMAIN v -> DOMAIN w] :
        /\ \A i, j \in DOMAIN v : i < j => f[i] < f[j]
        /\ \A i \in DOMAIN v : v[i] = w[f[i]]

\* What is left of a way tells in order what the whole way told.
LEMMA WithinTells ==
  ASSUME NEW v, NEW w, Within(v, w)
  PROVE  /\ \A i : Tells(v, i) => \E k : Tells(w, k) /\ Told(v, i) = Told(w, k)
         /\ \A i, j : Tells(v, i) /\ Tells(v, j) /\ i < j =>
                \E k, l : /\ Tells(w, k) /\ Tells(w, l) /\ k < l
                          /\ Told(v, i) = Told(w, k) /\ Told(v, j) = Told(w, l)
         /\ \A s : Live(v, s) \subseteq Live(w, s)
<1>1. PICK f \in [DOMAIN v -> DOMAIN w] :
        /\ \A i, j \in DOMAIN v : i < j => f[i] < f[j]
        /\ \A i \in DOMAIN v : v[i] = w[f[i]]
  BY DEF Within
<1>2. \A i : Tells(v, i) => i \in DOMAIN v /\ Tells(w, f[i]) /\ Told(v, i) = Told(w, f[i])
  BY <1>1 DEF Tells, Told
<1>3. \A i : Tells(v, i) => i \in {j \in DOMAIN v : Tells(v, j)} /\ f[i] \in {j \in DOMAIN w : Tells(w, j)}
  BY <1>1, <1>2 DEF Tells
<1>4. ASSUME NEW s PROVE Live(v, s) \subseteq Live(w, s)
  BY <1>2, <1>3 DEF Live
<1> QED BY <1>1, <1>2, <1>4

\* So what Half asks of a way it asks of what is left of it.
LEMMA HalfWithin ==
  ASSUME NEW p, NEW q, NEW s, NEW t, NEW v, NEW w, Half(p, q, s, t, w), Within(v, w)
  PROVE  Half(p, q, s, t, v)
<1>1. \A i, j : Tells(v, i) /\ Tells(v, j) /\ i < j => Follows(p, q, Told(v, i), Told(v, j))
  BY WithinTells DEF Half
<1>2. \A i : Tells(v, i) => Follows(p, q, Told(v, i), s)
  BY WithinTells DEF Half
<1>3. \A i : Tells(v, i) /\ (Told(v, i).vectorClock[q] < s.vectorClock[q] \/ s.changedBy = q) =>
           ~Newer(Told(v, i), t)
  BY WithinTells DEF Half
<1>4. Live(v, s) \subseteq Live(w, s)
  BY WithinTells
<1> QED BY <1>1, <1>2, <1>3, <1>4 DEF Half

(* Losing signals on either way changes nothing of it. *)
LEMMA BothWithin ==
  ASSUME NEW p, NEW q, NEW s, NEW t, NEW v, NEW w, NEW v2, NEW w2,
         Both(p, q, s, t, v, w), Within(v2, v), Within(w2, w)
  PROVE  Both(p, q, s, t, v2, w2)
<1>1. Half(p, q, s, t, v2) /\ Half(q, p, t, s, w2)
  BY HalfWithin DEF Both
<1>2. Live(v2, s) \subseteq Live(v, s) /\ Live(w2, t) \subseteq Live(w, t)
  BY WithinTells
<1> QED BY <1>1, <1>2 DEF Both, Apart

(* Parts of a sequence, in their order. *)
LEMMA WithinParts ==
  ASSUME NEW S, NEW v \in Seq(S), NEW w \in Seq(S)
  PROVE  /\ Within(v, v) /\ Within(<<>>, v)
         /\ Within(v, v \o w) /\ Within(w, v \o w)
         /\ v # <<>> => Within(Tail(v), v)
<1>1. /\ Len(v) \in Nat /\ DOMAIN v = 1..Len(v) /\ Len(w) \in Nat /\ DOMAIN w = 1..Len(w)
      /\ Len(v \o w) = Len(v) + Len(w) /\ DOMAIN (v \o w) = 1..Len(v) + Len(w)
      /\ \A i \in 1..Len(v) + Len(w) : (v \o w)[i] = IF i <= Len(v) THEN v[i] ELSE w[i - Len(v)]
  BY LenProperties, ConcatProperties
<1>2. Within(v, v)
  <2> DEFINE f == [i \in DOMAIN v |-> i]
  <2>1. f \in [DOMAIN v -> DOMAIN v] /\ \A i \in DOMAIN v : f[i] = i
    OBVIOUS
  <2> HIDE DEF f
  <2> QED BY <2>1 DEF Within
<1>3. Within(<<>>, v)
  <2> DEFINE f == [i \in {} |-> i]
  <2>1. f \in [{} -> DOMAIN v] /\ DOMAIN <<>> = {}
    BY EmptySeq
  <2> HIDE DEF f
  <2> QED BY <2>1 DEF Within
<1>4. Within(v, v \o w)
  <2> DEFINE f == [i \in DOMAIN v |-> i]
  <2>1. f \in [DOMAIN v -> DOMAIN (v \o w)] /\ \A i \in DOMAIN v : f[i] = i
    BY <1>1
  <2> HIDE DEF f
  <2>2. \A i \in DOMAIN v : v[i] = (v \o w)[f[i]]
    BY <1>1, <2>1
  <2>3. \A i, j \in DOMAIN v : i < j => f[i] < f[j]
    BY <2>1
  <2> QED BY <2>1, <2>2, <2>3 DEF Within
<1>5. Within(w, v \o w)
  <2> DEFINE f == [i \in DOMAIN w |-> Len(v) + i]
  <2>1. f \in [DOMAIN w -> DOMAIN (v \o w)] /\ \A i \in DOMAIN w : f[i] = Len(v) + i
    BY <1>1
  <2> HIDE DEF f
  <2>2. \A i \in DOMAIN w : w[i] = (v \o w)[f[i]]
    BY <1>1, <2>1
  <2>3. \A i, j \in DOMAIN w : i < j => f[i] < f[j]
    BY <1>1, <2>1
  <2> QED BY <2>1, <2>2, <2>3 DEF Within
<1>6. v # <<>> => Within(Tail(v), v)
  <2> HAVE v # <<>>
  <2>1. /\ DOMAIN Tail(v) = 1..Len(v) - 1 /\ \A i \in 1..Len(v) - 1 : Tail(v)[i] = v[i + 1]
    BY <1>1, HeadTailProperties, LenProperties, EmptySeq
  <2> DEFINE f == [i \in DOMAIN Tail(v) |-> i + 1]
  <2>2. f \in [DOMAIN Tail(v) -> DOMAIN v] /\ \A i \in DOMAIN Tail(v) : f[i] = i + 1
    BY <1>1, <2>1
  <2> HIDE DEF f
  <2>3. \A i, j \in DOMAIN Tail(v) : i < j => f[i] < f[j]
    BY <1>1, <2>1, <2>2
  <2> QED BY <2>1, <2>2, <2>3 DEF Within
<1> QED BY <1>2, <1>3, <1>4, <1>5, <1>6

-----------------------------------------------------------------------------
\* What p writes, sends and adopts.

(* p goes on from what it had: neither end loses what it had over the other. *)
LEMMA BothWritten ==
  ASSUME NEW p, NEW q, Two(p, q), NEW s \in Snapshots, NEW t \in Snapshots,
         NEW v \in Seq(Signals), NEW w \in Seq(Signals), Both(p, q, s, t, v, w),
         NEW n \in Snapshots, Writes(p, q, s, n),
         \A a \in Live(v, s) \cup Live(w, t) : a.changedBy = p => a.timestamp <= n.timestamp
  PROVE  /\ Both(p, q, n, t, v, w)
         /\ \A a \in Live(w, t) : ~Newer(a, s) => ~Newer(a, n)
<1>1. Half(p, q, s, t, v) /\ Half(q, p, t, s, w)
  BY DEF Both
<1>2. /\ Live(v, s) \subseteq Snapshots /\ Live(w, t) \subseteq Snapshots
      /\ s \in Live(v, s) /\ t \in Live(w, t)
      /\ Live(v, n) \subseteq Snapshots /\ n \in Live(v, n)
      /\ \A a \in Live(v, n) : a = n \/ \E i : Tells(v, i) /\ a = Told(v, i)
      /\ \A a \in Live(w, t) : a = t \/ \E i : Tells(w, i) /\ a = Told(w, i)
      /\ \A i : Tells(v, i) => Told(v, i) \in Live(v, s) /\ Told(v, i) \in Snapshots
      /\ \A i : Tells(w, i) => Told(w, i) \in Live(w, t) /\ Told(w, i) \in Snapshots
  BY ToldTyped
<1>3. \A a \in Live(w, t) : a.vectorClock[p] <= s.vectorClock[p]
  <2>1. t.vectorClock[p] <= s.vectorClock[p]
    BY <1>1 DEF Half
  <2>2. \A i : Tells(w, i) => Later(q, p, Told(w, i), t)
    BY <1>1 DEF Half, Follows
  <2>3. ASSUME NEW a \in Snapshots, Later(q, p, a, t) PROVE a.vectorClock[p] <= s.vectorClock[p]
    BY <2>1, <2>3, LaterKnows, NewerOfTwo
  <2> QED BY <1>2, <2>1, <2>2, <2>3
<1>4. ASSUME NEW a \in Live(w, t), ~Newer(a, s) PROVE ~Newer(a, n)
  <2>1. s.changedBy = q => Later(q, p, s, a)
    BY <1>1 DEF Half, Follows
  <2> QED BY <1>2, <1>3, <1>4, <2>1, WriteStays
<1>5. \A a \in Live(v, s) : Later(p, q, a, s) /\ Follows(p, q, a, n)
  <2>1. \A i : Tells(v, i) => Later(p, q, Told(v, i), s)
    BY <1>1 DEF Half, Follows
  <2>2. \A a \in Live(v, s) : Later(p, q, a, s)
    BY <2>1, ToldTyped DEF Later
  <2> QED BY <1>2, <2>2, WriteFollows DEF Follows
<1>6. n.changedBy = p /\ p # q /\ n.vectorClock[q] = s.vectorClock[q]
      /\ n.vectorClock[p] = s.vectorClock[p] + 1
  BY DEF Writes, Two
<1>7. Half(p, q, n, t, v)
  <2>1. t.changedBy = p => \A a \in Live(v, n) : Follows(p, q, t, a)
    <3> HAVE t.changedBy = p
    <3>1. Later(p, q, t, n)
      BY <1>1, <1>2, WriteFollows DEF Half, Follows
    <3>2. Follows(p, q, t, n)
      BY <1>2, <3>1 DEF Follows
    <3> QED BY <1>1, <1>2, <3>2 DEF Half
  <2>2. \A a \in Live(v, n) : a.changedBy = q => ~Newer(a, t)
    BY <1>1, <1>2, <1>6 DEF Half
  <2>3. \A i : Tells(v, i) /\ (Told(v, i).vectorClock[q] < n.vectorClock[q] \/ n.changedBy = q)
                              => ~Newer(Told(v, i), t)
    BY <1>1, <1>6 DEF Half
  <2>4. n.vectorClock[q] <= t.vectorClock[q]
    BY <1>1, <1>6 DEF Half
  <2>5. \A i : Tells(v, i) => Follows(p, q, Told(v, i), n)
    BY <1>2, <1>5
  <2> QED BY <1>1, <2>1, <2>2, <2>3, <2>4, <2>5 DEF Half
<1>8. Half(q, p, t, n, w)
  <2>1. \A i : Tells(w, i) /\ (Told(w, i).vectorClock[p] < t.vectorClock[p] \/ t.changedBy = p)
                              => ~Newer(Told(w, i), n)
    BY <1>1, <1>2, <1>4 DEF Half
  <2>2. \A a \in Live(w, t) : a.changedBy = p => ~Newer(a, n)
    BY <1>1, <1>4 DEF Half
  <2>3. t.vectorClock[p] <= n.vectorClock[p]
    BY <1>2, <1>3, <1>6, NewerOfTwo
  <2>4. n.changedBy # q
    BY <1>6
  <2> QED BY <1>1, <2>1, <2>2, <2>3, <2>4 DEF Half
<1>9. Apart(Live(v, n) \cup Live(w, t))
  <2>1. \A a \in Live(v, s) \cup Live(w, t) : a.changedBy = q => a.vectorClock # n.vectorClock
    <3>1. \A a \in Live(w, t) : a.vectorClock # n.vectorClock
      BY <1>2, <1>3, <1>6, NewerOfTwo
    <3>2. ASSUME NEW a \in Live(v, s), a.changedBy = q PROVE a.vectorClock # n.vectorClock
      BY <1>2, <1>5, <1>6, <3>2, NewerOfTwo DEF Later
    <3> QED BY <3>1, <3>2
  <2>2. \A a \in Live(v, n) \cup Live(w, t) : a = n \/ a \in Live(v, s) \cup Live(w, t)
    BY <1>2
  <2>3. \A a \in Live(v, n) \cup Live(w, t) : a \in Snapshots /\ (a.changedBy = p \/ a.changedBy = q)
    BY <1>2, NewerOfTwo
  <2>4. Apart(Live(v, s) \cup Live(w, t))
    BY DEF Both
  <2> QED BY <1>6, <2>1, <2>2, <2>3, <2>4 DEF Apart
<1> QED BY <1>4, <1>7, <1>8, <1>9 DEF Both

(* A signal more on its way. *)
LEMMA TellsAppended ==
  ASSUME NEW w \in Seq(Signals), NEW m \in Signals
  PROVE  /\ Append(w, m) \in Seq(Signals)
         /\ \A i : Tells(Append(w, m), i) <=>
                Tells(w, i) \/ (i = Len(w) + 1 /\ m.message.type = "state:update")
         /\ \A i : Tells(w, i) => i < Len(w) + 1 /\ i # Len(w) + 1 /\ Told(Append(w, m), i) = Told(w, i)
         /\ Told(Append(w, m), Len(w) + 1) = m.message.snapshot
<1>1. /\ Append(w, m) \in Seq(Signals) /\ Len(w) \in Nat
      /\ DOMAIN w = 1..Len(w) /\ DOMAIN Append(w, m) = 1..Len(w) + 1
      /\ \A n \in 1..Len(w) : Append(w, m)[n] = w[n]
      /\ Append(w, m)[Len(w) + 1] = m
  BY LenProperties, AppendProperties
<1> QED BY <1>1 DEF Tells, Told

(* p sends what it has, or a signal that does not tell anything. *)
LEMMA BothSent ==
  ASSUME NEW p, NEW q, Two(p, q), NEW s \in Snapshots, NEW t \in Snapshots,
         NEW v \in Seq(Signals), NEW w \in Seq(Signals), Both(p, q, s, t, v, w),
         NEW m \in Signals, m.message.type = "state:update" => m.message.snapshot = s
  PROVE  Both(p, q, s, t, Append(v, m), w)
<1> DEFINE u == Append(v, m)
<1>1. Half(p, q, s, t, v)
  BY DEF Both
<1>2. /\ \A i : Tells(u, i) <=> Tells(v, i) \/ (i = Len(v) + 1 /\ m.message.type = "state:update")
      /\ \A i : Tells(v, i) => i < Len(v) + 1 /\ i # Len(v) + 1 /\ Told(u, i) = Told(v, i)
      /\ m.message.type = "state:update" => Told(u, Len(v) + 1) = s
      /\ u \in Seq(Signals)
  BY TellsAppended
<1>3. Live(u, s) = Live(v, s)
  <2>1. /\ \A a \in Live(u, s) : a = s \/ \E i : Tells(u, i) /\ a = Told(u, i)
        /\ \A a \in Live(v, s) : a = s \/ \E i : Tells(v, i) /\ a = Told(v, i)
        /\ \A i : Tells(u, i) => Told(u, i) \in Live(u, s)
        /\ \A i : Tells(v, i) => Told(v, i) \in Live(v, s)
        /\ s \in Live(u, s) /\ s \in Live(v, s)
    BY <1>2, ToldTyped
  <2> HIDE DEF u
  <2>2. \A a \in Live(u, s) : a \in Live(v, s)
    BY <1>2, <2>1
  <2>3. \A a \in Live(v, s) : a \in Live(u, s)
    BY <1>2, <2>1
  <2> QED BY <2>2, <2>3
<1> HIDE DEF u
<1>4. ASSUME NEW i, Tells(u, i)
      PROVE  \/ Tells(v, i) /\ Told(u, i) = Told(v, i) /\ i < Len(v) + 1
             \/ i = Len(v) + 1 /\ Told(u, i) = s
  <2>1. CASE Tells(v, i)
    BY <1>2, <2>1
  <2>2. CASE i = Len(v) + 1 /\ m.message.type = "state:update"
    BY <1>2, <2>2
  <2> QED BY <1>2, <1>4, <2>1, <2>2
<1>5. Len(v) \in Nat /\ \A i : Tells(u, i) => i \in Nat
  BY <1>2, ToldTyped
<1>6. Follows(p, q, s, s)
  BY NewerOfTwo DEF Follows, Later
<1>7. \A i, j : Tells(u, i) /\ Tells(u, j) /\ i < j => Follows(p, q, Told(u, i), Told(u, j))
  <2> SUFFICES ASSUME NEW i, NEW j, Tells(u, i), Tells(u, j), i < j
               PROVE  Follows(p, q, Told(u, i), Told(u, j))
    OBVIOUS
  <2>1. Tells(v, i) /\ Told(u, i) = Told(v, i)
    BY <1>4, <1>5
  <2>2. CASE Tells(v, j) /\ Told(u, j) = Told(v, j)
    BY <1>1, <2>1, <2>2 DEF Half
  <2>3. CASE Told(u, j) = s
    BY <1>1, <2>1, <2>3 DEF Half
  <2> QED BY <1>4, <2>2, <2>3
<1>8. \A i : Tells(u, i) => Follows(p, q, Told(u, i), s)
  BY <1>1, <1>4, <1>6 DEF Half
<1>9. \A i : Tells(u, i) /\ (Told(u, i).vectorClock[q] < s.vectorClock[q] \/ s.changedBy = q)
                            => ~Newer(Told(u, i), t)
  <2>1. s.changedBy = q => ~Newer(s, t)
    BY <1>1, ToldTyped DEF Half
  <2>2. ~(s.vectorClock[q] < s.vectorClock[q])
    BY NewerOfTwo
  <2> QED BY <1>1, <1>4, <2>1, <2>2 DEF Half
<1>10. Half(p, q, s, t, u)
  BY <1>1, <1>3, <1>7, <1>8, <1>9 DEF Half
<1> QED BY <1>3, <1>10 DEF Both, u

(* What is newer to q than what it has, of all that is on its way from p: p wrote it itself,
   after the last write of q that it knows of, and wrote what it has now as well. *)
LEMMA NewsIs ==
  ASSUME NEW p, NEW q, Two(p, q), NEW s \in Snapshots, NEW t \in Snapshots,
         NEW v \in Seq(Signals), Half(p, q, s, t, v),
         NEW i, Tells(v, i), Newer(Told(v, i), t)
  PROVE  LET b == Told(v, i) IN
         /\ b \in Snapshots /\ b.changedBy = p /\ s.changedBy = p
         /\ b.vectorClock[q] = s.vectorClock[q] /\ b.vectorClock[p] <= s.vectorClock[p]
         /\ b.timestamp <= s.timestamp /\ Follows(p, q, b, s)
<1> DEFINE b == Told(v, i)
<1>1. b \in Snapshots /\ b \in Live(v, s)
  BY ToldTyped
<1>2. /\ Follows(p, q, b, s)
      /\ (b.vectorClock[q] < s.vectorClock[q] \/ s.changedBy = q) => ~Newer(b, t)
      /\ b.changedBy = q => ~Newer(b, t)
  BY <1>1 DEF Half
<1>3. Newer(b, t)
  OBVIOUS
<1> HIDE DEF b
<1>4. /\ b.changedBy = p /\ s.changedBy = p /\ ~(b.vectorClock[q] < s.vectorClock[q])
  BY <1>1, <1>2, <1>3, NewerOfTwo
<1>5. b.timestamp <= s.timestamp /\ b.vectorClock[q] <= s.vectorClock[q]
  BY <1>1, <1>2, <1>4, LaterKnows DEF Follows
<1>6. b.vectorClock[q] = s.vectorClock[q]
  BY <1>1, <1>4, <1>5, NewerOfTwo
<1>7. b.vectorClock[p] <= s.vectorClock[p]
  BY <1>1, <1>2, <1>6, NewerOfTwo DEF Follows, Later
<1> QED BY <1>1, <1>2, <1>4, <1>5, <1>6, <1>7 DEF b

(* News to q of what p wrote: what q sent before it is no news to p. *)
LEMMA NewsKnown ==
  ASSUME NEW p, NEW q, Two(p, q), NEW s \in Snapshots, NEW t \in Snapshots, NEW b \in Snapshots,
         NEW u \in Snapshots,
         b.changedBy = p, s.changedBy = p, t.changedBy = q, u.changedBy = q,
         b.vectorClock[q] = s.vectorClock[q], b.vectorClock[p] <= s.vectorClock[p],
         b.timestamp <= s.timestamp,
         s.vectorClock[q] <= t.vectorClock[q], t.vectorClock[p] <= s.vectorClock[p],
         Newer(b, t), Follows(q, p, u, t), ~(u.vectorClock[p] < t.vectorClock[p])
  PROVE  ~Newer(u, s)
<1>1. u.vectorClock[p] = t.vectorClock[p] /\ u.timestamp <= t.timestamp
  BY LaterKnows, NewerOfTwo DEF Follows
<1>2. u.vectorClock[q] <= t.vectorClock[q]
  BY <1>1, NewerOfTwo DEF Follows, Later
<1>3. CASE Before(t.vectorClock, b.vectorClock)
  BY <1>1, <1>2, <1>3, NewerOfTwo
<1>4. CASE ~Before(b.vectorClock, t.vectorClock) /\ Wins(b, t)
  BY <1>1, <1>2, <1>4, NewerOfTwo DEF Wins
<1> QED BY <1>3, <1>4, NewerOfTwo

(* It comes after what q had, too. *)
LEMMA NewsFollows ==
  ASSUME NEW p, NEW q, Two(p, q), NEW s \in Snapshots, NEW t \in Snapshots, NEW b \in Snapshots,
         NEW a \in Snapshots,
         b.changedBy = p, b.vectorClock[q] = s.vectorClock[q], s.vectorClock[q] <= t.vectorClock[q],
         t.changedBy = q /\ b.vectorClock = t.vectorClock => Zero(b),
         Newer(b, t), Later(q, p, a, t)
  PROVE  Later(q, p, a, b)
<1>1. t.changedBy = q /\ b.vectorClock = t.vectorClock => b.vectorClock[q] = 0
  BY DEF Zero, Two
<1> QED BY <1>1, NewerOfTwo DEF Later, Wins

(* What came later than the news and is from q itself is no news then. *)
LEMMA NewsOwn ==
  ASSUME NEW p, NEW q, Two(p, q), NEW s \in Snapshots, NEW t \in Snapshots, NEW b \in Snapshots,
         NEW a \in Snapshots,
         b.changedBy = p, b.vectorClock[q] = s.vectorClock[q],
         Newer(b, t), ~Newer(a, t), a.changedBy = q, Later(p, q, b, a),
         a.vectorClock[q] <= s.vectorClock[q]
  PROVE  ~Newer(a, b)
BY NewerOfTwo DEF Later, Wins

(* What p has is newer than what q had, if it is newer than the news. *)
LEMMA NewsStays ==
  ASSUME NEW p, NEW q, Two(p, q), NEW s \in Snapshots, NEW t \in Snapshots, NEW b \in Snapshots,
         b.changedBy = p, s.changedBy = p, b.vectorClock[q] = s.vectorClock[q],
         b.vectorClock[p] <= s.vectorClock[p], b.timestamp <= s.timestamp,
         Newer(b, t), Newer(s, b)
  PROVE  Newer(s, t)
BY NewerOfTwo DEF Wins

(* q takes over the first snapshot on its way if it is news. *)
LEMMA BothAdopted ==
  ASSUME NEW p, NEW q, Two(p, q), NEW s \in Snapshots, NEW t \in Snapshots,
         NEW v \in Seq(Signals), NEW w \in Seq(Signals), Both(p, q, s, t, v, w),
         Tells(v, 1), Newer(Told(v, 1), t)
  PROVE  LET b == Told(v, 1) IN
         /\ b \in Snapshots /\ b.changedBy = p /\ b.vectorClock[q] <= t.vectorClock[q]
         /\ Both(p, q, s, b, Tail(v), w)
         /\ Newer(s, b) => Newer(s, t)
         /\ ~Newer(b, s)
<1> DEFINE b == Told(v, 1)
           u == Tail(v)
<1>1. Half(p, q, s, t, v) /\ Half(q, p, t, s, w) /\ Apart(Live(v, s) \cup Live(w, t))
  BY DEF Both
<1>2. /\ b \in Snapshots /\ b.changedBy = p /\ s.changedBy = p
      /\ b.vectorClock[q] = s.vectorClock[q] /\ b.vectorClock[p] <= s.vectorClock[p]
      /\ b.timestamp <= s.timestamp /\ Follows(p, q, b, s) /\ Newer(b, t)
  BY <1>1, NewsIs
<1>3. /\ v # <<>> /\ u \in Seq(Signals) /\ Within(u, v)
      /\ \A i : Tells(u, i) => Tells(v, i + 1) /\ 1 < i + 1 /\ Told(u, i) = Told(v, i + 1)
  <2>1. /\ 1 \in 1..Len(v) /\ Len(v) \in Nat
    BY ToldTyped
  <2>2. v # <<>>
    BY <2>1, EmptySeq
  <2>3. /\ u \in Seq(Signals) /\ Len(u) = Len(v) - 1 /\ \A i \in 1..Len(u) : u[i] = v[i + 1]
    BY <2>2, HeadTailProperties
  <2>4. Within(u, v)
    BY <2>2, WithinParts
  <2> HIDE DEF u
  <2>5. DOMAIN u = 1..Len(u) /\ DOMAIN v = 1..Len(v)
    BY <2>3, LenProperties
  <2> QED BY <2>1, <2>2, <2>3, <2>4, <2>5 DEF Tells, Told
<1>4. /\ Live(u, s) \subseteq Live(v, s) /\ Live(v, s) \subseteq Snapshots /\ Live(w, t) \subseteq Snapshots
      /\ b \in Live(v, s) /\ t \in Live(w, t) /\ s \in Live(v, s)
      /\ \A a \in Live(v, s) : a = s \/ \E i : Tells(v, i) /\ a = Told(v, i)
      /\ \A a \in Live(u, s) : a = s \/ \E i : Tells(u, i) /\ a = Told(u, i)
      /\ \A a \in Live(w, t) : a = t \/ \E i : Tells(w, i) /\ a = Told(w, i)
      /\ \A a \in Live(w, b) : a = b \/ \E i : Tells(w, i) /\ a = Told(w, i)
      /\ \A i : Tells(w, i) => Told(w, i) \in Snapshots /\ Told(w, i) \in Live(w, t)
  <2>1. Live(u, s) \subseteq Live(v, s)
    BY <1>3, WithinTells
  <2>2. /\ \A a \in Live(u, s) : a = s \/ \E i : Tells(u, i) /\ a = Told(u, i)
    BY <1>3, ToldTyped
  <2> HIDE DEF u
  <2>3. /\ Live(v, s) \subseteq Snapshots /\ b \in Live(v, s) /\ s \in Live(v, s)
        /\ \A a \in Live(v, s) : a = s \/ \E i : Tells(v, i) /\ a = Told(v, i)
    BY ToldTyped
  <2>4. /\ Live(w, t) \subseteq Snapshots /\ t \in Live(w, t)
        /\ \A a \in Live(w, t) : a = t \/ \E i : Tells(w, i) /\ a = Told(w, i)
        /\ \A i : Tells(w, i) => Told(w, i) \in Snapshots /\ Told(w, i) \in Live(w, t)
    BY ToldTyped
  <2>5. \A a \in Live(w, b) : a = b \/ \E i : Tells(w, i) /\ a = Told(w, i)
    BY <1>2, ToldTyped
  <2> QED BY <2>1, <2>2, <2>3, <2>4, <2>5
<1>5. \A i : Tells(u, i) => Follows(p, q, b, Told(u, i)) /\ Follows(p, q, Told(u, i), s)
  BY <1>1, <1>3 DEF Half
<1> HIDE DEF b, u
<1>6. \A a \in Live(u, s) : Later(p, q, b, a) /\ a.vectorClock[q] = s.vectorClock[q]
  <2>1. ASSUME NEW i, Tells(u, i)
        PROVE  Later(p, q, b, Told(u, i)) /\ Told(u, i).vectorClock[q] = s.vectorClock[q]
    <3>1. Later(p, q, b, Told(u, i)) /\ Later(p, q, Told(u, i), s)
      BY <1>5, <2>1 DEF Follows
    <3>2. Told(u, i) \in Snapshots
      BY <1>3, <2>1, ToldTyped
    <3>3. b.vectorClock[q] <= Told(u, i).vectorClock[q] /\ Told(u, i).vectorClock[q] <= s.vectorClock[q]
      BY <1>2, <3>1, <3>2, LaterKnows
    <3> QED BY <1>2, <3>1, <3>2, <3>3, NewerOfTwo
  <2>2. Later(p, q, b, s)
    BY <1>2 DEF Follows
  <2> QED BY <1>4, <2>1, <2>2
<1>7. p # q /\ s.vectorClock[q] <= t.vectorClock[q] /\ t.vectorClock[p] <= s.vectorClock[p]
  BY <1>1 DEF Half, Two
<1>8. Half(p, q, s, b, u)
  <2>1. \A i, j : Tells(u, i) /\ Tells(u, j) /\ i < j => Follows(p, q, Told(u, i), Told(u, j))
    <3>1. Half(p, q, s, t, u)
      BY <1>1, <1>3, HalfWithin
    <3> QED BY <3>1 DEF Half
  <2>2. \A a \in Live(u, s) : a.changedBy = q => ~Newer(a, b)
    <3> SUFFICES ASSUME NEW a \in Live(u, s), a.changedBy = q PROVE ~Newer(a, b)
      OBVIOUS
    <3>1. a \in Snapshots /\ ~Newer(a, t) /\ Later(p, q, b, a) /\ a.vectorClock[q] <= s.vectorClock[q]
      BY <1>1, <1>4, <1>6, NewerOfTwo DEF Half
    <3> QED BY <1>2, <3>1, NewsOwn
  <2>3. s.vectorClock[q] <= b.vectorClock[q]
    BY <1>2, NewerOfTwo
  <2>4. \A i : Tells(u, i) => ~(Told(u, i).vectorClock[q] < s.vectorClock[q] \/ s.changedBy = q)
    <3> SUFFICES ASSUME NEW i, Tells(u, i)
                 PROVE  ~(Told(u, i).vectorClock[q] < s.vectorClock[q] \/ s.changedBy = q)
      OBVIOUS
    <3>1. Told(u, i) \in Live(u, s)
      BY <1>3, ToldTyped
    <3>2. Told(u, i).vectorClock[q] = s.vectorClock[q]
      BY <1>6, <3>1
    <3> QED BY <1>2, <1>7, <3>2, NewerOfTwo
  <2>5. \A a \in Live(u, s) : Follows(p, q, b, a)
    BY <1>2, <1>4, <1>5
  <2> QED BY <1>5, <2>1, <2>2, <2>3, <2>4, <2>5 DEF Half
<1>9. ~Newer(b, s)
  BY <1>2, NewerOfTwo DEF Follows, Later, Wins
<1>10. Half(q, p, b, s, w)
  <2>1. \A i, j : Tells(w, i) /\ Tells(w, j) /\ i < j => Follows(q, p, Told(w, i), Told(w, j))
    BY <1>1 DEF Half
  <2>2. \A i : Tells(w, i) => Follows(q, p, Told(w, i), b)
    <3> SUFFICES ASSUME NEW i, Tells(w, i) PROVE Follows(q, p, Told(w, i), b)
      OBVIOUS
    <3>1. Later(q, p, Told(w, i), t) /\ Told(w, i) \in Snapshots
      BY <1>1, <1>4 DEF Half, Follows
    <3>2. t.changedBy = q /\ b.vectorClock = t.vectorClock => Zero(b)
      BY <1>1, <1>2, <1>4, <1>7 DEF Apart
    <3>3. Later(q, p, Told(w, i), b)
      BY <1>2, <1>7, <3>1, <3>2, NewsFollows
    <3> QED BY <1>2, <1>7, <3>3 DEF Follows
  <2>3. b.vectorClock[p] <= s.vectorClock[p]
    BY <1>2
  <2>4. \A i : Tells(w, i) => ~Newer(Told(w, i), s)
    <3> SUFFICES ASSUME NEW i, Tells(w, i) PROVE ~Newer(Told(w, i), s)
      OBVIOUS
    <3>1. /\ Told(w, i) \in Snapshots /\ Follows(q, p, Told(w, i), t)
          /\ (Told(w, i).vectorClock[p] < t.vectorClock[p] \/ t.changedBy = p) => ~Newer(Told(w, i), s)
          /\ Told(w, i).changedBy = p => ~Newer(Told(w, i), s)
      BY <1>1, <1>4 DEF Half
    <3>2. /\ Told(w, i).changedBy = p \/ Told(w, i).changedBy = q
          /\ t.changedBy = p \/ t.changedBy = q
      BY <3>1, NewerOfTwo
    <3>3. CASE ~(Told(w, i).vectorClock[p] < t.vectorClock[p]) /\ t.changedBy = q /\ Told(w, i).changedBy = q
      BY <1>2, <1>7, <3>1, <3>3, NewsKnown
    <3> QED BY <3>1, <3>2, <3>3
  <2>5. \A a \in Live(w, b) : a.changedBy = p => ~Newer(a, s)
    BY <1>4, <1>9, <2>4
  <2>6. s.changedBy # q
    BY <1>2, <1>7
  <2> QED BY <2>1, <2>2, <2>3, <2>4, <2>5, <2>6 DEF Half
<1>11. Apart(Live(u, s) \cup Live(w, b))
  <2>1. \A a \in Live(u, s) \cup Live(w, b) : a \in Live(v, s) \cup Live(w, t)
    BY <1>4
  <2> QED BY <1>1, <2>1 DEF Apart
<1>12. Newer(s, b) => Newer(s, t)
  BY <1>2, NewsStays
<1>13. b.vectorClock[q] <= t.vectorClock[q]
  BY <1>2, <1>7
<1> QED BY <1>2, <1>8, <1>9, <1>10, <1>11, <1>12, <1>13 DEF Both, b, u

-----------------------------------------------------------------------------
\* What p has queued, and its replay.

Queued(q) == {q[k] : k \in {j \in DOMAIN q : q[j].type = "state"}}

(* The mutations in a queue. *)
LEMMA QueuedIs ==
  ASSUME NEW q \in Seq(Entries)
  PROVE  /\ HasMutations(q) <=> Queued(q) # {}
         /\ \A e \in Queued(q) : /\ e \in Entries /\ e.type = "state"
                                 /\ e.mutation \in Mutations /\ e.snapshot \in Snapshots
                                 /\ \E k \in DOMAIN q : e = q[k]
         /\ \A k \in DOMAIN q : q[k].type = "state" => q[k] \in Queued(q)
         /\ Queued(<<>>) = {}
<1>1. \A k \in DOMAIN q : q[k] \in Entries
  BY OpTyped
<1>2. \A e \in Queued(q) : e \in Entries /\ e.type = "state" /\ \E k \in DOMAIN q : e = q[k]
  BY <1>1 DEF Queued
<1>3. \A e \in Queued(q) : e.mutation \in Mutations /\ e.snapshot \in Snapshots
  BY <1>2, EntryIs
<1>4. \A k \in DOMAIN q : q[k].type = "state" => q[k] \in Queued(q)
  BY DEF Queued
<1>5. HasMutations(q) <=> Queued(q) # {}
  BY <1>2, <1>4 DEF HasMutations
<1>6. Queued(<<>>) = {}
  BY EmptySeq DEF Queued
<1> QED BY <1>2, <1>3, <1>4, <1>5, <1>6

(* AppendEntry keeps all of them, and adds the new one. *)
LEMMA QueuedAppended ==
  ASSUME NEW q \in Seq(Entries), NEW e \in Entries, Cardinality(EventsOf(q)) <= EventLimit
  PROVE  Queued(AppendEntry(q, e)) = IF e.type = "state" THEN Queued(q) \cup {e} ELSE Queued(q)
<1> DEFINE all == Append(q, e)
           after == IF e.type = "state" THEN Queued(q) \cup {e} ELSE Queued(q)
<1>1. /\ Len(q) \in Nat /\ DOMAIN q = 1..Len(q)
      /\ all \in Seq(Entries) /\ DOMAIN all = 1..Len(q) + 1 /\ Len(all) = Len(q) + 1
      /\ \A n \in 1..Len(q) : all[n] = q[n]
      /\ all[Len(q) + 1] = e
  BY LenProperties, AppendProperties
<1> HIDE DEF all
<1>2. Queued(all) = after
  <2>1. \A x \in Queued(all) : x \in after
    BY <1>1 DEF Queued
  <2>2. \A x \in after : x \in Queued(all)
    <3>1. \A x \in Queued(q) : x \in Queued(all)
      BY <1>1 DEF Queued
    <3>2. e.type = "state" => e \in Queued(all)
      BY <1>1 DEF Queued
    <3> QED BY <3>1, <3>2
  <2> QED BY <2>1, <2>2
<1>3. ASSUME NEW i \in EventsOf(all) PROVE Queued(RemoveAt(all, i)) = Queued(all)
  <2> DEFINE r == RemoveAt(all, i)
  <2>1. i \in 1..Len(all) /\ all[i].type = "event"
    BY <1>1 DEF EventsOf
  <2>2. /\ r \in Seq(Entries) /\ Len(r) = Len(all) - 1
        /\ \A n \in 1..Len(all) - 1 : r[n] = IF n < i THEN all[n] ELSE all[n + 1]
    BY <1>1, <2>1, Removed
  <2> HIDE DEF r
  <2>3. DOMAIN r = 1..Len(q)
    BY <1>1, <2>2, LenProperties
  <2>4. \A n \in 1..Len(q) : \E k \in 1..Len(q) + 1 : r[n] = all[k]
    BY <1>1, <2>1, <2>2
  <2>5. \A x \in Queued(r) : x \in Queued(all)
    BY <1>1, <2>3, <2>4 DEF Queued
  <2>6. ASSUME NEW k \in 1..Len(q) + 1, all[k].type = "state" PROVE \E n \in 1..Len(q) : r[n] = all[k]
    <3>1. k # i
      BY <2>1, <2>6
    <3>2. CASE k < i
      BY <1>1, <2>1, <2>2, <3>2
    <3>3. CASE i < k
      <4>1. k - 1 \in 1..Len(q) /\ ~(k - 1 < i) /\ k - 1 + 1 = k
        BY <1>1, <2>1, <3>3
      <4>2. r[k - 1] = all[k - 1 + 1]
        BY <1>1, <2>2, <4>1
      <4> QED BY <4>1, <4>2
    <3> QED BY <1>1, <2>1, <3>1, <3>2, <3>3
  <2>7. \A x \in Queued(all) : x \in Queued(r)
    BY <1>1, <2>3, <2>6 DEF Queued
  <2> QED BY <2>5, <2>7 DEF r
<1>4. \/ AppendEntry(q, e) = all
      \/ \E i \in EventsOf(all) : AppendEntry(q, e) = RemoveAt(all, i)
  BY EntryAppended DEF all
<1> QED BY <1>2, <1>3, <1>4

(* A mutation is a write. *)
LEMMA AppliedWrites ==
  ASSUME NEW p, NEW q, Two(p, q), NEW s \in Snapshots, NEW m \in Mutations, m.changedBy = p
  PROVE  Writes(p, q, s, Apply(s, m)) /\ Apply(s, m).timestamp = m.timestamp
<1>1. p \in Peers /\ q \in Peers /\ p # q /\ s.vectorClock \in [Peers -> Nat]
  BY DEF Two, Snapshots
<1>2. /\ Apply(s, m).vectorClock = [s.vectorClock EXCEPT ![p] = @ + 1]
      /\ Apply(s, m).changedBy = p /\ Apply(s, m).timestamp = m.timestamp
  BY DEF Apply
<1> QED BY <1>1, <1>2 DEF Writes

(* p makes a mutation and sends what it comes to. *)
LEMMA BothUpdated ==
  ASSUME NEW p, NEW q, Two(p, q), NEW s \in Snapshots, NEW t \in Snapshots,
         NEW v \in Seq(Signals), NEW w \in Seq(Signals), Both(p, q, s, t, v, w),
         NEW m \in Mutations, m.changedBy = p, CanApply(s, m),
         \A a \in Live(v, s) \cup Live(w, t) : a.changedBy = p => a.timestamp <= m.timestamp
  PROVE  LET n == Apply(s, m)
             u == Append(v, ToAll(p, StateUpdate(n)))
         IN  /\ n \in Snapshots /\ Writes(p, q, s, n) /\ n.timestamp = m.timestamp
             /\ u \in Seq(Signals) /\ Both(p, q, n, t, u, w)
             /\ Live(u, n) \subseteq Live(v, s) \cup {n}
             /\ \A a \in Live(w, t) : ~Newer(a, s) => ~Newer(a, n)
<1> DEFINE n == Apply(s, m)
           g == ToAll(p, StateUpdate(n))
           u == Append(v, g)
<1>1. n \in Snapshots /\ Writes(p, q, s, n) /\ n.timestamp = m.timestamp
  BY Applied, AppliedWrites
<1> HIDE DEF n
<1>2. g \in Signals /\ g.message.type = "state:update" /\ g.message.snapshot = n
  <2>1. p \in Peers
    BY DEF Two
  <2> QED BY <1>1, <2>1, SignalsTyped DEF ToAll, Signal, StateUpdate
<1>3. \A a \in Live(v, s) \cup Live(w, t) : a.changedBy = p => a.timestamp <= n.timestamp
  BY <1>1
<1>4. /\ Both(p, q, n, t, v, w)
      /\ \A a \in Live(w, t) : ~Newer(a, s) => ~Newer(a, n)
  BY <1>1, <1>3, BothWritten
<1> HIDE DEF g
<1>5. Both(p, q, n, t, u, w)
  BY <1>1, <1>2, <1>4, BothSent
<1>6. u \in Seq(Signals)
  BY <1>2, AppendProperties
<1>7. ASSUME NEW a \in Live(u, n) PROVE a \in Live(v, s) \cup {n}
  <2>1. a = n \/ \E i : Tells(u, i) /\ a = Told(u, i)
    BY <1>1, <1>6, <1>7, ToldTyped
  <2>2. ASSUME NEW i, Tells(u, i) PROVE Told(u, i) = n \/ Told(u, i) \in Live(v, s)
    <3>1. Tells(v, i) => Told(u, i) \in Live(v, s)
      BY <1>2, TellsAppended, ToldTyped
    <3>2. i = Len(v) + 1 => Told(u, i) = n
      BY <1>2, TellsAppended
    <3> QED BY <1>2, <2>2, <3>1, <3>2, TellsAppended
  <2> QED BY <2>1, <2>2
<1> QED BY <1>1, <1>4, <1>5, <1>6, <1>7 DEF n, g, u

\* The signals of a replay.
Updates(p, sent) == [i \in DOMAIN sent |-> ToAll(p, StateUpdate(sent[i]))]

\* A snapshot more sent is a signal more on the way.
LEMMA UpdatesAppended ==
  ASSUME NEW p \in Peers, NEW sent \in Seq(Snapshots), NEW x \in Snapshots, NEW v \in Seq(Signals)
  PROVE  /\ Updates(p, sent) \in Seq(Signals)
         /\ v \o Updates(p, Append(sent, x)) = Append(v \o Updates(p, sent), ToAll(p, StateUpdate(x)))
         /\ v \o Updates(p, <<>>) = v
<1>1. /\ Len(sent) \in Nat /\ DOMAIN sent = 1..Len(sent) /\ \A i \in 1..Len(sent) : sent[i] \in Snapshots
      /\ Append(sent, x) \in Seq(Snapshots) /\ DOMAIN Append(sent, x) = 1..Len(sent) + 1
      /\ \A i \in 1..Len(sent) : Append(sent, x)[i] = sent[i]
      /\ Append(sent, x)[Len(sent) + 1] = x
  BY LenProperties, AppendProperties, ElementOfSeq
<1>2. \A y \in Snapshots : ToAll(p, StateUpdate(y)) \in Signals
  BY SignalsTyped DEF ToAll
<1>3. Updates(p, sent) \in Seq(Signals) /\ DOMAIN Updates(p, sent) = 1..Len(sent)
      /\ \A i \in 1..Len(sent) : Updates(p, sent)[i] = ToAll(p, StateUpdate(sent[i]))
  <2>1. Updates(p, sent) \in [1..Len(sent) -> Signals]
    BY <1>1, <1>2 DEF Updates
  <2> QED BY <1>1, <2>1, IsASeq DEF Updates
<1>4. Updates(p, Append(sent, x)) = Append(Updates(p, sent), ToAll(p, StateUpdate(x)))
  <2> DEFINE g == ToAll(p, StateUpdate(x))
             a == Updates(p, Append(sent, x))
             b == Append(Updates(p, sent), g)
  <2>1. a \in [1..Len(sent) + 1 -> Signals]
    <3>1. \A i \in 1..Len(sent) + 1 : Append(sent, x)[i] \in Snapshots
      BY <1>1
    <3> QED BY <1>1, <1>2, <3>1 DEF Updates
  <2>2. Len(Updates(p, sent)) = Len(sent) /\ g \in Signals
    BY <1>1, <1>2, <1>3, LenProperties
  <2>3. b \in [1..Len(sent) + 1 -> Signals] /\ b[Len(sent) + 1] = g
        /\ \A i \in 1..Len(sent) : b[i] = Updates(p, sent)[i]
    <3>1. b \in Seq(Signals) /\ Len(b) = Len(sent) + 1 /\ b[Len(sent) + 1] = g
          /\ \A i \in 1..Len(sent) : b[i] = Updates(p, sent)[i]
      BY <1>3, <2>2, AppendProperties
    <3> HIDE DEF b
    <3> QED BY <1>1, <3>1, LenProperties
  <2>4. \A i \in 1..Len(sent) + 1 : a[i] = ToAll(p, StateUpdate(Append(sent, x)[i]))
    BY <1>1 DEF Updates
  <2> HIDE DEF a, b
  <2>5. ASSUME NEW i \in 1..Len(sent) + 1 PROVE a[i] = b[i]
    <3>1. CASE i = Len(sent) + 1
      BY <1>1, <2>3, <2>4, <3>1
    <3>2. CASE i # Len(sent) + 1
      <4>1. i \in 1..Len(sent)
        BY <1>1, <3>2
      <4> QED BY <1>1, <1>3, <2>3, <2>4, <4>1
    <3> QED BY <3>1, <3>2
  <2>6. a = b
    BY <2>1, <2>3, <2>5
  <2> QED BY <2>6 DEF a, b
<1>5. v \o Append(Updates(p, sent), ToAll(p, StateUpdate(x)))
          = Append(v \o Updates(p, sent), ToAll(p, StateUpdate(x)))
  <2> DEFINE c == Updates(p, sent)
             g == ToAll(p, StateUpdate(x))
  <2>1. c \in Seq(Signals) /\ g \in Signals
    BY <1>2, <1>3
  <2> HIDE DEF c, g
  <2>2. v \o Append(c, g) = Append(v \o c, g)
    BY <2>1, AppendIsConcat, ConcatAssociative, ConcatProperties
  <2> QED BY <2>2 DEF c, g
<1>6. Updates(p, <<>>) = <<>>
  BY EmptySeq DEF Updates
<1>7. v \o <<>> = v
  BY ConcatEmptySeq
<1> QED BY <1>3, <1>4, <1>5, <1>6, <1>7

\* What p writes over s.
Mine(p, q, s) == {x \in Snapshots : x.changedBy = p /\ x.vectorClock[q] = s.vectorClock[q]}

\* What p may have come to over s after n entries of its queue c: still in the exchange with
\* q, with its times below those of the entries left; if it sent anything, it sent the last.
Come(p, q, s, t, v, w, c, limit, n) ==
    {r \in [synced : Snapshots, sent : Seq(Snapshots), done : Seq(1..MaxWork)] :
        /\ Both(p, q, r.synced, t, v \o Updates(p, r.sent), w)
        /\ \A a \in Live(v \o Updates(p, r.sent), r.synced) \cup Live(w, t) : a.changedBy = p =>
               /\ a.timestamp <= limit
               /\ \A k \in n + 1..Len(c) : c[k].type = "state" => a.timestamp <= c[k].mutation.timestamp
        /\ Live(v \o Updates(p, r.sent), r.synced) \subseteq Live(v, s) \cup Mine(p, q, s)
        /\ r.synced.vectorClock[q] = s.vectorClock[q]
        /\ \A a \in Live(w, t) : ~Newer(a, s) => ~Newer(a, r.synced)
        /\ r.sent = <<>> => r.synced = s /\ \A k \in 1..n : ~Counts(s, c[k])
        /\ r.sent # <<>> => r.sent[Len(r.sent)] = r.synced}

\* The mutations of p in its queue c are its own, and their times do not go back nor beyond
\* the limit, which is the time of its clock.
Timely(p, c, limit) ==
    /\ \A e \in Queued(c) : e.mutation.changedBy = p /\ e.mutation.timestamp <= limit
    /\ \A d, e \in Queued(c) : OpOf(d) < OpOf(e) => d.mutation.timestamp <= e.mutation.timestamp

(* A replay goes on in the exchange with q. *)
LEMMA ReplayComes ==
  ASSUME NEW p, NEW q, Two(p, q), NEW s \in Snapshots, NEW t \in Snapshots,
         NEW v \in Seq(Signals), NEW w \in Seq(Signals), Both(p, q, s, t, v, w),
         NEW c \in Seq(Entries), Ordered(c), NEW limit \in Int, Timely(p, c, limit),
         \A a \in Live(v, s) \cup Live(w, t) : a.changedBy = p =>
             a.timestamp <= limit /\ \A e \in Queued(c) : a.timestamp <= e.mutation.timestamp
  PROVE  Replay(s, c) \in Come(p, q, s, t, v, w, c, limit, Len(c))
<1> DEFINE T == [n \in 0..Len(c) |-> Come(p, q, s, t, v, w, c, limit, n)]
           R == [synced : Snapshots, sent : Seq(Snapshots), done : Seq(1..MaxWork)]
<1>0. /\ Len(c) \in Nat /\ DOMAIN c = 1..Len(c) /\ p \in Peers
      /\ \A k \in 1..Len(c) : c[k] \in Entries /\ OpOf(c[k]) \in 1..MaxWork
  BY LenProperties, OpTyped DEF Two
<1>1. ASSUME NEW n \in 1..Len(c), NEW r \in T[n - 1] PROVE Step("replay", r, c[n]) \in T[n]
  <2> DEFINE u == v \o Updates(p, r.sent)
             e == c[n]
  <2>1. /\ r \in Come(p, q, s, t, v, w, c, limit, n - 1) /\ T[n] = Come(p, q, s, t, v, w, c, limit, n)
        /\ n \in Nat /\ n - 1 \in Nat /\ e \in Entries /\ n \in 1..n
    BY <1>0, <1>1
  <2>2. /\ r \in R /\ r.synced \in Snapshots /\ r.sent \in Seq(Snapshots) /\ r.done \in Seq(1..MaxWork)
    BY <2>1 DEF Come
  <2>3. /\ Both(p, q, r.synced, t, u, w)
        /\ \A a \in Live(u, r.synced) \cup Live(w, t) : a.changedBy = p =>
               /\ a.timestamp <= limit
               /\ \A k \in n - 1 + 1..Len(c) : c[k].type = "state" => a.timestamp <= c[k].mutation.timestamp
        /\ Live(u, r.synced) \subseteq Live(v, s) \cup Mine(p, q, s)
        /\ r.synced.vectorClock[q] = s.vectorClock[q]
        /\ \A a \in Live(w, t) : ~Newer(a, s) => ~Newer(a, r.synced)
        /\ r.sent = <<>> => r.synced = s /\ \A k \in 1..n - 1 : ~Counts(s, c[k])
        /\ r.sent # <<>> => r.sent[Len(r.sent)] = r.synced
    BY <2>1 DEF Come
  <2>4. \A k \in n + 1..Len(c) : k \in n - 1 + 1..Len(c)
    BY <2>1
  <2>5. \A a \in Live(u, r.synced) \cup Live(w, t) : a.changedBy = p =>
               /\ a.timestamp <= limit
               /\ \A k \in n + 1..Len(c) : c[k].type = "state" => a.timestamp <= c[k].mutation.timestamp
               /\ e.type = "state" => a.timestamp <= e.mutation.timestamp
    <3>1. n \in n - 1 + 1..Len(c)
      BY <2>1
    <3> QED BY <2>3, <2>4, <3>1
  <2>6. u \in Seq(Signals)
    BY <1>0, <2>2, UpdatesAppended, ConcatProperties
  <2>7. CASE ~Counts(r.synced, e)
    <3> DEFINE x == Replayed(r, e)
    <3>1. x \in R /\ x.synced = r.synced /\ x.sent = r.sent
      <4>1. CASE e.type = "event"
        <5>1. x = [r EXCEPT !.done = Append(@, e.op)]
          BY <2>7, <4>1 DEF Replayed, Counts
        <5>2. Append(r.done, e.op) \in Seq(1..MaxWork)
          BY <2>1, <2>2, <4>1, EntryIs, AppendProperties
        <5>3. x = [synced |-> r.synced, sent |-> r.sent, done |-> Append(r.done, e.op)]
          BY <2>2, <5>1
        <5> HIDE DEF x, e
        <5> QED BY <2>2, <5>2, <5>3
      <4>2. CASE e.type # "event"
        <5>1. x = r
          BY <2>7, <4>2 DEF Replayed
        <5> HIDE DEF x
        <5> QED BY <2>2, <5>1
      <4> QED BY <4>1, <4>2
    <3>2. r.sent = <<>> => \A k \in 1..n : ~Counts(s, c[k])
      <4>1. \A k \in 1..n : k \in 1..n - 1 \/ k = n
        BY <2>1
      <4> QED BY <2>3, <2>7, <4>1
    <3> HIDE DEF x
    <3>3. x \in Come(p, q, s, t, v, w, c, limit, n)
      BY <2>3, <2>5, <3>1, <3>2 DEF Come
    <3> QED BY <2>1, <3>3 DEF Step, x
  <2>8. CASE Counts(r.synced, e)
    <3> DEFINE m == e.mutation
               y == Apply(r.synced, m)
               x == Replayed(r, e)
               z == v \o Updates(p, x.sent)
    <3>1. /\ e.type = "state" /\ CanApply(r.synced, m) /\ m \in Mutations /\ e \in Queued(c)
          /\ m.changedBy = p /\ m.timestamp <= limit /\ m.timestamp \in Int
      <4>1. e.type = "state" /\ CanApply(r.synced, m)
        BY <2>8 DEF Counts
      <4>2. m \in Mutations /\ e \in Queued(c)
        BY <1>0, <2>1, <4>1, EntryIs, QueuedIs
      <4> QED BY <4>1, <4>2 DEF Timely, Mutations
    <3>2. x = [synced |-> y, sent |-> Append(r.sent, y), done |-> Append(r.done, m.op)]
      BY <2>8, <3>1 DEF Replayed
    <3>3. Append(r.done, m.op) \in Seq(1..MaxWork)
      <4>1. m.op \in 1..MaxWork
        BY <3>1 DEF Mutations
      <4> QED BY <2>2, <4>1, AppendProperties
    <3>4. /\ y \in Snapshots /\ Writes(p, q, r.synced, y) /\ y.timestamp = m.timestamp
          /\ Both(p, q, y, t, Append(u, ToAll(p, StateUpdate(y))), w)
          /\ Live(Append(u, ToAll(p, StateUpdate(y))), y) \subseteq Live(u, r.synced) \cup {y}
          /\ \A a \in Live(w, t) : ~Newer(a, r.synced) => ~Newer(a, y)
      <4> HIDE DEF u, m
      <4>1. \A a \in Live(u, r.synced) \cup Live(w, t) : a.changedBy = p => a.timestamp <= m.timestamp
        BY <2>5, <3>1 DEF m
      <4> QED BY <2>2, <2>3, <2>6, <3>1, <4>1, BothUpdated
    <3> HIDE DEF y, m
    <3>5. z = Append(u, ToAll(p, StateUpdate(y))) /\ Append(r.sent, y) \in Seq(Snapshots)
          /\ Append(r.sent, y) # <<>> /\ Append(r.sent, y)[Len(Append(r.sent, y))] = y
      <4> HIDE DEF x
      <4>1. z = v \o Updates(p, Append(r.sent, y))
        BY <3>2
      <4> HIDE DEF z
      <4>2. /\ Append(r.sent, y) \in Seq(Snapshots) /\ Len(Append(r.sent, y)) = Len(r.sent) + 1
            /\ Append(r.sent, y)[Len(r.sent) + 1] = y /\ Len(r.sent) \in Nat
        BY <2>2, <3>4, AppendProperties, LenProperties
      <4>3. Append(r.sent, y) # <<>>
        <5>1. Len(Append(r.sent, y)) # 0
          BY <4>2
        <5> HIDE DEF y
        <5> QED BY <4>2, <5>1, EmptySeq
      <4>4. v \o Updates(p, Append(r.sent, y)) = Append(u, ToAll(p, StateUpdate(y)))
        BY <1>0, <2>2, <3>4, UpdatesAppended
      <4> QED BY <4>1, <4>2, <4>3, <4>4
    <3>6. x \in R /\ x.synced = y /\ x.sent = Append(r.sent, y)
      BY <3>2, <3>3, <3>4, <3>5
    <3> HIDE DEF x, z, u
    <3>7. y.changedBy = p /\ y.vectorClock[q] = s.vectorClock[q] /\ y \in Mine(p, q, s)
      BY <2>3, <3>4 DEF Writes, Mine
    <3>8. Live(z, y) \subseteq Live(v, s) \cup Mine(p, q, s)
      BY <2>3, <3>4, <3>5, <3>7
    <3>9. \A k \in n + 1..Len(c) : c[k].type = "state" => m.timestamp <= c[k].mutation.timestamp
      <4> SUFFICES ASSUME NEW k \in n + 1..Len(c), c[k].type = "state"
                   PROVE  m.timestamp <= c[k].mutation.timestamp
        OBVIOUS
      <4>1. k \in DOMAIN c /\ n \in DOMAIN c /\ n < k
        BY <1>0, <2>1
      <4>2. OpOf(e) < OpOf(c[k]) /\ c[k] \in Queued(c)
        BY <4>1, QueuedIs DEF Ordered
      <4> QED BY <3>1, <4>2 DEF Timely, m
    <3>10. \A a \in Live(z, y) \cup Live(w, t) : a.changedBy = p =>
               /\ a.timestamp <= limit
               /\ \A k \in n + 1..Len(c) : c[k].type = "state" => a.timestamp <= c[k].mutation.timestamp
      <4>1. \A a \in Live(z, y) \cup Live(w, t) : a \in Live(u, r.synced) \cup Live(w, t) \/ a = y
        BY <3>4, <3>5
      <4> QED BY <2>5, <3>1, <3>4, <3>9, <4>1
    <3>11. \A a \in Live(w, t) : ~Newer(a, s) => ~Newer(a, y)
      BY <2>3, <3>4
    <3>12. Both(p, q, x.synced, t, v \o Updates(p, x.sent), w)
      BY <3>4, <3>5, <3>6 DEF z
    <3>13. x \in Come(p, q, s, t, v, w, c, limit, n)
      BY <3>5, <3>6, <3>7, <3>8, <3>10, <3>11, <3>12 DEF Come, z
    <3> QED BY <2>1, <3>13 DEF Step, x
  <2> QED BY <2>7, <2>8
<1>2. Nothing(s) \in T[0] /\ T[Len(c)] = Come(p, q, s, t, v, w, c, limit, Len(c))
  <2>1. /\ Nothing(s) \in R /\ Nothing(s).synced = s /\ Nothing(s).sent = <<>>
        /\ v \o Updates(p, <<>>) = v
    BY <1>0, EmptySeq, UpdatesAppended DEF Nothing
  <2>2. \A k \in 0 + 1..Len(c) : c[k].type = "state" => c[k] \in Queued(c)
    BY <1>0, QueuedIs
  <2>3. \A k \in 1..0 : ~Counts(s, c[k])
    OBVIOUS
  <2>4. Nothing(s) \in Come(p, q, s, t, v, w, c, limit, 0)
    BY <2>1, <2>2, <2>3 DEF Come
  <2> QED BY <1>0, <2>4
<1> HIDE DEF T
<1>3. Fold("replay", Nothing(s), c) \in T[Len(c)]
  BY <1>1, <1>2, FoldKeeps
<1> QED BY <1>2, <1>3, ReplayFolds

(* A new page starts from its initial value: nobody has heard of a write of it, and what
   there is of it elsewhere is an earlier initial value. *)
LEMMA BothLoaded ==
  ASSUME NEW p, NEW q, Two(p, q), NEW s \in Snapshots, NEW t \in Snapshots,
         NEW w \in Seq(Signals), Both(p, q, s, t, <<>>, w), NEW at \in Int,
         \A a \in Live(w, t) :
             /\ a.vectorClock[p] = 0
             /\ a.changedBy = p => a = Initial(p, a.timestamp) /\ a.timestamp <= at
  PROVE  Both(p, q, Initial(p, at), t, <<>>, w)
<1> DEFINE n == Initial(p, at)
<1>1. /\ n \in Snapshots /\ n.changedBy = p /\ n.timestamp = at /\ p \in Peers /\ q \in Peers /\ p # q
      /\ n.vectorClock[p] = 0 /\ n.vectorClock[q] = 0 /\ Zero(n)
      /\ \A x \in Int : Initial(p, x).vectorClock = n.vectorClock /\ Initial(p, x).timestamp = x
  <2>1. p \in Peers /\ q \in Peers /\ p # q
    BY DEF Two
  <2> QED BY <2>1, InitialTyped DEF Initial, Zero
<1>2. /\ \A i : ~Tells(<<>>, i)
      /\ \A x : Live(<<>>, x) = {x}
  BY EmptySeq DEF Tells, Live
<1>3. /\ Live(w, t) \subseteq Snapshots /\ t \in Live(w, t)
      /\ \A a \in Live(w, t) : a = t \/ \E i : Tells(w, i) /\ a = Told(w, i)
      /\ \A i : Tells(w, i) => Told(w, i) \in Live(w, t)
  BY ToldTyped
<1>4. \A a \in Live(w, t) : a.changedBy = p =>
          /\ a.timestamp \in Int /\ a.vectorClock = n.vectorClock /\ a.timestamp <= at
          /\ a = n \/ a.timestamp < at
  <2> SUFFICES ASSUME NEW a \in Live(w, t), a.changedBy = p
               PROVE  /\ a.timestamp \in Int /\ a.vectorClock = n.vectorClock /\ a.timestamp <= at
                      /\ a = n \/ a.timestamp < at
    OBVIOUS
  <2>1. a = Initial(p, a.timestamp) /\ a.timestamp <= at /\ a.timestamp \in Int
    BY <1>3, NewerOfTwo
  <2>2. a.vectorClock = n.vectorClock
    BY <1>1, <2>1
  <2>3. a.timestamp = at => a = n
    BY <2>1
  <2> QED BY <2>1, <2>2, <2>3
<1> HIDE DEF n
<1>5. /\ Half(q, p, t, s, w) /\ Half(p, q, s, t, <<>>)
      /\ Apart(Live(<<>>, s) \cup Live(w, t))
  BY DEF Both
<1>6. Half(p, q, n, t, <<>>)
  <2>1. n.vectorClock[q] <= t.vectorClock[q]
    BY <1>1, NewerOfTwo
  <2>2. t.changedBy = p => Follows(p, q, t, n)
    BY <1>1, <1>3, <1>4 DEF Follows, Later, Wins
  <2> QED BY <1>1, <1>2, <2>1, <2>2 DEF Half
<1>7. Half(q, p, t, n, w)
  <2>1. \A i : Tells(w, i) /\ (Told(w, i).vectorClock[p] < t.vectorClock[p] \/ t.changedBy = p)
                              => ~Newer(Told(w, i), n)
    <3> SUFFICES ASSUME NEW i, Tells(w, i),
                        Told(w, i).vectorClock[p] < t.vectorClock[p] \/ t.changedBy = p
                 PROVE  ~Newer(Told(w, i), n)
      OBVIOUS
    <3>1. Told(w, i) \in Snapshots /\ Told(w, i) \in Live(w, t) /\ Later(q, p, Told(w, i), t)
      BY <1>3, <1>5 DEF Half, Follows
    <3>2. t.changedBy = p /\ t.vectorClock = n.vectorClock /\ t.timestamp <= at
      BY <1>3, <1>4, <3>1
    <3>3. Told(w, i).vectorClock[p] = 0
      BY <3>1
    <3>4. Told(w, i) = t \/ (Told(w, i).vectorClock = n.vectorClock /\ Wins(t, Told(w, i)))
      BY <1>1, <3>1, <3>2, <3>3, NewerOfTwo DEF Later
    <3> QED BY <1>1, <3>1, <3>2, <3>4, NewerOfTwo DEF Wins
  <2>2. \A a \in Live(w, t) : a.changedBy = p => ~Newer(a, n)
    BY <1>1, <1>3, <1>4, NewerOfTwo DEF Wins
  <2>3. t.vectorClock[p] <= n.vectorClock[p]
    BY <1>1, <1>3
  <2> QED BY <1>1, <1>5, <2>1, <2>2, <2>3 DEF Half
<1>8. Apart(Live(<<>>, n) \cup Live(w, t))
  <2> SUFFICES ASSUME NEW a \in {n} \cup Live(w, t), NEW b \in {n} \cup Live(w, t),
                      a.changedBy # b.changedBy, a.vectorClock = b.vectorClock
               PROVE  Zero(a)
    BY <1>2 DEF Apart
  <2>1. CASE a \in Live(w, t) /\ b \in Live(w, t)
    BY <1>5, <2>1 DEF Apart
  <2>2. CASE a = n \/ b = n
    BY <1>1, <2>2 DEF Zero
  <2> QED BY <2>1, <2>2
<1> QED BY <1>6, <1>7, <1>8 DEF Both, n

-----------------------------------------------------------------------------
\* The invariant of a room of two.

\* What is on its way from p to q, from the first signal to arrive to the last.
Way(p, q) == inbox[q] \o outbox[p]
On(p, q) == ToSet(inbox[q]) \cup ToSet(outbox[p])

Updating(G) == {g.message.snapshot : g \in {h \in G : h.message.type = "state:update"}}
Greeting(G) == \E g \in G : g.message.type = "hello"

\* Every snapshot that either has or that is on its way.
All(p, q) == Updating(On(p, q)) \cup Updating(On(q, p)) \cup {synced[p], synced[q]}

Exchange(p, q) == Both(p, q, synced[p], synced[q], Way(p, q), Way(q, p))

\* What p wrote is older than what it has queued and than the time of its clock.
Times(p, q) ==
    /\ Timely(p, queue[p], clock + Skew[p])
    /\ \A a \in All(p, q) : a.changedBy = p =>
           a.timestamp <= clock + Skew[p] /\ \A e \in Queued(queue[p]) : a.timestamp <= e.mutation.timestamp

\* Of a page that is not loaded nobody has more than an initial value.
Unheard(p, q) ==
    link[p] = "none" =>
        /\ On(p, q) = {} /\ ToSet(inbox[p]) = {}
        /\ \A a \in All(p, q) : /\ a.vectorClock[p] = 0
                                /\ a.changedBy = p => a = Initial(p, a.timestamp)

\* A replay over what p wrote itself makes a snapshot.
Replays(p) ==
    HasMutations(queue[p]) /\ synced[p].changedBy = p =>
        \E e \in Queued(queue[p]) : Counts(synced[p], e)

\* If p has news for q, q is going to be told: it is on its way, a hello asks for it, or the
\* end of a replay will tell it.
Informs(p, q) ==
    link[p] = "up" /\ link[q] = "up" /\ Newer(synced[p], synced[q]) =>
        \/ synced[p] \in Updating(On(p, q))
        \/ Greeting(On(q, p))
        \/ HasMutations(queue[p])

Addressed(p, q) ==
    /\ \A g \in ToSet(outbox[p]) : g.from = p /\ g.to \in {q, Everyone}
    /\ \A g \in ToSet(inbox[q]) : g.from = p

Side(p, q) ==
    /\ Exchange(p, q) /\ Times(p, q) /\ Unheard(p, q) /\ Replays(p)
    /\ Informs(p, q) /\ Addressed(p, q)

\* A page that is closed sends nothing any more.
Silent == \A r \in Peers : link[r] = "gone" => outbox[r] = <<>>

ConvergedInv == Silent /\ \A p, q \in Peers : p # q => Side(p, q)

(* The signals of a sequence. *)
LEMMA SignalsOf ==
  ASSUME NEW v \in Seq(Signals), NEW w \in Seq(Signals)
  PROVE  /\ ToSet(v \o w) = ToSet(v) \cup ToSet(w) /\ v \o w \in Seq(Signals)
         /\ ToSet(<<>>) = {} /\ (ToSet(v) = {} => v = <<>>)
         /\ v \o <<>> = v
         /\ ToSet(v) \subseteq Signals
         /\ \A m \in Signals : /\ ToSet(Append(v, m)) = ToSet(v) \cup {m}
                               /\ Append(v, m) \in Seq(Signals) /\ ToSet(<<m>>) = {m}
         /\ v # <<>> => /\ ToSet(v) = {Head(v)} \cup ToSet(Tail(v))
                        /\ Tail(v) \in Seq(Signals) /\ Head(v) \in Signals
         /\ \A s : Live(v, s) = Updating(ToSet(v)) \cup {s}
<1>1. /\ Len(v) \in Nat /\ DOMAIN v = 1..Len(v) /\ Len(w) \in Nat /\ DOMAIN w = 1..Len(w)
      /\ v \o w \in Seq(Signals) /\ DOMAIN (v \o w) = 1..Len(v) + Len(w)
      /\ \A i \in 1..Len(v) + Len(w) : (v \o w)[i] = IF i <= Len(v) THEN v[i] ELSE w[i - Len(v)]
      /\ v \o <<>> = v
      /\ \A i \in 1..Len(v) : v[i] \in Signals
  BY LenProperties, ConcatProperties, ConcatEmptySeq, ElementOfSeq
<1>2. ToSet(v \o w) = ToSet(v) \cup ToSet(w)
  <2>1. ASSUME NEW i \in 1..Len(v) + Len(w) PROVE (v \o w)[i] \in ToSet(v) \cup ToSet(w)
    <3>1. CASE i <= Len(v)
      BY <1>1, <3>1 DEF ToSet
    <3>2. CASE ~(i <= Len(v))
      <4>1. i - Len(v) \in 1..Len(w) /\ (v \o w)[i] = w[i - Len(v)]
        BY <1>1, <3>2
      <4> QED BY <1>1, <4>1 DEF ToSet
    <3> QED BY <3>1, <3>2
  <2>2. ASSUME NEW i \in 1..Len(v) PROVE v[i] \in ToSet(v \o w)
    BY <1>1 DEF ToSet
  <2>3. ASSUME NEW i \in 1..Len(w) PROVE w[i] \in ToSet(v \o w)
    <3>1. Len(v) + i \in 1..Len(v) + Len(w) /\ ~(Len(v) + i <= Len(v)) /\ Len(v) + i - Len(v) = i
      BY <1>1
    <3>2. (v \o w)[Len(v) + i] = w[i]
      BY <1>1, <3>1
    <3> QED BY <1>1, <3>1, <3>2 DEF ToSet
  <2>4. \A g \in ToSet(v \o w) : g \in ToSet(v) \cup ToSet(w)
    BY <1>1, <2>1 DEF ToSet
  <2>5. \A g \in ToSet(v) \cup ToSet(w) : g \in ToSet(v \o w)
    BY <1>1, <2>2, <2>3 DEF ToSet
  <2> QED BY <2>4, <2>5
<1>3. ToSet(<<>>) = {} /\ (ToSet(v) = {} => v = <<>>)
  <2>1. DOMAIN <<>> = {}
    BY EmptySeq
  <2>2. Len(v) # 0 => ToSet(v) # {}
    <3>1. Len(v) # 0 => 1 \in DOMAIN v
      BY <1>1
    <3> QED BY <3>1 DEF ToSet
  <2>3. Len(v) = 0 => v = <<>>
    BY EmptySeq
  <2>4. ToSet(<<>>) = {}
    BY <2>1 DEF ToSet
  <2> QED BY <2>2, <2>3, <2>4
<1>4. ToSet(v) \subseteq Signals
  BY <1>1 DEF ToSet
<1>5. ASSUME NEW m \in Signals
      PROVE  ToSet(Append(v, m)) = ToSet(v) \cup {m} /\ Append(v, m) \in Seq(Signals) /\ ToSet(<<m>>) = {m}
  <2>1. /\ Append(v, m) \in Seq(Signals) /\ DOMAIN Append(v, m) = 1..Len(v) + 1
        /\ \A i \in 1..Len(v) : Append(v, m)[i] = v[i]
        /\ Append(v, m)[Len(v) + 1] = m
    BY AppendProperties, LenProperties
  <2>2. DOMAIN <<m>> = {1} /\ <<m>>[1] = m
    OBVIOUS
  <2>3. ToSet(<<m>>) = {m}
    BY <2>2 DEF ToSet
  <2>4. \A g \in ToSet(Append(v, m)) : g \in ToSet(v) \cup {m}
    BY <1>1, <2>1 DEF ToSet
  <2>5. \A g \in ToSet(v) \cup {m} : g \in ToSet(Append(v, m))
    BY <1>1, <2>1 DEF ToSet
  <2> QED BY <2>1, <2>3, <2>4, <2>5
<1>6. ASSUME v # <<>>
      PROVE  ToSet(v) = {Head(v)} \cup ToSet(Tail(v)) /\ Tail(v) \in Seq(Signals) /\ Head(v) \in Signals
  <2>1. /\ Len(v) >= 1 /\ Tail(v) \in Seq(Signals) /\ Head(v) = v[1]
        /\ DOMAIN Tail(v) = 1..Len(v) - 1 /\ \A i \in 1..Len(v) - 1 : Tail(v)[i] = v[i + 1]
    BY <1>1, <1>6, HeadTailProperties, LenProperties, EmptySeq
  <2>2. \A g \in ToSet(v) : g \in {Head(v)} \cup ToSet(Tail(v))
    <3> SUFFICES ASSUME NEW i \in 1..Len(v) PROVE v[i] \in {Head(v)} \cup ToSet(Tail(v))
      BY <1>1 DEF ToSet
    <3>1. CASE i # 1
      <4>1. i - 1 \in 1..Len(v) - 1 /\ i - 1 + 1 = i
        BY <1>1, <3>1
      <4>2. Tail(v)[i - 1] = v[i]
        BY <2>1, <4>1
      <4> QED BY <2>1, <4>1, <4>2 DEF ToSet
    <3> QED BY <2>1, <3>1
  <2>3. \A g \in {Head(v)} \cup ToSet(Tail(v)) : g \in ToSet(v)
    BY <1>1, <2>1 DEF ToSet
  <2>4. Head(v) \in Signals
    BY <1>1, <2>1
  <2> QED BY <2>1, <2>2, <2>3, <2>4
<1>7. ASSUME NEW s PROVE Live(v, s) = Updating(ToSet(v)) \cup {s}
  BY DEF Live, Updating, ToSet, Tells, Told
<1> QED BY <1>1, <1>2, <1>3, <1>4, <1>5, <1>6, <1>7

(* Signals may be put together in any order. *)
LEMMA Associate ==
  ASSUME NEW u \in Seq(Signals), NEW v \in Seq(Signals), NEW w \in Seq(Signals)
  PROVE  u \o (v \o w) = (u \o v) \o w
BY ConcatAssociative

(* The ways between two peers, and all there is of snapshots. *)
LEMMA WaysTyped ==
  ASSUME SharedInv, NEW p, NEW q, Two(p, q)
  PROVE  /\ p \in Peers /\ q \in Peers /\ p # q
         /\ Way(p, q) \in Seq(Signals) /\ ToSet(Way(p, q)) = On(p, q) /\ On(p, q) \subseteq Signals
         /\ \A s : Live(Way(p, q), s) = Updating(On(p, q)) \cup {s}
         /\ All(p, q) = Live(Way(p, q), synced[p]) \cup Live(Way(q, p), synced[q])
         /\ All(p, q) = All(q, p)
         /\ synced[p] \in Snapshots /\ synced[q] \in Snapshots
         /\ All(p, q) \subseteq Snapshots
<1>1. p \in Peers /\ q \in Peers /\ p # q
  BY DEF Two
<1>2. TypeOK
  BY DEF SharedInv
<1>3. /\ outbox[p] \in Seq(Signals) /\ inbox[p] \in Seq(Signals) /\ synced[p] \in Snapshots
      /\ outbox[q] \in Seq(Signals) /\ inbox[q] \in Seq(Signals) /\ synced[q] \in Snapshots
  BY <1>1, <1>2, OwnTyped
<1>4. /\ Way(p, q) \in Seq(Signals) /\ ToSet(Way(p, q)) = On(p, q)
      /\ Way(q, p) \in Seq(Signals) /\ ToSet(Way(q, p)) = On(q, p)
  BY <1>3, SignalsOf DEF Way, On
<1>5. /\ \A s : Live(Way(p, q), s) = Updating(On(p, q)) \cup {s}
      /\ \A s : Live(Way(q, p), s) = Updating(On(q, p)) \cup {s}
      /\ On(p, q) \subseteq Signals
  BY <1>4, SignalsOf
<1>6. All(p, q) = Live(Way(p, q), synced[p]) \cup Live(Way(q, p), synced[q]) /\ All(p, q) = All(q, p)
  BY <1>5 DEF All
<1>7. All(p, q) \subseteq Snapshots
  BY <1>3, <1>4, <1>6, ToldTyped
<1> QED BY <1>1, <1>3, <1>4, <1>5, <1>6, <1>7

\* What a step of p leaves alone of q and of the ways between them.
Acts(p, q) ==
    /\ link'[q] = link[q] /\ synced'[q] = synced[q] /\ queue'[q] = queue[q] /\ outbox'[q] = outbox[q]
    /\ link'[p] # "none" /\ clock' \in Nat /\ clock <= clock'
    /\ ToSet(inbox'[p]) \subseteq ToSet(inbox[p])
    /\ ToSet(inbox'[q]) \subseteq On(p, q) /\ (link[q] = "none" => inbox'[q] = inbox[q])
    /\ \A g \in ToSet(outbox'[p]) : g \in ToSet(outbox[p]) \/ (g.from = p /\ g.to \in {q, Everyone})

(* A step of p keeps both sides, if it writes only what p may write and looks after its own
   times, its replay and what there is to tell. *)
LEMMA SidesKept ==
  ASSUME SharedInv, NEW p, NEW q, Two(p, q), Side(p, q), Side(q, p), Acts(p, q),
         \A x \in All(p, q)' :
             \/ x \in All(p, q)
             \/ x.changedBy = p /\ x.vectorClock[q] \in {0, synced[p].vectorClock[q]},
         Exchange(p, q)', Times(p, q)', Replays(p)', Informs(p, q)', Informs(q, p)'
  PROVE  Side(p, q)' /\ Side(q, p)'
<1>1. /\ p \in Peers /\ q \in Peers /\ p # q /\ All(p, q) = All(q, p) /\ All(p, q) \subseteq Snapshots
      /\ synced[p] \in All(p, q)
  BY WaysTyped DEF All
<1>2. All(p, q)' = All(q, p)'
  BY DEF All
<1>3. Exchange(q, p)'
  BY BothSides DEF Exchange
<1>4. /\ queue[q] \in Seq(Entries) /\ Skew[q] \in Int /\ clock \in Nat
  BY <1>1, OwnTyped DEF SharedInv
<1>5. Times(q, p)'
  <2>1. Timely(q, queue[q], clock + Skew[q]) /\ Timely(p, queue[p], clock + Skew[p])
    BY DEF Side, Times
  <2>2. \A e \in Queued(queue[q]) : e.mutation.timestamp \in Int
    BY <1>4, QueuedIs DEF Mutations
  <2>3. Timely(q, queue'[q], clock' + Skew[q])
    BY <1>4, <2>1, <2>2 DEF Timely, Acts
  <2>4. ASSUME NEW a \in All(q, p)', a.changedBy = q
        PROVE  /\ a.timestamp <= clock' + Skew[q]
               /\ \A e \in Queued(queue'[q]) : a.timestamp <= e.mutation.timestamp
    <3>1. a \in All(q, p)
      BY <1>1, <1>2, <2>4
    <3>2. a.timestamp \in Int
      BY <1>1, <3>1 DEF Snapshots
    <3>3. /\ a.timestamp <= clock + Skew[q]
          /\ \A e \in Queued(queue[q]) : a.timestamp <= e.mutation.timestamp
      BY <2>4, <3>1 DEF Side, Times
    <3>4. clock' \in Nat /\ clock <= clock' /\ queue'[q] = queue[q]
      BY DEF Acts
    <3>5. a.timestamp <= clock' + Skew[q]
      BY <1>4, <3>2, <3>3, <3>4
    <3> QED BY <3>3, <3>4, <3>5
  <2> QED BY <2>3, <2>4 DEF Times
<1>6. Replays(q)'
  BY DEF Side, Replays, Acts
<1>7. Unheard(q, p)'
  <2> SUFFICES ASSUME link'[q] = "none"
               PROVE  /\ On(q, p)' = {} /\ ToSet(inbox'[q]) = {}
                      /\ \A a \in All(q, p)' : /\ a.vectorClock[q] = 0
                                               /\ a.changedBy = q => a = Initial(q, a.timestamp)
    BY DEF Unheard
  <2>1. /\ On(q, p) = {} /\ ToSet(inbox[q]) = {}
        /\ \A a \in All(q, p) : /\ a.vectorClock[q] = 0
                                /\ a.changedBy = q => a = Initial(q, a.timestamp)
    BY DEF Side, Unheard, Acts
  <2>2. On(q, p)' = {} /\ ToSet(inbox'[q]) = {}
    BY <2>1 DEF On, Acts
  <2>3. ASSUME NEW a \in All(q, p)'
        PROVE  /\ a.vectorClock[q] = 0
               /\ a.changedBy = q => a = Initial(q, a.timestamp)
    <3>1. CASE a \in All(p, q)
      BY <1>1, <2>1, <3>1
    <3>2. CASE a.changedBy = p /\ a.vectorClock[q] \in {0, synced[p].vectorClock[q]}
      <4>1. synced[p].vectorClock[q] = 0
        BY <1>1, <2>1
      <4> QED BY <1>1, <3>2, <4>1
    <3> QED BY <1>2, <3>1, <3>2
  <2> QED BY <2>2, <2>3
<1>8. Unheard(p, q)'
  BY DEF Unheard, Acts
<1>9. Addressed(p, q)' /\ Addressed(q, p)'
  <2>1. Addressed(p, q) /\ Addressed(q, p)
    BY DEF Side
  <2>2. \A g \in On(p, q) : g.from = p
    BY <2>1 DEF Addressed, On
  <2> QED BY <2>1, <2>2 DEF Addressed, Acts
<1> QED BY <1>3, <1>5, <1>6, <1>7, <1>8, <1>9 DEF Side

(* The times of p stand while it neither writes nor queues anything. *)
LEMMA TimesKept ==
  ASSUME SharedInv, NEW p, NEW q, Two(p, q), Times(p, q), Queued(queue'[p]) \subseteq Queued(queue[p]),
         clock' \in Nat, clock <= clock', All(p, q)' \subseteq All(p, q)
  PROVE  Times(p, q)'
<1>1. /\ p \in Peers /\ All(p, q) \subseteq Snapshots
      /\ queue[p] \in Seq(Entries) /\ Skew[p] \in Int /\ clock \in Nat
  BY WaysTyped, OwnTyped DEF SharedInv
<1>2. \A e \in Queued(queue[p]) : e.mutation.timestamp \in Int
  BY <1>1, QueuedIs DEF Mutations
<1>3. Timely(p, queue[p], clock + Skew[p])
  BY DEF Times
<1>4. Timely(p, queue'[p], clock' + Skew[p])
  BY <1>1, <1>2, <1>3 DEF Timely
<1>5. ASSUME NEW a \in All(p, q)', a.changedBy = p
      PROVE  /\ a.timestamp <= clock' + Skew[p]
             /\ \A e \in Queued(queue'[p]) : a.timestamp <= e.mutation.timestamp
  <2>1. a \in All(p, q) /\ a.timestamp \in Int
    BY <1>1 DEF Snapshots
  <2>2. a.timestamp <= clock + Skew[p] /\ \A e \in Queued(queue[p]) : a.timestamp <= e.mutation.timestamp
    BY <1>5, <2>1 DEF Times
  <2> QED BY <1>1, <2>1, <2>2
<1> QED BY <1>4, <1>5 DEF Times

(* The connection of p comes or goes, or its page is closed, and what was on its way to or
   from p is lost, or nothing happens to it. *)
LEMMA QuietSides ==
  ASSUME SharedInv, NEW p, NEW q, Two(p, q), Side(p, q), Side(q, p),
         synced' = synced, queue'[q] = queue[q], clock' = clock,
         queue'[p] = queue[p] \/ (queue'[p] = <<>> /\ link'[p] # "up"),
         link'[q] = link[q], link'[p] # "none",
         UNCHANGED net \/ CutOff(p), link'[p] = "up" => link'[p] = link[p] /\ UNCHANGED net
  PROVE  Side(p, q)' /\ Side(q, p)'
<1>1. /\ p \in Peers /\ q \in Peers /\ p # q
      /\ outbox[p] \in Seq(Signals) /\ inbox[p] \in Seq(Signals) /\ outbox[q] \in Seq(Signals)
      /\ inbox[q] \in Seq(Signals) /\ clock \in Nat
      /\ outbox \in [Peers -> Seq(Signals)] /\ inbox \in [Peers -> Seq(Signals)]
  <2>1. TypeOK /\ p \in Peers /\ q \in Peers /\ p # q
    BY DEF SharedInv, Two
  <2> QED BY <2>1, OwnTyped DEF TypeOK
<1>2. /\ inbox'[q] = inbox[q] /\ outbox'[q] = outbox[q]
      /\ \/ inbox'[p] = inbox[p] /\ outbox'[p] = outbox[p]
         \/ inbox'[p] = <<>> /\ outbox'[p] = <<>>
  BY <1>1 DEF net, CutOff
<1>3. /\ Within(inbox[q] \o <<>>, Way(p, q)) /\ Within(<<>> \o outbox[q], Way(q, p))
      /\ Within(Way(p, q), Way(p, q)) /\ Within(Way(q, p), Way(q, p))
  <2>1. inbox[q] \o <<>> = inbox[q] /\ <<>> \o outbox[q] = outbox[q]
    BY <1>1, ConcatEmptySeq
  <2>2. /\ Within(inbox[q], inbox[q] \o outbox[p]) /\ Within(outbox[q], inbox[p] \o outbox[q])
        /\ inbox[q] \o outbox[p] \in Seq(Signals) /\ inbox[p] \o outbox[q] \in Seq(Signals)
    BY <1>1, WithinParts, ConcatProperties
  <2>3. /\ Within(inbox[q] \o outbox[p], inbox[q] \o outbox[p])
        /\ Within(inbox[p] \o outbox[q], inbox[p] \o outbox[q])
    BY <2>2, WithinParts
  <2> QED BY <2>1, <2>2, <2>3 DEF Way
<1>4. Within(Way(p, q)', Way(p, q)) /\ Within(Way(q, p)', Way(q, p))
  <2>1. Way(p, q)' = Way(p, q) \/ Way(p, q)' = inbox[q] \o <<>>
    BY <1>2 DEF Way
  <2>2. Way(q, p)' = Way(q, p) \/ Way(q, p)' = <<>> \o outbox[q]
    BY <1>2 DEF Way
  <2> QED BY <1>3, <2>1, <2>2
<1>5. Exchange(p, q)'
  <2>1. Exchange(p, q)
    BY DEF Side
  <2> QED BY <1>4, <2>1, BothWithin DEF Exchange
<1>6. /\ ToSet(inbox'[p]) \subseteq ToSet(inbox[p]) /\ ToSet(outbox'[p]) \subseteq ToSet(outbox[p])
      /\ ToSet(inbox'[q]) = ToSet(inbox[q]) /\ ToSet(outbox'[q]) = ToSet(outbox[q])
  BY <1>1, <1>2, SignalsOf
<1>7. Acts(p, q)
  BY <1>1, <1>2, <1>6 DEF Acts, On
<1>8. All(p, q)' \subseteq All(p, q)
  <2>1. On(p, q)' \subseteq On(p, q) /\ On(q, p)' \subseteq On(q, p)
    BY <1>6 DEF On
  <2> QED BY <2>1 DEF All, Updating
<1>9. Queued(<<>>) = {} /\ ~HasMutations(<<>>)
  BY EmptySeq, QueuedIs
<1>10. Times(p, q)' /\ Replays(p)'
  <2>1. Times(p, q) /\ Replays(p)
    BY DEF Side
  <2>2. Queued(queue'[p]) \subseteq Queued(queue[p])
    BY <1>9
  <2> QED BY <1>1, <1>8, <1>9, <2>1, <2>2, TimesKept DEF Replays
<1>11. Informs(p, q)' /\ Informs(q, p)'
  <2>1. CASE link'[p] = "up"
    <3>1. On(p, q)' = On(p, q) /\ On(q, p)' = On(q, p)
      BY <2>1 DEF On, net
    <3>2. link'[p] = link[p]
      BY <2>1
    <3>3. Informs(p, q) /\ Informs(q, p)
      BY DEF Side
    <3> QED BY <3>1, <3>2, <3>3 DEF Informs
  <2>2. CASE link'[p] # "up"
    BY <2>2 DEF Informs
  <2> QED BY <2>1, <2>2
<1> QED BY <1>5, <1>7, <1>8, <1>10, <1>11, SidesKept

(* An operation of p is queued. *)
LEMMA QueuedSides ==
  ASSUME SharedInv, NEW p, NEW q, Two(p, q), Side(p, q), Side(q, p),
         synced' = synced, UNCHANGED net, link' = link, link[p] # "none",
         clock' \in Nat, clock <= clock',
         NEW e \in Entries, queue' = [queue EXCEPT ![p] = AppendEntry(@, e)], OpOf(e) = ops + 1,
         e.type = "state" => /\ e.mutation.changedBy = p
                             /\ e.mutation.timestamp = clock' + Skew[p]
                             /\ HasMutations(queue[p]) \/ Counts(synced[p], e)
  PROVE  Side(p, q)' /\ Side(q, p)'
<1>1. /\ p \in Peers /\ q \in Peers /\ p # q /\ TypeOK /\ InOrder(p)
  BY DEF SharedInv, Two
<1>2. /\ queue[p] \in Seq(Entries) /\ clock \in Nat /\ Skew[p] \in Int /\ ops \in Nat
      /\ Cardinality(EventsOf(queue[p])) <= EventLimit /\ queue \in [Peers -> Seq(Entries)]
  BY <1>1, OwnTyped DEF TypeOK
<1>3. queue'[p] = AppendEntry(queue[p], e) /\ queue'[q] = queue[q]
  BY <1>1, <1>2
<1>4. /\ Queued(queue'[p]) = IF e.type = "state" THEN Queued(queue[p]) \cup {e} ELSE Queued(queue[p])
      /\ queue'[p] \in Seq(Entries)
  <2>1. Ordered(queue[p]) /\ \A i \in DOMAIN queue[p] : OpOf(queue[p][i]) < OpOf(e)
    <3>1. \A i \in DOMAIN queue[p] : OpOf(queue[p][i]) \in Int /\ OpOf(queue[p][i]) <= ops
      BY <1>1, <1>2, OpTyped DEF InOrder
    <3> QED BY <1>1, <1>2, <3>1 DEF InOrder
  <2> QED BY <1>2, <1>3, <2>1, QueuedAppended, EntryOrdered
<1>5. /\ HasMutations(queue[p]) <=> Queued(queue[p]) # {}
      /\ HasMutations(queue'[p]) <=> Queued(queue'[p]) # {}
      /\ \A d \in Queued(queue[p]) : d.mutation.timestamp \in Int /\ OpOf(d) \in Int /\ OpOf(d) <= ops
  <2>1. \A d \in Queued(queue[p]) : d.mutation \in Mutations /\ \E k \in DOMAIN queue[p] : d = queue[p][k]
    BY <1>2, QueuedIs
  <2>2. \A k \in DOMAIN queue[p] : OpOf(queue[p][k]) \in Int /\ OpOf(queue[p][k]) <= ops
    BY <1>1, <1>2, OpTyped DEF InOrder
  <2> QED BY <1>2, <1>4, <2>1, <2>2, QueuedIs DEF Mutations
<1>6. /\ On(p, q)' = On(p, q) /\ On(q, p)' = On(q, p) /\ All(p, q)' = All(p, q)
      /\ Way(p, q)' = Way(p, q) /\ Way(q, p)' = Way(q, p)
  BY DEF On, All, Way, net
<1>7. Acts(p, q)
  BY <1>3 DEF Acts, On, net
<1>8. Exchange(p, q)'
  BY <1>6 DEF Side, Exchange
<1>9. Times(p, q)'
  <2>1. /\ Timely(p, queue[p], clock + Skew[p])
        /\ \A a \in All(p, q) : a.changedBy = p =>
               a.timestamp <= clock + Skew[p] /\ \A d \in Queued(queue[p]) : a.timestamp <= d.mutation.timestamp
    BY DEF Side, Times
  <2>2. \A d \in Queued(queue[p]) : /\ d.mutation.changedBy = p /\ d.mutation.timestamp \in Int
                                    /\ d.mutation.timestamp <= clock' + Skew[p]
    BY <1>2, <1>5, <2>1 DEF Timely
  <2>3. Timely(p, queue'[p], clock' + Skew[p])
    <3>1. \A d \in Queued(queue'[p]) : /\ d.mutation.changedBy = p
                                       /\ d.mutation.timestamp <= clock' + Skew[p]
      BY <1>2, <1>4, <2>2
    <3>2. ASSUME NEW d \in Queued(queue'[p]), NEW f \in Queued(queue'[p]), OpOf(d) < OpOf(f)
          PROVE  d.mutation.timestamp <= f.mutation.timestamp
      <4>1. CASE d \in Queued(queue[p]) /\ f \in Queued(queue[p])
        BY <2>1, <3>2, <4>1 DEF Timely
      <4>2. CASE e.type = "state" /\ f = e
        BY <1>2, <1>4, <2>2, <4>2
      <4>3. CASE d = e /\ f \in Queued(queue[p])
        BY <1>2, <1>5, <3>2, <4>3
      <4> QED BY <1>4, <4>1, <4>2, <4>3
    <3> QED BY <3>1, <3>2 DEF Timely
  <2>4. ASSUME NEW a \in All(p, q), a.changedBy = p
        PROVE  /\ a.timestamp <= clock' + Skew[p]
               /\ \A d \in Queued(queue'[p]) : a.timestamp <= d.mutation.timestamp
    <3>1. a.timestamp \in Int
      BY <2>4, WaysTyped DEF Snapshots
    <3>2. a.timestamp <= clock' + Skew[p]
      BY <1>2, <2>1, <2>4, <3>1
    <3> QED BY <1>4, <2>1, <2>4, <3>2
  <2> QED BY <1>6, <2>3, <2>4 DEF Times
<1>10. Replays(p)'
  <2> SUFFICES ASSUME HasMutations(queue'[p]), synced[p].changedBy = p
               PROVE  \E d \in Queued(queue'[p]) : Counts(synced[p], d)
    BY DEF Replays
  <2>1. CASE HasMutations(queue[p])
    <3>1. \E d \in Queued(queue[p]) : Counts(synced[p], d)
      BY <2>1 DEF Side, Replays
    <3> QED BY <1>4, <3>1
  <2>2. CASE ~HasMutations(queue[p])
    BY <1>4, <1>5, <2>2
  <2> QED BY <2>1, <2>2
<1>11. Informs(p, q)' /\ Informs(q, p)'
  <2>1. Informs(p, q) /\ Informs(q, p)
    BY DEF Side
  <2>2. HasMutations(queue[p]) => HasMutations(queue'[p])
    BY <1>4, <1>5
  <2> QED BY <1>3, <1>6, <2>1, <2>2 DEF Informs
<1> QED BY <1>6, <1>7, <1>8, <1>9, <1>10, <1>11, SidesKept

(* p goes from what it has to n, sending what it comes to on the way; nothing is queued then. *)
LEMMA WrittenSides ==
  ASSUME SharedInv, NEW p, NEW q, Two(p, q), Side(p, q), Side(q, p),
         link' = link, link[p] # "none", inbox' = inbox, clock' \in Nat, clock <= clock',
         NEW n \in Snapshots, synced' = [synced EXCEPT ![p] = n],
         queue' = [queue EXCEPT ![p] = <<>>],
         NEW sent \in Seq(Signals), Send(p, sent), \A g \in ToSet(sent) : g.from = p /\ g.to = Everyone,
         Both(p, q, n, synced[q], Way(p, q) \o sent, Way(q, p)),
         Live(Way(p, q) \o sent, n) \subseteq Live(Way(p, q), synced[p]) \cup Mine(p, q, synced[p]),
         \A a \in Live(Way(p, q) \o sent, n) \cup Live(Way(q, p), synced[q]) :
             a.changedBy = p => a.timestamp <= clock' + Skew[p],
         \A a \in Live(Way(q, p), synced[q]) : ~Newer(a, synced[p]) => ~Newer(a, n),
         \/ n \in Updating(ToSet(sent))
         \/ n = synced[p] /\ (HasMutations(queue[p]) => ~Newer(synced[p], synced[q]))
  PROVE  Side(p, q)' /\ Side(q, p)'
<1>1. /\ p \in Peers /\ q \in Peers /\ p # q
      /\ outbox[p] \in Seq(Signals) /\ inbox[p] \in Seq(Signals) /\ outbox[q] \in Seq(Signals)
      /\ inbox[q] \in Seq(Signals) /\ synced[q] \in Snapshots
      /\ outbox \in [Peers -> Seq(Signals)] /\ synced \in [Peers -> Snapshots]
      /\ queue \in [Peers -> Seq(Entries)]
  <2>1. TypeOK /\ p \in Peers /\ q \in Peers /\ p # q
    BY DEF SharedInv, Two
  <2> QED BY <2>1, OwnTyped DEF TypeOK
<1>2. /\ synced'[p] = n /\ synced'[q] = synced[q] /\ queue'[p] = <<>> /\ queue'[q] = queue[q]
      /\ outbox'[q] = outbox[q]
      /\ outbox'[p] = IF Reachable(p) THEN outbox[p] \o sent ELSE outbox[p]
  BY <1>1 DEF Send
<1>3. /\ Way(p, q) \in Seq(Signals) /\ Way(p, q) \o sent \in Seq(Signals)
      /\ Way(q, p) \in Seq(Signals)
      /\ Within(Way(p, q), Way(p, q) \o sent) /\ Within(Way(p, q) \o sent, Way(p, q) \o sent)
      /\ Within(Way(q, p), Way(q, p))
  <2>1. Way(p, q) \in Seq(Signals) /\ Way(q, p) \in Seq(Signals)
    BY <1>1, ConcatProperties DEF Way
  <2>2. Way(p, q) \o sent \in Seq(Signals)
    BY <2>1, ConcatProperties
  <2> QED BY <2>1, <2>2, WithinParts
<1>4. Way(q, p)' = Way(q, p)
      /\ Way(p, q)' = IF Reachable(p) THEN Way(p, q) \o sent ELSE Way(p, q)
  <2>1. inbox[q] \o (outbox[p] \o sent) = (inbox[q] \o outbox[p]) \o sent
    BY <1>1, Associate
  <2> QED BY <1>2, <2>1 DEF Way
<1>5. Exchange(p, q)'
  <2>1. Within(Way(p, q)', Way(p, q) \o sent)
    BY <1>3, <1>4
  <2>2. Both(p, q, n, synced[q], Way(p, q)', Way(q, p))
    BY <1>3, <2>1, BothWithin
  <2> QED BY <1>2, <1>4, <2>2 DEF Exchange
<1>6. /\ On(q, p)' = On(q, p)
      /\ On(p, q)' = IF Reachable(p) THEN On(p, q) \cup ToSet(sent) ELSE On(p, q)
  <2>1. ToSet(outbox[p] \o sent) = ToSet(outbox[p]) \cup ToSet(sent)
    BY <1>1, SignalsOf
  <2> QED BY <1>2, <2>1 DEF On
<1>7. /\ Live(Way(p, q) \o sent, n) = Updating(On(p, q) \cup ToSet(sent)) \cup {n}
      /\ Live(Way(q, p), synced[q]) = Updating(On(q, p)) \cup {synced[q]}
      /\ All(p, q) = Live(Way(p, q), synced[p]) \cup Live(Way(q, p), synced[q])
  <2>1. /\ ToSet(Way(p, q)) = On(p, q) /\ ToSet(Way(q, p)) = On(q, p)
        /\ All(p, q) = Live(Way(p, q), synced[p]) \cup Live(Way(q, p), synced[q])
    <3>1. Two(q, p)
      BY DEF Two
    <3> QED BY <3>1, WaysTyped
  <2>2. ToSet(Way(p, q) \o sent) = On(p, q) \cup ToSet(sent)
    BY <1>3, <2>1, SignalsOf
  <2>3. ASSUME NEW v \in Seq(Signals), NEW x PROVE Live(v, x) = Updating(ToSet(v)) \cup {x}
    BY SignalsOf
  <2>4. Live(Way(p, q) \o sent, n) = Updating(On(p, q) \cup ToSet(sent)) \cup {n}
    BY <1>3, <2>2, <2>3
  <2> QED BY <1>3, <2>1, <2>3, <2>4
<1>8. All(p, q)' \subseteq Live(Way(p, q) \o sent, n) \cup Live(Way(q, p), synced[q])
  <2>1. Updating(On(p, q)') \subseteq Updating(On(p, q) \cup ToSet(sent))
    BY <1>6 DEF Updating
  <2>2. All(p, q)' = Updating(On(p, q)') \cup Updating(On(q, p)) \cup {n, synced[q]}
    BY <1>2, <1>6 DEF All
  <2> QED BY <1>7, <2>1, <2>2
<1>9. Acts(p, q)
  <2>1. ToSet(outbox[p] \o sent) = ToSet(outbox[p]) \cup ToSet(sent)
    BY <1>1, SignalsOf
  <2> QED BY <1>2, <2>1 DEF Acts, On
<1>10. \A x \in All(p, q)' :
           \/ x \in All(p, q)
           \/ x.changedBy = p /\ x.vectorClock[q] \in {0, synced[p].vectorClock[q]}
  BY <1>7, <1>8 DEF Mine
<1>11. Queued(<<>>) = {} /\ ~HasMutations(<<>>)
  <2>1. <<>> \in Seq(Entries)
    BY EmptySeq
  <2> QED BY <2>1, QueuedIs
<1>12. Times(p, q)'
  BY <1>2, <1>8, <1>11 DEF Times, Timely
<1>13. Replays(p)'
  BY <1>2, <1>11 DEF Replays
<1>14. Informs(p, q)' /\ Informs(q, p)'
  <2>1. Informs(p, q) /\ Informs(q, p)
    BY DEF Side
  <2>2. ASSUME link[p] = "up", link[q] = "up", Newer(n, synced[q])
        PROVE  n \in Updating(On(p, q)') \/ Greeting(On(q, p)) \/ HasMutations(queue'[p])
    <3>1. On(p, q)' = On(p, q) \cup ToSet(sent)
      BY <1>6, <2>2 DEF Reachable
    <3>2. CASE n \in Updating(ToSet(sent))
      BY <3>1, <3>2 DEF Updating
    <3>3. CASE n = synced[p] /\ (HasMutations(queue[p]) => ~Newer(synced[p], synced[q]))
      <4>1. n \in Updating(On(p, q)) \/ Greeting(On(q, p))
        BY <2>1, <2>2, <3>3 DEF Informs
      <4>2. n \in Updating(On(p, q)) => n \in Updating(On(p, q)')
        BY <3>1 DEF Updating
      <4> QED BY <4>1, <4>2
    <3> QED BY <3>2, <3>3
  <2>3. ASSUME link[p] = "up", link[q] = "up", Newer(synced[q], n)
        PROVE  synced[q] \in Updating(On(q, p)) \/ Greeting(On(p, q)') \/ HasMutations(queue[q])
    <3>1. Newer(synced[q], synced[p])
      BY <1>7, <2>3
    <3>2. synced[q] \in Updating(On(q, p)) \/ Greeting(On(p, q)) \/ HasMutations(queue[q])
      BY <2>1, <2>3, <3>1 DEF Informs
    <3>3. Greeting(On(p, q)) => Greeting(On(p, q)')
      BY <1>6 DEF Greeting
    <3> QED BY <3>2, <3>3
  <2> QED BY <1>2, <1>6, <2>2, <2>3 DEF Informs
<1> QED BY <1>5, <1>9, <1>10, <1>12, <1>13, <1>14, SidesKept

(* Without mutations in its queue a peer shows what it shares. *)
LEMMA ShowsShared ==
  ASSUME SharedInv, NEW p \in Peers, ~HasMutations(queue[p])
  PROVE  shown[p] = synced[p]
<1>1. queue[p] \in Seq(Entries) /\ shown[p] = Project(synced[p], queue[p])
  BY OwnTyped DEF SharedInv, ShownIsProjection
<1> QED BY <1>1, ProjectNothing

(* A broadcast of p, for the other. *)
LEMMA Broadcast ==
  ASSUME NEW p \in Peers, NEW n \in Snapshots
  PROVE  LET g == ToAll(p, StateUpdate(n)) IN
         /\ g \in Signals /\ g.from = p /\ g.to = Everyone /\ n \in Updating({g})
         /\ <<g>> \in Seq(Signals) /\ ToSet(<<g>>) = {g}
         /\ \A v \in Seq(Signals) : v \o <<g>> = Append(v, g)
<1> DEFINE g == ToAll(p, StateUpdate(n))
<1>1. g \in Signals
  BY SignalsTyped DEF ToAll
<1>2. g.from = p /\ g.to = Everyone /\ g.message.type = "state:update" /\ g.message.snapshot = n
  BY DEF ToAll, Signal, StateUpdate
<1> HIDE DEF g
<1>3. <<g>> \in Seq(Signals) /\ \A v \in Seq(Signals) : v \o <<g>> = Append(v, g)
  BY <1>1, AppendIsConcat, ShortSeqs
<1>4. n \in Updating({g})
  BY <1>2 DEF Updating
<1>5. ToSet(<<g>>) = {g}
  <2>1. <<>> \in Seq(Signals)
    BY EmptySeq
  <2> QED BY <1>1, <2>1, SignalsOf
<1> QED BY <1>1, <1>2, <1>3, <1>4, <1>5 DEF g

\* A mutation writes a snapshot or queues one; p has then written above all it knows.
LEMMA MutateSides ==
  ASSUME SharedInv, NEW p, NEW q, Two(p, q), Side(p, q), Side(q, p),
         NEW kind \in Kinds[p], Mutate(p, kind)
  PROVE  Side(p, q)' /\ Side(q, p)'
<1>0. p \in Peers /\ q \in Peers /\ p # q
  BY DEF Two
<1>1. PICK d \in Advance :
        LET m == [kind |-> kind, op |-> ops + 1, changedBy |-> p,
                  timestamp |-> clock + d + Skew[p]]
            s == Apply(shown[p], m)
        IN  /\ Running(p)
            /\ CanApply(shown[p], m)
            /\ NextOperation(p, clock + d)
            /\ shown' = [shown EXCEPT ![p] = s]
            /\ IF ShouldQueue(p)
               THEN Enqueue(p, StateEntry(m, s)) /\ UNCHANGED synced
               ELSE /\ synced' = [synced EXCEPT ![p] = s]
                    /\ Dispatch(p, <<ToAll(p, StateUpdate(s))>>)
  BY DEF Mutate
<1> DEFINE m == [kind |-> kind, op |-> ops + 1, changedBy |-> p,
                 timestamp |-> clock + d + Skew[p]]
           s == Apply(shown[p], m)
<1>2. /\ CanApply(shown[p], m) /\ NextOperation(p, clock + d) /\ Running(p)
      /\ ShouldQueue(p) => Enqueue(p, StateEntry(m, s)) /\ synced' = synced
      /\ ~ShouldQueue(p) => /\ synced' = [synced EXCEPT ![p] = s]
                            /\ Dispatch(p, <<ToAll(p, StateUpdate(s))>>)
  BY <1>1
<1>3. TypeOK
  BY DEF SharedInv
<1>4. /\ clock + d \in Nat /\ clock + d + Skew[p] \in Int /\ clock <= clock + d /\ clock \in Nat
      /\ shown[p] \in Snapshots
  BY <1>0, <1>3, OwnTyped, TimeGoesOn
<1>5. /\ ops + 1 \in 1..MaxWork /\ inbox' = inbox /\ link' = link /\ clock' = clock + d
      /\ link[p] # "none"
  <2>1. ops + 1 \in 1..MaxWork
    BY <1>0, <1>2, <1>3, <1>4, BudgetKept
  <2> QED BY <1>2, <2>1 DEF NextOperation, Running
<1>6. /\ m \in Mutations /\ m.op = ops + 1 /\ m.changedBy = p /\ m.timestamp = clock' + Skew[p]
  <2>1. kind \in MutationKinds
    BY <1>0, KindsOfPeers
  <2> QED BY <1>0, <1>4, <1>5, <2>1 DEF Mutations
<1> HIDE DEF m
<1>7. s \in Snapshots /\ Newer(s, shown[p])
  BY <1>2, <1>4, <1>6, Applied
<1>8. CASE ShouldQueue(p)
  <2> DEFINE e == StateEntry(m, s)
  <2> HIDE DEF s
  <2>1. e \in Entries /\ OpOf(e) = ops + 1 /\ e.type = "state" /\ e.mutation = m /\ e.snapshot = s
    BY <1>6, <1>7 DEF StateEntry, Entries, OpOf
  <2>2. queue' = [queue EXCEPT ![p] = AppendEntry(@, e)] /\ outbox' = outbox /\ synced' = synced
    BY <1>2, <1>8 DEF Enqueue
  <2> HIDE DEF e
  <2>3. ~HasMutations(queue[p]) => Counts(synced[p], e)
    BY <1>0, <1>2, <1>7, <2>1, ShowsShared DEF Counts
  <2>4. UNCHANGED net
    BY <1>5, <2>2 DEF net
  <2> QED BY <1>4, <1>5, <1>6, <2>1, <2>2, <2>3, <2>4, QueuedSides
<1>9. CASE ~ShouldQueue(p)
  <2> DEFINE g == ToAll(p, StateUpdate(s))
             t == synced[q]
             v == Way(p, q)
             w == Way(q, p)
  <2>1. queue[p] = <<>> /\ ~HasMutations(queue[p])
    BY <1>9, EmptySeq DEF ShouldQueue, HasMutations
  <2>2. shown[p] = synced[p]
    BY <1>0, <2>1, ShowsShared
  <2>3. /\ synced' = [synced EXCEPT ![p] = s] /\ queue' = queue /\ Send(p, <<g>>)
    BY <1>2, <1>9 DEF Dispatch
  <2>4. queue' = [queue EXCEPT ![p] = <<>>]
    BY <1>3, <2>1, <2>3 DEF TypeOK
  <2>5. /\ v \in Seq(Signals) /\ w \in Seq(Signals) /\ t \in Snapshots /\ synced[p] \in Snapshots
        /\ All(p, q) = Live(v, synced[p]) \cup Live(w, t) /\ All(p, q) \subseteq Snapshots
    <3>1. Two(q, p)
      BY DEF Two
    <3> QED BY <3>1, WaysTyped
  <2>6. \A a \in Live(v, synced[p]) \cup Live(w, t) : a.changedBy = p =>
            a.timestamp <= m.timestamp /\ a.timestamp <= clock' + Skew[p]
    <3> SUFFICES ASSUME NEW a \in All(p, q), a.changedBy = p PROVE a.timestamp <= clock' + Skew[p]
      BY <1>6, <2>5
    <3>1. a.timestamp <= clock + Skew[p] /\ a.timestamp \in Int
      BY <2>5 DEF Side, Times, Snapshots
    <3>2. Skew[p] \in Int
      BY <1>0, SkewOfPeers
    <3> QED BY <1>4, <1>5, <3>1, <3>2
  <2>7. s = Apply(synced[p], m) /\ CanApply(synced[p], m) /\ Both(p, q, synced[p], t, v, w)
    BY <1>2, <2>2 DEF Side, Exchange
  <2> HIDE DEF s, v, w, t
  <2>8. /\ Writes(p, q, synced[p], s) /\ s.timestamp = m.timestamp
        /\ Both(p, q, s, t, Append(v, g), w)
        /\ Live(Append(v, g), s) \subseteq Live(v, synced[p]) \cup {s}
        /\ \A a \in Live(w, t) : ~Newer(a, synced[p]) => ~Newer(a, s)
    BY <1>6, <2>5, <2>6, <2>7, BothUpdated
  <2>9. /\ <<g>> \in Seq(Signals) /\ ToSet(<<g>>) = {g} /\ v \o <<g>> = Append(v, g)
        /\ g.from = p /\ g.to = Everyone /\ s \in Updating({g})
    BY <1>0, <1>7, <2>5, Broadcast
  <2>10. s \in Mine(p, q, synced[p])
    BY <1>7, <2>8 DEF Writes, Mine
  <2> HIDE DEF g
  <2>11. \A a \in Live(v \o <<g>>, s) \cup Live(w, t) : a.changedBy = p => a.timestamp <= clock' + Skew[p]
    <3>1. s.timestamp <= clock' + Skew[p]
      BY <1>4, <1>5, <1>6, <2>8
    <3> QED BY <2>6, <2>8, <2>9, <3>1
  <2>12. Live(v \o <<g>>, s) \subseteq Live(v, synced[p]) \cup Mine(p, q, synced[p])
    BY <2>8, <2>9, <2>10
  <2> QED BY <1>4, <1>5, <1>7, <2>3, <2>4, <2>8, <2>9, <2>11, <2>12, WrittenSides DEF v, w, t
<1> QED BY <1>8, <1>9

\* Events carry no snapshot.
LEMMA EmitSides ==
  ASSUME SharedInv, NEW p, NEW q, Two(p, q), Side(p, q), Side(q, p), Emit(p)
  PROVE  Side(p, q)' /\ Side(q, p)'
<1>1. p \in Peers /\ TypeOK
  BY DEF Two, SharedInv
<1>2. /\ link' = link /\ link[p] # "none" /\ clock' = clock /\ synced' = synced /\ inbox' = inbox
      /\ clock \in Nat
  BY <1>1, OwnTyped DEF Emit, NextOperation, Running
<1>3. CASE ShouldQueue(p)
  <2> DEFINE e == EventEntry(ops + 1)
  <2>1. ops + 1 \in 1..MaxWork
    BY <1>1, <1>2, BudgetKept DEF Emit
  <2>2. e \in Entries /\ OpOf(e) = ops + 1 /\ e.type = "event"
    BY <2>1 DEF EventEntry, Entries, OpOf
  <2>3. queue' = [queue EXCEPT ![p] = AppendEntry(@, e)] /\ outbox' = outbox
    BY <1>3 DEF Emit, Enqueue
  <2> HIDE DEF e
  <2>4. UNCHANGED net
    BY <1>2, <2>3 DEF net
  <2>5. e.type # "state" /\ clock' \in Nat /\ clock <= clock'
    BY <1>2, <2>2
  <2> QED BY <1>2, <2>2, <2>3, <2>4, <2>5, QueuedSides
<1>4. CASE ~ShouldQueue(p)
  <2>1. Send(p, <<>>) /\ queue' = queue
    BY <1>4 DEF Emit, Dispatch
  <2>2. outbox[p] \o <<>> = outbox[p] /\ outbox \in [Peers -> Seq(Signals)]
    BY <1>1, OwnTyped, SignalsOf DEF TypeOK
  <2>3. outbox' = [outbox EXCEPT ![p] = outbox[p] \o <<>>] \/ outbox' = outbox
    BY <2>1 DEF Send
  <2>4. UNCHANGED net
    BY <1>2, <2>2, <2>3 DEF net
  <2> QED BY <1>2, <2>1, <2>4, QuietSides
<1> QED BY <1>3, <1>4

\* A replay writes a chain of snapshots over the synced state of p and sends each.
LEMMA ReplaySides ==
  ASSUME SharedInv, NEW p, NEW q, Two(p, q), Side(p, q), Side(q, p), ReplayTimer(p)
  PROVE  Side(p, q)' /\ Side(q, p)'
<1>1. p \in Peers /\ TypeOK /\ InOrder(p)
  BY DEF Two, SharedInv
<1>2. /\ link' = link /\ clock' = clock /\ inbox' = inbox /\ clock \in Nat /\ Skew[p] \in Int
      /\ synced[p] \in Snapshots /\ queue[p] \in Seq(Entries)
      /\ Ordered(queue[p])
  BY <1>1, OwnTyped DEF ReplayTimer, bounds, InOrder
<1>3. link[p] # "none"
  BY <1>1 DEF SharedInv, IInv, AtRest, ReplayTimer, Running
<1>4. CASE ~HasTransport(p)
  <2>1. synced' = synced /\ queue' = queue /\ outbox' = outbox
    BY <1>4 DEF ReplayTimer, states
  <2>2. UNCHANGED net
    BY <1>2, <2>1 DEF net
  <2> QED BY <1>2, <1>3, <2>1, <2>2, QuietSides
<1>5. CASE HasTransport(p)
  <2> DEFINE r == Replay(synced[p], queue[p])
             t == synced[q]
             v == Way(p, q)
             w == Way(q, p)
             limit == clock + Skew[p]
             sent == Updates(p, r.sent)
  <2>1. /\ synced' = [synced EXCEPT ![p] = r.synced]
        /\ queue' = [queue EXCEPT ![p] = <<>>]
        /\ Send(p, sent)
    BY <1>5 DEF ReplayTimer, Updates
  <2>2. /\ v \in Seq(Signals) /\ w \in Seq(Signals) /\ t \in Snapshots
        /\ All(p, q) = Live(v, synced[p]) \cup Live(w, t)
    <3>1. Two(q, p)
      BY DEF Two
    <3> QED BY <3>1, WaysTyped
  <2>3. /\ Both(p, q, synced[p], t, v, w) /\ limit \in Int
        /\ Timely(p, queue[p], limit)
        /\ \A a \in Live(v, synced[p]) \cup Live(w, t) : a.changedBy = p =>
               a.timestamp <= limit /\ \A e \in Queued(queue[p]) : a.timestamp <= e.mutation.timestamp
    BY <1>2, <2>2 DEF Side, Exchange, Times
  <2> HIDE DEF t, v, w, limit
  <2>4. r \in Come(p, q, synced[p], t, v, w, queue[p], limit, Len(queue[p]))
    BY <1>2, <2>2, <2>3, ReplayComes
  <2> HIDE DEF r
  <2>5. /\ r.synced \in Snapshots /\ r.sent \in Seq(Snapshots)
        /\ Both(p, q, r.synced, t, v \o sent, w)
        /\ \A a \in Live(v \o sent, r.synced) \cup Live(w, t) : a.changedBy = p => a.timestamp <= limit
        /\ Live(v \o sent, r.synced) \subseteq Live(v, synced[p]) \cup Mine(p, q, synced[p])
        /\ \A a \in Live(w, t) : ~Newer(a, synced[p]) => ~Newer(a, r.synced)
        /\ r.sent = <<>> => r.synced = synced[p] /\ \A k \in 1..Len(queue[p]) : ~Counts(synced[p], queue[p][k])
        /\ r.sent # <<>> => r.sent[Len(r.sent)] = r.synced
    BY <2>4 DEF Come
  <2>6. /\ Len(r.sent) \in Nat /\ DOMAIN r.sent = 1..Len(r.sent)
        /\ \A i \in 1..Len(r.sent) : r.sent[i] \in Snapshots
        /\ Len(queue[p]) \in Nat /\ DOMAIN queue[p] = 1..Len(queue[p])
    BY <1>2, <2>5, LenProperties, ElementOfSeq
  <2>7. /\ sent \in Seq(Signals)
        /\ \A g \in ToSet(sent) : \E i \in 1..Len(r.sent) : g = ToAll(p, StateUpdate(r.sent[i]))
        /\ \A i \in 1..Len(r.sent) : ToAll(p, StateUpdate(r.sent[i])) \in ToSet(sent)
    <3>1. sent \in Seq(Signals)
      BY <1>1, <2>2, <2>5, UpdatesAppended
    <3> QED BY <2>6, <3>1 DEF ToSet, Updates
  <2> HIDE DEF sent
  <2>8. \A g \in ToSet(sent) : g.from = p /\ g.to = Everyone
    <3> SUFFICES ASSUME NEW g \in ToSet(sent) PROVE g.from = p /\ g.to = Everyone
      OBVIOUS
    <3>1. PICK i \in 1..Len(r.sent) : g = ToAll(p, StateUpdate(r.sent[i]))
      BY <2>7
    <3> QED BY <3>1 DEF ToAll, Signal
  <2>9. \/ r.synced \in Updating(ToSet(sent))
        \/ r.synced = synced[p] /\ (HasMutations(queue[p]) => ~Newer(synced[p], synced[q]))
    <3>1. CASE r.sent # <<>>
      <4> DEFINE g == ToAll(p, StateUpdate(r.synced))
      <4>1. Len(r.sent) \in 1..Len(r.sent)
        BY <2>5, <2>6, <3>1, EmptySeq
      <4>2. g \in ToSet(sent)
        BY <2>5, <2>7, <3>1, <4>1
      <4>3. r.synced \in Updating({g})
        BY <1>1, <2>5, Broadcast
      <4> HIDE DEF g
      <4> QED BY <4>2, <4>3 DEF Updating
    <3>2. CASE r.sent = <<>>
      <4> SUFFICES ASSUME HasMutations(queue[p]) PROVE ~Newer(synced[p], synced[q])
        BY <2>5, <3>2
      <4>1. \A e \in Queued(queue[p]) : ~Counts(synced[p], e)
        BY <1>2, <2>5, <2>6, <3>2, QueuedIs
      <4>2. synced[p].changedBy # p
        BY <4>1 DEF Side, Replays
      <4>3. synced[p].changedBy = q
        BY <1>2, <4>2, NewerOfTwo
      <4>4. synced[p] \in Live(v, synced[p]) /\ Half(p, q, synced[p], t, v)
        BY <1>2, <2>2, <2>3, ToldTyped DEF Both
      <4> QED BY <4>3, <4>4 DEF Half, t
    <3> QED BY <3>1, <3>2
  <2>10. /\ clock' \in Nat /\ clock <= clock'
         /\ \A a \in Live(v \o sent, r.synced) \cup Live(w, t) :
                a.changedBy = p => a.timestamp <= clock' + Skew[p]
    BY <1>2, <2>5 DEF limit
  <2> QED BY <1>2, <1>3, <2>1, <2>5, <2>7, <2>8, <2>9, <2>10, WrittenSides DEF t, v, w
<1> QED BY <1>4, <1>5

\* A connection that ends loses what is on its way and changes no snapshot.
LEMMA LinkSides ==
  ASSUME SharedInv, NEW p, NEW q, Two(p, q), Side(p, q), Side(q, p),
         Break(p) \/ HandleLoss(p) \/ Disconnect(p) \/ Disconnected(p)
  PROVE  Side(p, q)' /\ Side(q, p)'
<1>1. p \in Peers /\ q \in Peers /\ p # q /\ link \in [Peers -> Links]
  BY DEF Two, SharedInv, TypeOK
<1>2. /\ synced' = synced /\ queue' = queue /\ clock' = clock
      /\ UNCHANGED net \/ CutOff(p)
      /\ \E l \in {"dead", "off", "leaving"} : link' = [link EXCEPT ![p] = l]
  BY DEF Break, HandleLoss, Disconnect, Disconnected, states, bounds
<1>3. link'[q] = link[q] /\ link'[p] # "none" /\ link'[p] # "up"
  BY <1>1, <1>2
<1> QED BY <1>2, <1>3, QuietSides

(* The head and the tail of a way are those of its first part. *)
LEMMA HeadOfWay ==
  ASSUME NEW v \in Seq(Signals), NEW w \in Seq(Signals), v # <<>>
  PROVE  /\ v \o w # <<>> /\ Head(v \o w) = Head(v) /\ Tail(v \o w) = Tail(v) \o w
         /\ Within(Tail(v) \o w, v \o w)
         /\ Tells(v \o w, 1) <=> Head(v).message.type = "state:update"
         /\ Told(v \o w, 1) = Head(v).message.snapshot
<1>1. /\ Len(v) \in Nat /\ Len(w) \in Nat /\ Len(v) >= 1 /\ Head(v) = v[1]
      /\ Tail(v) \in Seq(Signals) /\ Len(Tail(v)) = Len(v) - 1
      /\ \A i \in 1..Len(v) - 1 : Tail(v)[i] = v[i + 1]
      /\ v \o w \in Seq(Signals) /\ Len(v \o w) = Len(v) + Len(w)
      /\ \A i \in 1..Len(v) + Len(w) : (v \o w)[i] = IF i <= Len(v) THEN v[i] ELSE w[i - Len(v)]
  BY LenProperties, HeadTailProperties, EmptySeq, ConcatProperties
<1>2. v \o w # <<>>
  <2>1. Len(v \o w) # 0
    BY <1>1
  <2> QED BY <2>1, EmptySeq
<1>3. /\ Head(v \o w) = (v \o w)[1] /\ (v \o w)[1] = v[1]
      /\ Tail(v \o w) \in Seq(Signals) /\ Len(Tail(v \o w)) = Len(v) + Len(w) - 1
      /\ \A i \in 1..Len(v) + Len(w) - 1 : Tail(v \o w)[i] = (v \o w)[i + 1]
  <2>1. /\ Head(v \o w) = (v \o w)[1]
        /\ Tail(v \o w) \in Seq(Signals) /\ Len(Tail(v \o w)) = Len(v \o w) - 1
        /\ \A i \in 1..Len(v \o w) - 1 : Tail(v \o w)[i] = (v \o w)[i + 1]
    BY <1>1, <1>2, HeadTailProperties
  <2> QED BY <1>1, <2>1
<1>4. Tail(v \o w) = Tail(v) \o w
  <2>1. /\ Tail(v) \o w \in Seq(Signals) /\ Len(Tail(v) \o w) = Len(v) - 1 + Len(w)
        /\ \A i \in 1..Len(v) - 1 + Len(w) :
               (Tail(v) \o w)[i] = IF i <= Len(v) - 1 THEN Tail(v)[i] ELSE w[i - (Len(v) - 1)]
    BY <1>1, ConcatProperties
  <2>2. ASSUME NEW i \in 1..Len(v) + Len(w) - 1 PROVE Tail(v \o w)[i] = (Tail(v) \o w)[i]
    <3>1. i + 1 \in 1..Len(v) + Len(w) /\ i \in 1..Len(v) - 1 + Len(w)
          /\ i + 1 - Len(v) = i - (Len(v) - 1) /\ (i + 1 <= Len(v) <=> i <= Len(v) - 1)
      BY <1>1
    <3>2. Tail(v \o w)[i] = (v \o w)[i + 1]
      BY <1>3
    <3>3. (v \o w)[i + 1] = IF i + 1 <= Len(v) THEN v[i + 1] ELSE w[i + 1 - Len(v)]
      BY <1>1, <3>1
    <3>4. (Tail(v) \o w)[i] = IF i <= Len(v) - 1 THEN Tail(v)[i] ELSE w[i - (Len(v) - 1)]
      BY <2>1, <3>1
    <3>5. i <= Len(v) - 1 => Tail(v)[i] = v[i + 1]
      BY <1>1, <3>1
    <3> QED BY <3>1, <3>2, <3>3, <3>4, <3>5
  <2>3. Len(Tail(v) \o w) = Len(Tail(v \o w))
    BY <1>1, <1>3, <2>1
  <2> QED BY <1>3, <2>1, <2>2, <2>3, SeqEqual
<1>5. Within(Tail(v) \o w, v \o w)
  BY <1>1, <1>2, <1>4, WithinParts
<1>6. 1 \in DOMAIN (v \o w)
  BY <1>1, LenProperties
<1> QED BY <1>1, <1>2, <1>3, <1>4, <1>5, <1>6 DEF Tells, Told

(* A signal that tells nothing, and then what p has or nothing. *)
LEMMA BothTold ==
  ASSUME NEW p, NEW q, Two(p, q), NEW s \in Snapshots, NEW t \in Snapshots,
         NEW v \in Seq(Signals), NEW w \in Seq(Signals), Both(p, q, s, t, v, w),
         NEW g \in Signals, g.message.type # "state:update",
         NEW told, \/ told = <<>>
                   \/ \E h \in Signals : told = <<h>> /\ h.message.snapshot = s
  PROVE  /\ <<g>> \o told \in Seq(Signals) /\ Both(p, q, s, t, v \o (<<g>> \o told), w)
         /\ ToSet(<<g>> \o told) = {g} \cup ToSet(told)
<1>1. Append(v, g) \in Seq(Signals) /\ <<g>> \in Seq(Signals) /\ v \o <<g>> = Append(v, g)
  BY AppendProperties, AppendIsConcat, ShortSeqs
<1>2. Both(p, q, s, t, Append(v, g), w)
  BY BothSent
<1>3. CASE told = <<>>
  <2>1. <<>> \in Seq(Signals) /\ <<g>> \o <<>> = <<g>> /\ ToSet(<<>>) = {} /\ ToSet(<<g>>) = {g}
    BY <1>1, SignalsOf, EmptySeq
  <2> QED BY <1>1, <1>2, <1>3, <2>1
<1>4. ASSUME NEW h \in Signals, told = <<h>>, h.message.snapshot = s
      PROVE  /\ <<g>> \o told \in Seq(Signals) /\ Both(p, q, s, t, v \o (<<g>> \o told), w)
             /\ ToSet(<<g>> \o told) = {g} \cup ToSet(told)
  <2> DEFINE x == <<g>>
             y == <<h>>
  <2>1. x \in Seq(Signals) /\ y \in Seq(Signals) /\ ToSet(x) = {g} /\ v \o x = Append(v, g)
    BY <1>1, ShortSeqs, SignalsOf
  <2>2. \A u \in Seq(Signals) : u \o y = Append(u, h)
    BY AppendIsConcat
  <2> HIDE DEF x, y
  <2>3. x \o y \in Seq(Signals) /\ ToSet(x \o y) = {g} \cup ToSet(y)
    BY <2>1, SignalsOf
  <2>4. v \o (x \o y) = Append(Append(v, g), h)
    BY <1>1, <2>1, <2>2, Associate
  <2>5. Both(p, q, s, t, Append(Append(v, g), h), w)
    BY <1>1, <1>2, <1>4, BothSent
  <2> QED BY <1>4, <2>3, <2>4, <2>5 DEF x, y
<1> QED BY <1>3, <1>4

(* p takes the first signal on its way from q. *)
LEMMA Received ==
  ASSUME SharedInv, NEW p, NEW q, Two(p, q), Side(p, q), Side(q, p),
         NEW type, NEW answer, Receive(p, type, answer)
  PROVE  LET g == Head(inbox[p]) IN
         /\ g \in Signals /\ g.from = q /\ g.message.type = type /\ link[p] # "none"
         /\ inbox'[p] = Tail(inbox[p]) /\ inbox'[q] = inbox[q] /\ outbox'[q] = outbox[q]
         /\ link' = link /\ clock' = clock /\ clock' \in Nat
         /\ outbox'[p] = IF Reachable(p) THEN outbox[p] \o answer ELSE outbox[p]
         /\ Way(q, p)' = Tail(Way(q, p)) /\ Way(q, p) # <<>> /\ Within(Way(q, p)', Way(q, p))
         /\ Tells(Way(q, p), 1) <=> type = "state:update"
         /\ Told(Way(q, p), 1) = g.message.snapshot
         /\ On(q, p) = {g} \cup On(q, p)' /\ ToSet(inbox'[p]) \subseteq ToSet(inbox[p])
<1> DEFINE g == Head(inbox[p])
<1>1. /\ p \in Peers /\ q \in Peers /\ p # q
      /\ outbox[q] \in Seq(Signals) /\ inbox[p] \in Seq(Signals) /\ clock \in Nat
      /\ outbox \in [Peers -> Seq(Signals)] /\ inbox \in [Peers -> Seq(Signals)]
  <2>1. TypeOK /\ p \in Peers /\ q \in Peers /\ p # q
    BY DEF SharedInv, Two
  <2> QED BY <2>1, OwnTyped DEF TypeOK
<1>2. /\ inbox[p] # <<>> /\ g.message.type = type
      /\ inbox' = [inbox EXCEPT ![p] = Tail(@)] /\ link' = link /\ clock' = clock
      /\ outbox' = IF Reachable(p) THEN [outbox EXCEPT ![p] = @ \o answer] ELSE outbox
  BY DEF Receive, Send, bounds
<1>3. /\ inbox'[p] = Tail(inbox[p]) /\ inbox'[q] = inbox[q] /\ outbox'[q] = outbox[q]
      /\ outbox'[p] = IF Reachable(p) THEN outbox[p] \o answer ELSE outbox[p]
  BY <1>1, <1>2
<1>4. ToSet(inbox[p]) = {g} \cup ToSet(Tail(inbox[p])) /\ g \in Signals
  BY <1>1, <1>2, SignalsOf
<1>5. g.from = q
  BY <1>4 DEF Side, Addressed
<1>6. link[p] # "none"
  BY <1>4 DEF Side, Unheard
<1>7. /\ Way(q, p) # <<>> /\ Way(q, p)' = Tail(Way(q, p)) /\ Within(Way(q, p)', Way(q, p))
      /\ Tells(Way(q, p), 1) <=> g.message.type = "state:update"
      /\ Told(Way(q, p), 1) = g.message.snapshot
  <2> DEFINE v == inbox[p]
             w == outbox[q]
  <2>1. v \in Seq(Signals) /\ w \in Seq(Signals) /\ v # <<>> /\ g = Head(v)
    BY <1>1, <1>2
  <2>2. Way(q, p) = v \o w /\ Way(q, p)' = Tail(v) \o w
    BY <1>3 DEF Way
  <2> HIDE DEF v, w, g
  <2> QED BY <2>1, <2>2, HeadOfWay
<1>8. On(q, p) = {g} \cup On(q, p)' /\ ToSet(inbox'[p]) \subseteq ToSet(inbox[p])
  BY <1>3, <1>4 DEF On
<1> HIDE DEF g
<1> QED BY <1>1, <1>2, <1>3, <1>4, <1>5, <1>6, <1>7, <1>8 DEF g

(* p sends a signal that tells nothing and, unless it has mutations to replay, what it has;
   of what was on its way to or from p some may be lost or taken. *)
LEMMA TellsSides ==
  ASSUME SharedInv, NEW p, NEW q, Two(p, q), Side(p, q), Side(q, p),
         synced' = synced, queue' = queue, clock' = clock, link'[q] = link[q], link'[p] # "none",
         inbox'[q] = inbox[q], outbox'[q] = outbox[q],
         ToSet(inbox'[p]) \subseteq ToSet(inbox[p]), Within(Way(q, p)', Way(q, p)),
         Way(q, p)' \in Seq(Signals),
         NEW g \in Signals, g.message.type # "state:update", NEW to \in {q, Everyone},
         g.from = p, g.to = to,
         NEW base \in {<<>>, outbox[p]}, outbox'[p] = base \o (<<g>> \o SnapshotFor(p, to)),
         Informs(q, p)'
  PROVE  Side(p, q)' /\ Side(q, p)'
<1> DEFINE s == synced[p]
           told == SnapshotFor(p, to)
           h == Signal(p, to, StateUpdate(s))
           v == inbox[q] \o base
           w == Way(q, p)'
<1>1. /\ p \in Peers /\ q \in Peers /\ p # q
      /\ outbox[p] \in Seq(Signals) /\ inbox[q] \in Seq(Signals) /\ clock \in Nat
      /\ s \in Snapshots /\ synced[q] \in Snapshots /\ base \in Seq(Signals)
  <2>1. TypeOK /\ p \in Peers /\ q \in Peers /\ p # q
    BY DEF SharedInv, Two
  <2>2. <<>> \in Seq(Signals)
    BY EmptySeq
  <2> QED BY <2>1, <2>2, OwnTyped
<1>2. h \in Signals /\ h.message.snapshot = s /\ h.message.type = "state:update" /\ h.from = p /\ h.to = to
  <2>1. to \in Peers \cup {Everyone}
    BY <1>1
  <2> QED BY <1>1, <2>1, SignalsTyped DEF Signal, StateUpdate
<1>3. told = IF HasMutations(queue[p]) THEN <<>> ELSE <<h>>
  <2>1. ~HasMutations(queue[p]) => shown[p] = s
    BY <1>1, ShowsShared
  <2> QED BY <2>1 DEF SnapshotFor
<1> HIDE DEF h, told
<1>4. /\ v \in Seq(Signals) /\ Within(v, Way(p, q)) /\ Way(p, q) \in Seq(Signals)
      /\ Way(q, p) \in Seq(Signals)
      /\ ToSet(v) \subseteq On(p, q)
  <2>1. Two(q, p)
    BY DEF Two
  <2>2. Way(p, q) \in Seq(Signals) /\ Way(q, p) \in Seq(Signals)
    BY <2>1, WaysTyped
  <2>3. CASE base = <<>>
    <3>1. v = inbox[q] /\ Within(inbox[q], inbox[q] \o outbox[p])
      BY <1>1, <2>3, SignalsOf, WithinParts
    <3> QED BY <1>1, <2>2, <3>1 DEF Way, On
  <2>4. CASE base = outbox[p]
    <3>1. v = Way(p, q) /\ Within(Way(p, q), Way(p, q)) /\ ToSet(Way(p, q)) = On(p, q)
      BY <2>1, <2>2, <2>4, WithinParts, WaysTyped DEF Way
    <3> QED BY <2>2, <3>1
  <2> QED BY <2>3, <2>4
<1>5. w \in Seq(Signals) /\ synced'[q] = synced[q] /\ synced'[p] = s
  OBVIOUS
<1>6. Both(p, q, s, synced[q], v, w)
  <2>1. Both(p, q, s, synced[q], Way(p, q), Way(q, p))
    BY DEF Side, Exchange
  <2> QED BY <1>4, <2>1, BothWithin
<1> DEFINE new == <<g>> \o told
<1>7. told = <<>> \/ \E m \in Signals : told = <<m>> /\ m.message.snapshot = s
  BY <1>2, <1>3
<1>8. Way(p, q)' = inbox[q] \o (base \o new) /\ outbox'[p] = base \o new
  BY DEF Way, told
<1> HIDE DEF s, v, w
<1>9. /\ new \in Seq(Signals) /\ Both(p, q, s, synced[q], v \o new, w)
      /\ ToSet(new) = {g} \cup ToSet(told)
  BY <1>1, <1>4, <1>5, <1>6, <1>7, BothTold
<1>10. \A x \in ToSet(told) : x = h
  <2>1. told = <<>> => ToSet(told) = {}
    BY <1>1, SignalsOf
  <2>2. told = <<h>> => ToSet(told) = {h}
    BY <1>1, <1>2, SignalsOf
  <2> QED BY <1>3, <2>1, <2>2
<1> HIDE DEF new
<1>11. Way(p, q)' = v \o new
  <2>1. inbox[q] \o (base \o new) = (inbox[q] \o base) \o new
    BY <1>1, <1>9, Associate
  <2> QED BY <1>8, <2>1 DEF v
<1>12. Exchange(p, q)'
  BY <1>5, <1>9, <1>11 DEF Exchange, w
<1>13. /\ ToSet(outbox'[p]) = ToSet(base) \cup {g} \cup ToSet(told)
       /\ ToSet(base) \subseteq ToSet(outbox[p])
  <2>1. ToSet(base \o new) = ToSet(base) \cup ToSet(new) /\ ToSet(<<>>) = {}
    BY <1>1, <1>9, SignalsOf
  <2>2. ToSet(outbox'[p]) = ToSet(base) \cup ({g} \cup ToSet(told))
    BY <1>8, <1>9, <2>1
  <2>3. base = <<>> \/ base = outbox[p]
    OBVIOUS
  <2>4. ToSet(base) \subseteq ToSet(outbox[p])
    BY <2>1, <2>3
  <2> QED BY <2>2, <2>4
<1>14. Acts(p, q)
  <2>1. \A x \in ToSet(outbox'[p]) : x \in ToSet(outbox[p]) \/ (x.from = p /\ x.to \in {q, Everyone})
    BY <1>2, <1>10, <1>13
  <2>2. clock' \in Nat /\ clock <= clock' /\ ToSet(inbox'[q]) \subseteq On(p, q)
    BY <1>1 DEF On
  <2> QED BY <2>1, <2>2 DEF Acts
<1>15. On(q, p)' \subseteq On(q, p)
  BY DEF On
<1>16. All(p, q)' \subseteq All(p, q)
  <2>1. Updating(On(q, p)') \subseteq Updating(On(q, p))
    BY <1>15 DEF Updating
  <2>2. ASSUME NEW x \in Updating(On(p, q)') PROVE x \in Updating(On(p, q)) \cup {s}
    <3>1. PICK k \in On(p, q)' : k.message.type = "state:update" /\ x = k.message.snapshot
      BY DEF Updating
    <3>2. k \in On(p, q) \/ k = h
      BY <1>10, <1>13, <3>1 DEF On
    <3> QED BY <1>2, <3>1, <3>2 DEF Updating
  <2> QED BY <2>1, <2>2 DEF All, s
<1>17. Times(p, q)'
  <2>1. Times(p, q) /\ clock' \in Nat /\ clock <= clock' /\ Queued(queue'[p]) \subseteq Queued(queue[p])
    BY <1>1 DEF Side
  <2> QED BY <1>16, <2>1, TimesKept
<1>18. Replays(p)'
  BY DEF Side, Replays
<1>19. Informs(p, q)'
  <2>1. ~HasMutations(queue[p]) => h \in ToSet(told)
    <3>1. ToSet(<<h>>) = {h}
      BY <1>1, <1>2, SignalsOf
    <3> QED BY <1>3, <3>1
  <2>2. ~HasMutations(queue[p]) => h \in On(p, q)'
    BY <1>13, <2>1 DEF On
  <2> QED BY <1>2, <1>5, <2>2 DEF Informs, Updating
<1> QED BY <1>12, <1>14, <1>16, <1>17, <1>18, <1>19, SidesKept

(* p takes a signal and answers nothing that goes anywhere. *)
LEMMA SilentSides ==
  ASSUME SharedInv, NEW p, NEW q, Two(p, q), Side(p, q), Side(q, p),
         NEW type, NEW answer, Receive(p, type, answer), Reachable(p) => answer = <<>>,
         UNCHANGED states, type = "hello" => link[p] # "up",
         type = "state:update" => ~Newer(Head(inbox[p]).message.snapshot, synced[p])
  PROVE  Side(p, q)' /\ Side(q, p)'
<1> DEFINE g == Head(inbox[p])
<1>1. /\ p \in Peers /\ q \in Peers /\ p # q /\ outbox[p] \in Seq(Signals)
      /\ synced' = synced /\ queue' = queue
      /\ Way(p, q) \in Seq(Signals) /\ Way(q, p) \in Seq(Signals)
  <2>1. TypeOK /\ p \in Peers /\ q \in Peers /\ p # q /\ Two(q, p)
    BY DEF SharedInv, Two
  <2> QED BY <2>1, OwnTyped, WaysTyped DEF states
<1>2. /\ g.message.type = type /\ link[p] # "none"
      /\ inbox'[q] = inbox[q] /\ outbox'[q] = outbox[q] /\ link' = link /\ clock' = clock
      /\ clock' \in Nat
      /\ outbox'[p] = IF Reachable(p) THEN outbox[p] \o answer ELSE outbox[p]
      /\ Within(Way(q, p)', Way(q, p))
      /\ On(q, p) = {g} \cup On(q, p)' /\ ToSet(inbox'[p]) \subseteq ToSet(inbox[p])
  BY Received
<1> HIDE DEF g
<1>3. outbox'[p] = outbox[p]
  <2>1. outbox[p] \o <<>> = outbox[p]
    BY <1>1, SignalsOf
  <2> QED BY <1>2, <2>1
<1>4. Way(p, q)' = Way(p, q) /\ On(p, q)' = On(p, q) /\ On(q, p)' \subseteq On(q, p)
  BY <1>2, <1>3 DEF Way, On
<1>5. Exchange(p, q)'
  <2>1. Within(Way(p, q)', Way(p, q)) /\ Exchange(p, q)
    BY <1>1, <1>4, WithinParts DEF Side
  <2> QED BY <1>1, <1>2, <2>1, BothWithin DEF Exchange
<1>6. Acts(p, q)
  BY <1>1, <1>2, <1>3 DEF Acts, On
<1>7. All(p, q)' \subseteq All(p, q)
  BY <1>1, <1>4 DEF All, Updating
<1>8. Times(p, q)'
  <2>1. Times(p, q) /\ clock <= clock' /\ Queued(queue'[p]) \subseteq Queued(queue[p])
    BY <1>1, <1>2 DEF Side
  <2> QED BY <1>2, <1>7, <2>1, TimesKept
<1>9. Replays(p)'
  BY <1>1 DEF Side, Replays
<1>10. Informs(p, q)'
  <2>1. link[p] = "up" /\ Greeting(On(q, p)) => Greeting(On(q, p)')
    BY <1>2 DEF Greeting
  <2>2. Informs(p, q)
    BY DEF Side
  <2> QED BY <1>1, <1>2, <1>4, <2>1, <2>2 DEF Informs
<1>11. Informs(q, p)'
  <2>1. type = "state:update" => ~Newer(g.message.snapshot, synced[p])
    BY DEF g
  <2>2. Newer(synced[q], synced[p]) /\ synced[q] \in Updating(On(q, p)) => synced[q] \in Updating(On(q, p)')
    BY <1>2, <2>1 DEF Updating
  <2>3. Informs(q, p)
    BY DEF Side
  <2> QED BY <1>1, <1>2, <1>4, <2>2, <2>3 DEF Informs
<1> QED BY <1>5, <1>6, <1>7, <1>8, <1>9, <1>10, <1>11, SidesKept

(* p connects: it says hello, and what it has, to the other. *)
LEMMA ConnectSides ==
  ASSUME SharedInv, NEW p, NEW q, Two(p, q), Side(p, q), Side(q, p), Connect(p)
  PROVE  Side(p, q)' /\ Side(q, p)'
<1> DEFINE g == ToAll(p, Hello)
<1>1. /\ p \in Peers /\ q \in Peers /\ p # q /\ outbox \in [Peers -> Seq(Signals)]
      /\ link \in [Peers -> Links] /\ Way(q, p) \in Seq(Signals)
  <2>1. Two(q, p)
    BY DEF Two
  <2> QED BY <2>1, WaysTyped DEF SharedInv, TypeOK, Two
<1>2. /\ synced' = synced /\ queue' = queue /\ clock' = clock /\ inbox' = inbox
      /\ link' = [link EXCEPT ![p] = "up"]
      /\ outbox' = [outbox EXCEPT ![p] = <<g>> \o SnapshotFor(p, Everyone)]
  BY DEF Connect, states, bounds
<1>3. g \in Signals /\ g.from = p /\ g.to = Everyone /\ g.message.type = "hello"
  BY <1>1, SignalsTyped DEF ToAll, Signal, Hello
<1> DEFINE sent == <<g>> \o SnapshotFor(p, Everyone)
<1>4. sent = <<>> \o sent
  <2>1. sent \in Seq(Signals)
    BY <1>1, <1>3, ShortSeqs, SnapshotForTyped DEF SharedInv
  <2> HIDE DEF sent
  <2> QED BY <2>1, ConcatEmptySeq
<1>5. /\ link'[q] = link[q] /\ link'[p] # "none" /\ inbox'[q] = inbox[q] /\ outbox'[q] = outbox[q]
      /\ ToSet(inbox'[p]) \subseteq ToSet(inbox[p]) /\ outbox'[p] = sent
  BY <1>1, <1>2
<1>6. Way(q, p)' = Way(q, p) /\ Within(Way(q, p)', Way(q, p)) /\ Way(q, p)' \in Seq(Signals)
  <2>1. Way(q, p)' = Way(q, p)
    BY <1>2, <1>5 DEF Way
  <2> QED BY <1>1, <2>1, WithinParts
<1>7. Informs(q, p)'
  <2>1. g \in ToSet(sent)
    <3>1. <<g>> \in Seq(Signals) /\ SnapshotFor(p, Everyone) \in Seq(Signals) /\ ToSet(<<g>>) = {g}
      BY <1>1, <1>3, ShortSeqs, SnapshotForTyped, SignalsOf DEF SharedInv
    <3> DEFINE x == <<g>>
               y == SnapshotFor(p, Everyone)
    <3>2. sent = x \o y /\ x \in Seq(Signals) /\ y \in Seq(Signals) /\ g \in ToSet(x)
      BY <3>1
    <3> HIDE DEF x, y, sent
    <3> QED BY <3>2, SignalsOf
  <2> HIDE DEF sent
  <2>2. Greeting(On(p, q)')
    BY <1>3, <1>5, <2>1 DEF Greeting, On
  <2> QED BY <2>2 DEF Informs
<1>8. g.message.type # "state:update" /\ Everyone \in {q, Everyone} /\ <<>> \in {<<>>, outbox[p]}
  BY <1>3
<1>9. outbox'[p] = <<>> \o (<<g>> \o SnapshotFor(p, Everyone))
  BY <1>4, <1>5
<1> HIDE DEF g, sent
<1> QED BY <1>2, <1>3, <1>5, <1>6, <1>7, <1>8, <1>9, TellsSides

(* p answers a hello. *)
LEMMA HelloSides ==
  ASSUME SharedInv, NEW p, NEW q, Two(p, q), Side(p, q), Side(q, p), HandleHello(p)
  PROVE  Side(p, q)' /\ Side(q, p)'
<1> DEFINE head == Head(inbox[p])
           g == Signal(p, q, Welcome)
           answer == <<g>> \o SnapshotFor(p, q)
<1>1. head.from = q
  BY Received DEF HandleHello
<1>2. Receive(p, "hello", answer) /\ UNCHANGED states
  BY <1>1 DEF HandleHello
<1>3. CASE ~Reachable(p)
  <2>1. link[p] # "up"
    BY <1>3 DEF Reachable
  <2> HIDE DEF answer
  <2> QED BY <1>2, <1>3, <2>1, SilentSides
<1>4. CASE Reachable(p)
  <2>1. /\ inbox'[q] = inbox[q] /\ outbox'[q] = outbox[q] /\ link' = link /\ clock' = clock
        /\ link[p] # "none" /\ outbox'[p] = outbox[p] \o answer
        /\ Within(Way(q, p)', Way(q, p)) /\ Way(q, p)' = Tail(Way(q, p)) /\ Way(q, p) # <<>>
        /\ On(q, p) = {head} \cup On(q, p)' /\ ToSet(inbox'[p]) \subseteq ToSet(inbox[p])
        /\ head.message.type = "hello"
    <3> HIDE DEF answer
    <3> QED BY <1>2, <1>4, Received
  <2>2. Way(q, p)' \in Seq(Signals)
    <3>1. Way(q, p) \in Seq(Signals)
      <4>1. Two(q, p)
        BY DEF Two
      <4> QED BY <4>1, WaysTyped
    <3> QED BY <2>1, <3>1, HeadTailProperties
  <2>3. g \in Signals /\ g.from = p /\ g.to = q /\ g.message.type # "state:update"
    <3>1. p \in Peers /\ q \in Peers \cup {Everyone}
      BY DEF Two
    <3> QED BY <3>1, SignalsTyped DEF Signal, Welcome
  <2>4. synced' = synced /\ queue' = queue /\ q \in {q, Everyone} /\ outbox[p] \in {<<>>, outbox[p]}
    BY <1>2 DEF states
  <2>5. Informs(q, p)'
    <3>1. Informs(q, p)
      BY DEF Side
    <3>2. synced[q] \in Updating(On(q, p)) => synced[q] \in Updating(On(q, p)')
      BY <2>1 DEF Updating
    <3>3. Greeting(On(p, q)) => Greeting(On(p, q)')
      <4>1. outbox[p] \in Seq(Signals) /\ answer \in Seq(Signals)
        <5>1. TypeOK /\ p \in Peers /\ q \in Peers \cup {Everyone}
          BY DEF SharedInv, Two
        <5> QED BY <2>3, <5>1, OwnTyped, ShortSeqs, SnapshotForTyped
      <4> HIDE DEF answer
      <4>2. ToSet(outbox[p]) \subseteq ToSet(outbox'[p])
        BY <2>1, <4>1, SignalsOf
      <4> QED BY <2>1, <4>2 DEF Greeting, On
    <3> QED BY <2>1, <2>4, <3>1, <3>2, <3>3 DEF Informs
  <2>6. outbox'[p] = outbox[p] \o (<<g>> \o SnapshotFor(p, q)) /\ link'[q] = link[q] /\ link'[p] # "none"
    BY <2>1
  <2> HIDE DEF g, answer
  <2> QED BY <2>1, <2>2, <2>3, <2>4, <2>5, <2>6, TellsSides
<1> QED BY <1>3, <1>4

(* A welcome tells nothing. *)
LEMMA WelcomeSides ==
  ASSUME SharedInv, NEW p, NEW q, Two(p, q), Side(p, q), Side(q, p), HandleWelcome(p)
  PROVE  Side(p, q)' /\ Side(q, p)'
<1>1. Receive(p, "welcome", <<>>) /\ UNCHANGED states
  BY DEF HandleWelcome
<1> QED BY <1>1, SilentSides

(* p is told something, and keeps it if it is news. *)
LEMMA StateSides ==
  ASSUME SharedInv, NEW p, NEW q, Two(p, q), Side(p, q), Side(q, p), HandleState(p)
  PROVE  Side(p, q)' /\ Side(q, p)'
<1> DEFINE b == Head(inbox[p]).message.snapshot
           s == synced[p]
           t == synced[q]
<1>1. /\ Receive(p, "state:update", <<>>) /\ queue' = queue
      /\ Newer(b, s) => synced' = [synced EXCEPT ![p] = b]
      /\ ~Newer(b, s) => UNCHANGED states
  BY DEF HandleState, states
<1>2. CASE ~Newer(b, s)
  BY <1>1, <1>2, SilentSides
<1>3. CASE Newer(b, s)
  <2>1. /\ p \in Peers /\ q \in Peers /\ p # q /\ outbox[p] \in Seq(Signals)
        /\ synced'[p] = b /\ synced'[q] = t /\ Two(q, p) /\ s \in Snapshots /\ t \in Snapshots
        /\ Way(p, q) \in Seq(Signals) /\ Way(q, p) \in Seq(Signals)
    <3>1. TypeOK /\ p \in Peers /\ q \in Peers /\ p # q /\ Two(q, p)
      BY DEF SharedInv, Two
    <3> QED BY <1>1, <1>3, <3>1, OwnTyped, WaysTyped DEF TypeOK
  <2>2. /\ link[p] # "none" /\ inbox'[q] = inbox[q] /\ outbox'[q] = outbox[q]
        /\ link' = link /\ clock' = clock /\ clock' \in Nat
        /\ outbox'[p] = IF Reachable(p) THEN outbox[p] \o <<>> ELSE outbox[p]
        /\ Way(q, p)' = Tail(Way(q, p)) /\ Tells(Way(q, p), 1) /\ Told(Way(q, p), 1) = b
        /\ ToSet(inbox'[p]) \subseteq ToSet(inbox[p])
        /\ \E g \in Signals : /\ g.message.type = "state:update" /\ g.message.snapshot = b
                              /\ On(q, p) = {g} \cup On(q, p)'
    <3> DEFINE g == Head(inbox[p])
    <3>1. /\ g \in Signals /\ g.message.type = "state:update" /\ link[p] # "none"
          /\ inbox'[q] = inbox[q] /\ outbox'[q] = outbox[q]
          /\ link' = link /\ clock' = clock /\ clock' \in Nat
          /\ outbox'[p] = IF Reachable(p) THEN outbox[p] \o <<>> ELSE outbox[p]
          /\ Way(q, p)' = Tail(Way(q, p)) /\ Tells(Way(q, p), 1)
          /\ Told(Way(q, p), 1) = g.message.snapshot
          /\ On(q, p) = {g} \cup On(q, p)' /\ ToSet(inbox'[p]) \subseteq ToSet(inbox[p])
      BY <1>1, Received
    <3>2. b = g.message.snapshot
      OBVIOUS
    <3> HIDE DEF g, b
    <3> QED BY <3>1, <3>2
  <2> HIDE DEF b, s, t
  <2>3. outbox'[p] = outbox[p]
    <3>1. outbox[p] \o <<>> = outbox[p]
      BY <2>1, SignalsOf
    <3> QED BY <2>2, <3>1
  <2>4. Way(p, q)' = Way(p, q) /\ On(p, q)' = On(p, q)
    BY <2>2, <2>3 DEF Way, On
  <2>5. Both(q, p, t, s, Way(q, p), Way(p, q))
    BY DEF Side, Exchange, s, t
  <2>6. /\ b \in Snapshots /\ b.changedBy = q
        /\ Both(q, p, t, b, Tail(Way(q, p)), Way(p, q))
        /\ Newer(t, b) => Newer(t, s)
        /\ ~Newer(b, t)
    BY <1>3, <2>1, <2>2, <2>5, BothAdopted
  <2>7. Exchange(p, q)'
    <3>1. Both(p, q, b, t, Way(p, q), Tail(Way(q, p)))
      BY <2>6, BothSides
    <3> QED BY <2>1, <2>2, <2>4, <3>1 DEF Exchange
  <2>8. Acts(p, q)
    BY <1>1, <2>1, <2>2, <2>3 DEF Acts, On, t
  <2>9. All(p, q)' \subseteq All(p, q)
    <3>1. Updating(On(q, p)') \subseteq Updating(On(q, p)) /\ b \in Updating(On(q, p))
      BY <2>2 DEF Updating
    <3> QED BY <2>1, <2>4, <3>1 DEF All, t
  <2>10. Times(p, q)'
    <3>1. Times(p, q) /\ clock <= clock' /\ Queued(queue'[p]) \subseteq Queued(queue[p])
      BY <1>1, <2>2 DEF Side
    <3> QED BY <2>2, <2>9, <3>1, TimesKept
  <2>11. Replays(p)'
    BY <2>1, <2>6 DEF Replays
  <2>12. Informs(p, q)'
    BY <2>1, <2>6 DEF Informs
  <2>13. Informs(q, p)'
    <3>1. Newer(t, b) /\ t \in Updating(On(q, p)) => t \in Updating(On(q, p)')
      BY <2>2, <2>6 DEF Updating
    <3>2. Informs(q, p)
      BY DEF Side
    <3> QED BY <1>1, <2>1, <2>2, <2>4, <2>6, <3>1, <3>2 DEF Informs, s, t
  <2> QED BY <2>7, <2>8, <2>9, <2>10, <2>11, <2>12, <2>13, SidesKept
<1> QED BY <1>2, <1>3

(* The first signal of the second part goes on to the first part, or is lost. *)
LEMMA PassedOn ==
  ASSUME NEW v \in Seq(Signals), NEW w \in Seq(Signals), w # <<>>
  PROVE  /\ Append(v, Head(w)) \o Tail(w) = v \o w
         /\ Within(v \o Tail(w), v \o w)
         /\ Head(w) \in Signals /\ Tail(w) \in Seq(Signals)
<1> DEFINE h == Head(w)
           u == Tail(w)
<1>1. /\ Len(v) \in Nat /\ Len(w) \in Nat /\ Len(w) >= 1 /\ h = w[1] /\ h \in Signals
      /\ u \in Seq(Signals) /\ Len(u) = Len(w) - 1
      /\ \A i \in 1..Len(w) - 1 : u[i] = w[i + 1]
  BY LenProperties, HeadTailProperties, EmptySeq, ElementOfSeq
<1> HIDE DEF h, u
<1>2. /\ v \o w \in Seq(Signals) /\ Len(v \o w) = Len(v) + Len(w)
      /\ DOMAIN (v \o w) = 1..Len(v) + Len(w)
      /\ \A i \in 1..Len(v) + Len(w) : (v \o w)[i] = IF i <= Len(v) THEN v[i] ELSE w[i - Len(v)]
  BY <1>1, ConcatProperties, LenProperties
<1>3. /\ v \o u \in Seq(Signals) /\ Len(v \o u) = Len(v) + Len(w) - 1
      /\ DOMAIN (v \o u) = 1..Len(v) + Len(w) - 1
      /\ \A i \in 1..Len(v) + Len(w) - 1 : (v \o u)[i] = IF i <= Len(v) THEN v[i] ELSE u[i - Len(v)]
  <2>1. Len(v) + Len(u) = Len(v) + Len(w) - 1
    BY <1>1
  <2> QED BY <1>1, <2>1, ConcatProperties, LenProperties
<1>4. Within(v \o u, v \o w)
  <2> DEFINE f == [i \in 1..Len(v) + Len(w) - 1 |-> IF i <= Len(v) THEN i ELSE i + 1]
  <2>1. /\ f \in [1..Len(v) + Len(w) - 1 -> 1..Len(v) + Len(w)]
        /\ \A i \in 1..Len(v) + Len(w) - 1 : f[i] = IF i <= Len(v) THEN i ELSE i + 1
    BY <1>1
  <2> HIDE DEF f
  <2>2. \A i, j \in 1..Len(v) + Len(w) - 1 : i < j => f[i] < f[j]
    BY <1>1, <2>1
  <2>3. ASSUME NEW i \in 1..Len(v) + Len(w) - 1 PROVE (v \o u)[i] = (v \o w)[f[i]]
    <3>1. CASE i <= Len(v)
      <4>1. f[i] = i /\ i \in 1..Len(v) + Len(w)
        BY <1>1, <2>1, <3>1
      <4> QED BY <1>2, <1>3, <3>1, <4>1
    <3>2. CASE ~(i <= Len(v))
      <4>1. /\ f[i] = i + 1 /\ i + 1 \in 1..Len(v) + Len(w) /\ ~(i + 1 <= Len(v))
            /\ i - Len(v) \in 1..Len(w) - 1 /\ i + 1 - Len(v) = i - Len(v) + 1
        BY <1>1, <2>1, <3>2
      <4>2. (v \o u)[i] = u[i - Len(v)] /\ u[i - Len(v)] = w[i - Len(v) + 1]
        BY <1>1, <1>3, <3>2, <4>1
      <4>3. (v \o w)[i + 1] = w[i + 1 - Len(v)]
        BY <1>2, <4>1
      <4> QED BY <4>1, <4>2, <4>3
    <3> QED BY <3>1, <3>2
  <2> QED BY <1>2, <1>3, <2>1, <2>2, <2>3 DEF Within
<1>5. Append(v, h) \o u = v \o w
  <2>1. /\ Append(v, h) \in Seq(Signals) /\ Len(Append(v, h)) = Len(v) + 1
        /\ \A i \in 1..Len(v) : Append(v, h)[i] = v[i]
        /\ Append(v, h)[Len(v) + 1] = h
    BY <1>1, AppendProperties
  <2> DEFINE a == Append(v, h)
  <2> HIDE DEF a
  <2>2. a \in Seq(Signals) /\ Len(a) = Len(v) + 1 /\ a[Len(v) + 1] = h
        /\ \A i \in 1..Len(v) : a[i] = v[i]
    BY <2>1 DEF a
  <2>3. /\ a \o u \in Seq(Signals) /\ Len(a \o u) = Len(v) + Len(w)
        /\ \A i \in 1..Len(v) + Len(w) : (a \o u)[i] = IF i <= Len(v) + 1 THEN a[i] ELSE u[i - (Len(v) + 1)]
    <3>1. Len(a) + Len(u) = Len(v) + Len(w)
      BY <1>1, <2>2
    <3>2. /\ a \o u \in Seq(Signals) /\ Len(a \o u) = Len(a) + Len(u)
          /\ \A i \in 1..Len(a) + Len(u) : (a \o u)[i] = IF i <= Len(a) THEN a[i] ELSE u[i - Len(a)]
      BY <1>1, <2>2, ConcatProperties
    <3> QED BY <2>2, <3>1, <3>2
  <2>4. ASSUME NEW i \in 1..Len(v) + Len(w) PROVE (a \o u)[i] = (v \o w)[i]
    <3>1. CASE i <= Len(v)
      <4>1. i \in 1..Len(v) /\ i <= Len(v) + 1
        BY <1>1, <3>1
      <4> QED BY <1>2, <2>2, <2>3, <3>1, <4>1
    <3>2. CASE i = Len(v) + 1
      <4>1. ~(i <= Len(v)) /\ i <= Len(v) + 1 /\ i - Len(v) = 1
        BY <1>1, <3>2
      <4>2. (a \o u)[i] = a[i] /\ (v \o w)[i] = w[i - Len(v)]
        BY <1>2, <2>3, <4>1
      <4> QED BY <1>1, <2>2, <3>2, <4>1, <4>2
    <3>3. CASE i > Len(v) + 1
      <4>1. /\ ~(i <= Len(v)) /\ ~(i <= Len(v) + 1) /\ i - (Len(v) + 1) \in 1..Len(w) - 1
            /\ i - (Len(v) + 1) + 1 = i - Len(v)
        BY <1>1, <3>3
      <4>2. (a \o u)[i] = u[i - (Len(v) + 1)] /\ (v \o w)[i] = w[i - Len(v)]
        BY <1>2, <2>3, <4>1
      <4> QED BY <1>1, <4>1, <4>2
    <3>4. i \in Int /\ Len(v) \in Int
      BY <1>1
    <3>5. i <= Len(v) \/ i = Len(v) + 1 \/ i > Len(v) + 1
      BY ONLY <3>4
    <3> QED BY <3>1, <3>2, <3>3, <3>5
  <2> QED BY <1>2, <2>3, <2>4, SeqEqual DEF a
<1> QED BY <1>1, <1>4, <1>5 DEF h, u

(* The relay passes the next signal of p on, or loses it if q is not connected. *)
LEMMA RelaySides ==
  ASSUME SharedInv, NEW p, NEW q, Two(p, q), Side(p, q), Side(q, p), Relay(p)
  PROVE  Side(p, q)' /\ Side(q, p)'
<1> DEFINE g == Head(outbox[p])
           v == inbox[q]
           w == outbox[p]
<1>1. /\ p \in Peers /\ q \in Peers /\ p # q /\ clock \in Nat
      /\ v \in Seq(Signals) /\ w \in Seq(Signals)
      /\ outbox \in [Peers -> Seq(Signals)] /\ inbox \in [Peers -> Seq(Signals)]
      /\ Way(p, q) \in Seq(Signals) /\ Way(q, p) \in Seq(Signals)
      /\ Peers = {p, q} /\ synced[p] \in Snapshots
  <2>1. TypeOK /\ p \in Peers /\ q \in Peers /\ p # q /\ Two(q, p)
    BY DEF SharedInv, Two
  <2> QED BY <2>1, OwnTyped, WaysTyped DEF TypeOK, Two
<1>2. /\ w # <<>> /\ outbox' = [outbox EXCEPT ![p] = Tail(@)]
      /\ inbox' = [r \in Peers |->
             IF r \in {x \in Peers \ {p} : Reachable(x) /\ g.to \in {x, Everyone}}
             THEN Append(inbox[r], g) ELSE inbox[r]]
      /\ link' = link /\ synced' = synced /\ queue' = queue /\ clock' = clock
  BY DEF Relay, states, bounds
<1>3. g \in ToSet(w) /\ g \in Signals /\ ToSet(w) = {g} \cup ToSet(Tail(w))
  BY <1>1, <1>2, SignalsOf
<1>4. g.from = p /\ g.to \in {q, Everyone}
  BY <1>3 DEF Side, Addressed
<1>5. /\ inbox'[p] = inbox[p] /\ outbox'[p] = Tail(w) /\ outbox'[q] = outbox[q]
      /\ inbox'[q] = IF Reachable(q) THEN Append(v, g) ELSE v
  BY <1>1, <1>2, <1>4
<1>6. link[p] # "none"
  <2>1. On(p, q) # {}
    BY <1>3 DEF On
  <2> QED BY <2>1 DEF Side, Unheard
<1> HIDE DEF g, v, w
<1>7. /\ Append(v, g) \o Tail(w) = v \o w /\ Within(v \o Tail(w), v \o w)
      /\ ToSet(Append(v, g)) = ToSet(v) \cup {g}
  <2>1. /\ Append(v, Head(w)) \o Tail(w) = v \o w /\ Within(v \o Tail(w), v \o w)
    BY <1>1, <1>2, PassedOn
  <2>2. ASSUME NEW x \in Seq(Signals), NEW m \in Signals PROVE ToSet(Append(x, m)) = ToSet(x) \cup {m}
    BY SignalsOf
  <2>3. ToSet(Append(v, g)) = ToSet(v) \cup {g}
    BY <1>1, <1>3, <2>2
  <2> QED BY <2>1, <2>3 DEF g, w
<1>8. /\ Way(q, p)' = Way(q, p) /\ On(q, p)' = On(q, p)
      /\ On(p, q)' = IF Reachable(q) THEN On(p, q) ELSE ToSet(v) \cup ToSet(Tail(w))
      /\ On(p, q) = ToSet(v) \cup ({g} \cup ToSet(Tail(w)))
      /\ Way(p, q)' = IF Reachable(q) THEN Append(v, g) \o Tail(w) ELSE v \o Tail(w)
      /\ Way(p, q) = v \o w
  <2>1. On(p, q) = ToSet(v) \cup ToSet(w) /\ Way(p, q) = v \o w
    BY DEF On, Way, v, w
  <2>2. On(p, q)' = IF Reachable(q) THEN ToSet(Append(v, g)) \cup ToSet(Tail(w)) ELSE ToSet(v) \cup ToSet(Tail(w))
    BY <1>5 DEF On
  <2>3. Way(p, q)' = IF Reachable(q) THEN Append(v, g) \o Tail(w) ELSE v \o Tail(w)
    BY <1>5 DEF Way
  <2>4. Way(q, p)' = Way(q, p) /\ On(q, p)' = On(q, p)
    BY <1>5 DEF Way, On
  <2> QED BY <1>3, <1>7, <2>1, <2>2, <2>3, <2>4
<1>9. Exchange(p, q)'
  <2>1. Within(Way(p, q)', Way(p, q)) /\ Within(Way(q, p)', Way(q, p))
    <3>1. Within(Way(p, q), Way(p, q)) /\ Within(Way(q, p), Way(q, p))
      BY <1>1, WithinParts
    <3> QED BY <1>7, <1>8, <3>1
  <2>2. Exchange(p, q)
    BY DEF Side
  <2> QED BY <1>2, <2>1, <2>2, BothWithin DEF Exchange
<1>10. On(p, q)' \subseteq On(p, q) /\ (Reachable(q) => On(p, q)' = On(p, q))
  BY <1>8
<1>11. Acts(p, q)
  <2>1. ToSet(inbox'[q]) \subseteq On(p, q)
    BY <1>10 DEF On
  <2>2. link[q] = "none" => inbox'[q] = inbox[q]
    BY <1>5 DEF Reachable, v
  <2>3. \A x \in ToSet(outbox'[p]) : x \in ToSet(outbox[p])
    BY <1>3, <1>5 DEF w
  <2>4. clock' \in Nat /\ clock <= clock' /\ ToSet(inbox'[p]) \subseteq ToSet(inbox[p])
    BY <1>1, <1>2, <1>5
  <2> QED BY <1>2, <1>5, <1>6, <2>1, <2>2, <2>3, <2>4 DEF Acts
<1>12. All(p, q)' \subseteq All(p, q)
  BY <1>2, <1>8, <1>10 DEF All, Updating
<1>13. Times(p, q)'
  <2>1. /\ Times(p, q) /\ clock' \in Nat /\ clock <= clock'
        /\ Queued(queue'[p]) \subseteq Queued(queue[p])
    BY <1>1, <1>2 DEF Side
  <2> QED BY <1>12, <2>1, TimesKept
<1>14. Replays(p)'
  BY <1>2 DEF Side, Replays
<1>15. Informs(p, q)' /\ Informs(q, p)'
  <2>1. Informs(p, q) /\ Informs(q, p)
    BY DEF Side
  <2>2. link[q] = "up" => On(p, q)' = On(p, q)
    BY <1>10 DEF Reachable
  <2> QED BY <1>2, <1>8, <2>1, <2>2 DEF Informs
<1> QED BY <1>9, <1>11, <1>12, <1>13, <1>14, <1>15, SidesKept

(* A page is loaded, with its initial value. *)
LEMMA FreshSides ==
  ASSUME SharedInv, NEW p, NEW q, Two(p, q), Side(p, q), Side(q, p), Load(p),
         synced' = [synced EXCEPT ![p] = Initial(p, clock + Skew[p])]
  PROVE  Side(p, q)' /\ Side(q, p)'
<1> DEFINE at == clock + Skew[p]
           n == Initial(p, at)
           t == synced[q]
           w == Way(q, p)
<1>1. /\ p \in Peers /\ q \in Peers /\ p # q /\ at \in Int /\ clock \in Nat
      /\ synced \in [Peers -> Snapshots] /\ link \in [Peers -> Links]
      /\ synced[p] \in Snapshots /\ t \in Snapshots /\ w \in Seq(Signals) /\ Way(p, q) \in Seq(Signals)
      /\ ToSet(Way(p, q)) = On(p, q)
      /\ All(p, q) = Live(Way(p, q), synced[p]) \cup Live(w, t) /\ All(p, q) \subseteq Snapshots
  <2>1. TypeOK /\ p \in Peers /\ q \in Peers /\ p # q /\ Two(q, p)
    BY DEF SharedInv, Two
  <2>2. /\ at \in Int /\ clock \in Nat /\ synced \in [Peers -> Snapshots] /\ link \in [Peers -> Links]
    BY <2>1, OwnTyped DEF TypeOK
  <2>3. w \in Seq(Signals)
    BY <2>1, WaysTyped
  <2> QED BY <2>1, <2>2, <2>3, WaysTyped
<1>2. /\ link[p] = "none" /\ link' = [link EXCEPT ![p] = "off"]
      /\ queue' = queue /\ clock' = clock /\ outbox' = outbox /\ inbox' = inbox
      /\ synced' = [synced EXCEPT ![p] = n]
  BY DEF Load, net
<1>3. queue[p] = <<>> /\ ~HasMutations(<<>>) /\ Queued(<<>>) = {}
  <2>1. <<>> \in Seq(Entries)
    BY EmptySeq
  <2> QED BY <1>1, <1>2, <2>1, QueuedIs DEF SharedInv, IInv, AtRest, Running
<1>4. /\ n \in Snapshots /\ n.changedBy = p /\ n.timestamp = at /\ n.vectorClock[q] = 0
  BY <1>1, InitialTyped DEF Initial
<1>5. /\ synced'[p] = n /\ synced'[q] = t /\ link'[p] = "off" /\ link'[q] = link[q]
  BY <1>1, <1>2
<1>6. /\ On(p, q) = {} /\ \A a \in All(p, q) : /\ a.vectorClock[p] = 0
                                               /\ a.changedBy = p => a = Initial(p, a.timestamp)
  BY <1>2 DEF Side, Unheard
<1>7. \A a \in All(p, q) : a.changedBy = p => a.timestamp <= at
  BY DEF Side, Times
<1>8. Way(p, q) = <<>>
  BY <1>1, <1>6, SignalsOf
<1>9. Both(p, q, synced[p], t, <<>>, w)
  BY <1>8 DEF Side, Exchange
<1> HIDE DEF at, n, t, w
<1>10. Both(p, q, Initial(p, at), t, <<>>, w)
  <2>1. \A a \in Live(w, t) : /\ a.vectorClock[p] = 0
                              /\ a.changedBy = p => a = Initial(p, a.timestamp) /\ a.timestamp <= at
    BY <1>1, <1>6, <1>7
  <2> QED BY <1>1, <1>9, <2>1, BothLoaded
<1>11. /\ Way(p, q)' = Way(p, q) /\ Way(q, p)' = w
       /\ On(p, q)' = On(p, q) /\ On(q, p)' = On(q, p)
  BY <1>2 DEF Way, On, w
<1>12. Exchange(p, q)'
  BY <1>5, <1>8, <1>10, <1>11 DEF Exchange, n
<1>13. All(p, q)' \subseteq All(p, q) \cup {n}
  BY <1>5, <1>11 DEF All, t
<1>14. Acts(p, q)
  <2>1. clock' \in Nat /\ clock <= clock'
    BY <1>1, <1>2
  <2>2. ToSet(inbox'[q]) \subseteq On(p, q)
    BY <1>2 DEF On
  <2> QED BY <1>2, <1>5, <2>1, <2>2 DEF Acts, t
<1>15. Times(p, q)'
  <2>1. at <= at /\ clock' + Skew[p] = at
    BY <1>1, <1>2 DEF at
  <2> QED BY <1>2, <1>3, <1>4, <1>7, <1>13, <2>1 DEF Times, Timely
<1>16. Replays(p)'
  BY <1>2, <1>3 DEF Replays
<1>17. Informs(p, q)' /\ Informs(q, p)'
  BY <1>5 DEF Informs
<1>18. \A x \in All(p, q)' :
           x \in All(p, q) \/ (x.changedBy = p /\ x.vectorClock[q] \in {0, synced[p].vectorClock[q]})
  BY <1>4, <1>13
<1> QED BY <1>12, <1>14, <1>15, <1>16, <1>17, <1>18, SidesKept

(* Both have the same and nothing is on its way. *)
LEMMA BothSame ==
  ASSUME NEW p, NEW q, Two(p, q), NEW s \in Snapshots
  PROVE  Both(p, q, s, s, <<>>, <<>>)
<1>1. /\ \A i : ~Tells(<<>>, i)
      /\ \A x : Live(<<>>, x) = {x}
  BY EmptySeq DEF Tells, Live
<1>2. ~Newer(s, s) /\ Follows(p, q, s, s) /\ Follows(q, p, s, s)
  BY NewerOfTwo DEF Wins, Follows, Later
<1>3. Half(p, q, s, s, <<>>) /\ Half(q, p, s, s, <<>>)
  BY <1>1, <1>2, NewerOfTwo DEF Half
<1>4. Apart(Live(<<>>, s) \cup Live(<<>>, s))
  BY <1>1 DEF Apart
<1> QED BY <1>3, <1>4 DEF Both

(* A page is loaded and finds what the other stored, which was closed before. *)
LEMMA RestoredSides ==
  ASSUME SharedInv, Silent, NEW p, NEW q, Two(p, q), Side(p, q), Side(q, p), Load(p),
         link[q] = "gone", synced' = [synced EXCEPT ![p] = synced[q]]
  PROVE  Side(p, q)' /\ Side(q, p)'
<1> DEFINE t == synced[q]
<1>1. /\ p \in Peers /\ q \in Peers /\ p # q /\ clock \in Nat
      /\ synced \in [Peers -> Snapshots] /\ link \in [Peers -> Links] /\ t \in Snapshots
      /\ Way(p, q) \in Seq(Signals) /\ Way(q, p) \in Seq(Signals)
      /\ ToSet(Way(p, q)) = On(p, q) /\ ToSet(Way(q, p)) = On(q, p)
      /\ t \in All(p, q)
  <2>1. TypeOK /\ p \in Peers /\ q \in Peers /\ p # q /\ Two(q, p)
    BY DEF SharedInv, Two
  <2> QED BY <2>1, OwnTyped, WaysTyped DEF TypeOK, All
<1>2. /\ link[p] = "none" /\ link' = [link EXCEPT ![p] = "off"]
      /\ queue' = queue /\ clock' = clock /\ outbox' = outbox /\ inbox' = inbox
      /\ synced' = [synced EXCEPT ![p] = t]
  BY DEF Load, net
<1>3. synced'[p] = t /\ synced'[q] = t /\ link'[p] = "off" /\ link'[q] = "gone"
  BY <1>1, <1>2
<1>4. On(p, q) = {} /\ On(q, p) = {} /\ Way(p, q) = <<>> /\ Way(q, p) = <<>>
  <2>1. On(p, q) = {} /\ ToSet(inbox[p]) = {}
    BY <1>2 DEF Side, Unheard
  <2>2. outbox[q] = <<>> /\ ToSet(<<>>) = {}
    BY <1>1, EmptySeq, SignalsOf DEF Silent
  <2>3. On(q, p) = {}
    BY <2>1, <2>2 DEF On
  <2> QED BY <1>1, <2>1, <2>3, SignalsOf
<1>5. /\ Way(p, q)' = <<>> /\ Way(q, p)' = <<>> /\ On(p, q)' = {} /\ On(q, p)' = {}
  BY <1>2, <1>4 DEF Way, On
<1>6. Exchange(p, q)'
  BY <1>1, <1>3, <1>5, BothSame DEF Exchange
<1>7. All(p, q)' \subseteq All(p, q)
  BY <1>1, <1>3, <1>5 DEF All, Updating
<1>8. Acts(p, q)
  <2>1. clock' \in Nat /\ clock <= clock'
    BY <1>1, <1>2
  <2>2. ToSet(inbox'[q]) \subseteq On(p, q)
    BY <1>2 DEF On
  <2> QED BY <1>2, <1>3, <2>1, <2>2 DEF Acts
<1>9. Times(p, q)' /\ Replays(p)'
  <2>1. Times(p, q) /\ queue'[p] = queue[p] /\ clock' \in Nat /\ clock <= clock'
    BY <1>1, <1>2 DEF Side
  <2>2. queue[p] = <<>> /\ ~HasMutations(<<>>)
    BY <1>1, <1>2, EmptySeq, QueuedIs DEF SharedInv, IInv, AtRest, Running
  <2> QED BY <1>7, <2>1, <2>2, TimesKept DEF Replays
<1>10. Informs(p, q)' /\ Informs(q, p)'
  BY <1>3 DEF Informs
<1> QED BY <1>6, <1>7, <1>8, <1>9, <1>10, SidesKept

(* A page is loaded. *)
LEMMA LoadSides ==
  ASSUME SharedInv, Silent, NEW p, NEW q, Two(p, q), Side(p, q), Side(q, p), Load(p)
  PROVE  Side(p, q)' /\ Side(q, p)'
<1>1. PICK s \in {Initial(p, clock + Skew[p])} \cup {synced[g] : g \in {r \in Peers : link[r] = "gone"}} :
          synced' = [synced EXCEPT ![p] = s]
  BY DEF Load
<1>2. CASE s = Initial(p, clock + Skew[p])
  BY <1>1, <1>2, FreshSides
<1>3. ASSUME NEW g \in Peers, link[g] = "gone", s = synced[g]
      PROVE  Side(p, q)' /\ Side(q, p)'
  <2>1. g = q
    BY <1>3 DEF Load, Two
  <2> QED BY <1>1, <1>3, <2>1, RestoredSides
<1> QED BY <1>1, <1>2, <1>3

(* A page is closed: nobody hears of it any more, and what it had is stored. *)
LEMMA UnloadSides ==
  ASSUME SharedInv, NEW p, NEW q, Two(p, q), Side(p, q), Side(q, p), Unload(p)
  PROVE  Side(p, q)' /\ Side(q, p)'
<1>1. p \in Peers /\ q \in Peers /\ p # q /\ link \in [Peers -> Links] /\ queue \in [Peers -> Seq(Entries)]
  BY DEF Two, SharedInv, TypeOK
<1>2. /\ synced' = synced /\ clock' = clock /\ CutOff(p)
      /\ link' = [link EXCEPT ![p] = "gone"] /\ queue' = [queue EXCEPT ![p] = <<>>]
  BY DEF Unload
<1>3. link'[q] = link[q] /\ link'[p] = "gone" /\ queue'[q] = queue[q] /\ queue'[p] = <<>>
  BY <1>1, <1>2
<1> QED BY <1>2, <1>3, QuietSides

\* The steps of p.
StepOf(p) ==
    \/ \E kind \in Kinds[p] : Mutate(p, kind)
    \/ Emit(p) \/ Load(p) \/ Unload(p) \/ Break(p) \/ Connect(p) \/ HandleLoss(p)
    \/ Disconnect(p) \/ Disconnected(p) \/ ReplayTimer(p) \/ Relay(p)
    \/ HandleHello(p) \/ HandleWelcome(p) \/ HandleState(p)

(* Every step is one of somebody. *)
LEMMA StepsOf == Next => \E p \in Peers : StepOf(p)
BY DEF Next, StepOf

(* A page that was closed says nothing: only connected pages send. *)
LEMMA SilentStep ==
  ASSUME SharedInv, Silent, [Next]_vars
  PROVE  Silent'
<1> SUFFICES ASSUME NEW r \in Peers, link'[r] = "gone" PROVE outbox'[r] = <<>>
  BY DEF Silent
<1>1. link \in [Peers -> Links] /\ outbox \in [Peers -> Seq(Signals)]
  BY DEF SharedInv, TypeOK
<1>2. CASE UNCHANGED vars
  BY <1>2 DEF vars, Silent
<1>3. ASSUME NEW p \in Peers, StepOf(p) PROVE outbox'[r] = <<>>
  <2>1. CASE \/ \E kind \in Kinds[p] : Mutate(p, kind)
             \/ Emit(p) \/ ReplayTimer(p) \/ HandleHello(p) \/ HandleWelcome(p) \/ HandleState(p)
    <3>1. link' = link /\ (outbox' = outbox \/ \E x : Send(p, x))
      BY <2>1 DEF Mutate, Emit, NextOperation, Enqueue, Dispatch, ReplayTimer, HandleHello,
                  HandleWelcome, HandleState, Receive
    <3>2. outbox'[r] = outbox[r] \/ Reachable(r)
      BY <1>1, <3>1 DEF Send
    <3> QED BY <3>1, <3>2 DEF Silent, Reachable
  <2>2. CASE Relay(p)
    <3>1. link' = link /\ outbox[p] # <<>> /\ outbox' = [outbox EXCEPT ![p] = Tail(@)]
      BY <2>2 DEF Relay
    <3> QED BY <1>1, <3>1 DEF Silent
  <2>3. CASE Unload(p)
    BY <1>1, <2>3 DEF Unload, CutOff, Silent
  <2>4. CASE Load(p) \/ Break(p) \/ Connect(p) \/ HandleLoss(p) \/ Disconnect(p) \/ Disconnected(p)
    <3>1. /\ \E l \in Links \ {"gone"} : link' = [link EXCEPT ![p] = l]
          /\ outbox' = outbox \/ \E x : outbox' = [outbox EXCEPT ![p] = x]
      BY <2>4 DEF Load, Break, Connect, HandleLoss, Disconnect, Disconnected, CutOff, net, Links
    <3>2. r # p
      BY <1>1, <3>1
    <3> QED BY <1>1, <3>1, <3>2 DEF Silent
  <2> QED BY <1>3, <2>1, <2>2, <2>3, <2>4 DEF StepOf
<1> QED BY <1>2, <1>3, StepsOf

(* A step of one of two pages keeps what they know of each other. *)
LEMMA StepSides ==
  ASSUME SharedInv, Silent, NEW p, NEW q, Two(p, q), Side(p, q), Side(q, p), StepOf(p)
  PROVE  Side(p, q)' /\ Side(q, p)'
BY MutateSides, EmitSides, LoadSides, UnloadSides, LinkSides, ConnectSides, ReplaySides,
   RelaySides, HelloSides, WelcomeSides, StateSides DEF StepOf

(* In a room of two the invariant holds after every step. *)
LEMMA ConvergedStep ==
  ASSUME NEW a, NEW b, Peers = {a, b}
  PROVE  ConvergedInv /\ SharedInv /\ [Next]_vars => ConvergedInv'
<1> SUFFICES ASSUME ConvergedInv, SharedInv, [Next]_vars, NEW p \in Peers, NEW q \in Peers, p # q
             PROVE  Side(p, q)'
  BY SilentStep DEF ConvergedInv
<1>1. Silent
  BY DEF ConvergedInv
<1>2. Two(p, q) /\ Two(q, p) /\ Side(p, q) /\ Side(q, p) /\ Peers = {p, q}
  BY DEF ConvergedInv, Two
<1>3. CASE UNCHANGED vars
  <2>1. /\ UNCHANGED <<link, synced, queue, outbox, inbox, clock>>
    BY <1>3 DEF vars
  <2>2. /\ Way(p, q)' = Way(p, q) /\ Way(q, p)' = Way(q, p)
        /\ On(p, q)' = On(p, q) /\ On(q, p)' = On(q, p)
    BY <2>1 DEF Way, On
  <2>3. All(p, q)' = All(p, q)
    BY <2>1, <2>2 DEF All
  <2>4. Exchange(p, q)' /\ Times(p, q)' /\ Unheard(p, q)'
    BY <1>2, <2>1, <2>2, <2>3 DEF Side, Exchange, Times, Unheard
  <2>5. Replays(p)' /\ Informs(p, q)' /\ Addressed(p, q)'
    BY <1>2, <2>1, <2>2 DEF Side, Replays, Informs, Addressed
  <2> QED BY <2>4, <2>5 DEF Side
<1>4. CASE Next
  <2>1. PICK r \in {p, q} : StepOf(r)
    BY <1>2, <1>4, StepsOf
  <2>2. CASE r = p
    BY <1>1, <1>2, <2>1, <2>2, StepSides
  <2>3. CASE r = q
    BY <1>1, <1>2, <2>1, <2>3, StepSides
  <2> QED BY <2>2, <2>3
<1> QED BY <1>3, <1>4

(* The invariant holds at first: all agree, and nothing is on its way. *)
LEMMA ConvergedInit ==
  ASSUME NEW a, NEW b, Peers = {a, b}
  PROVE  Init => ConvergedInv
<1> SUFFICES ASSUME Init, NEW p \in Peers, NEW q \in Peers, p # q PROVE Side(p, q)
  BY DEF ConvergedInv, Silent, Init
<1> DEFINE s == Initial(First, Skew[First])
<1>1. /\ synced[p] = s /\ synced[q] = s /\ queue[p] = <<>> /\ outbox[p] = <<>> /\ inbox[p] = <<>>
      /\ outbox[q] = <<>> /\ inbox[q] = <<>> /\ clock = 0
  BY DEF Init
<1>2. /\ s \in Snapshots /\ First \in Nat /\ Skew[First] \in Int
      /\ s.changedBy = First /\ s.timestamp = Skew[First]
      /\ \A r \in Peers : s.vectorClock[r] = 0
      /\ s = Initial(First, s.timestamp)
  <2>1. First \in Peers /\ Skew[First] \in Int /\ First \in Nat
    BY StartsArePeers, SkewOfPeers, PeersAreOrdered
  <2> QED BY <2>1, InitialTyped DEF Initial
<1> HIDE DEF s
<1>3. /\ \A i : ~Tells(<<>>, i)
      /\ \A x : Live(<<>>, x) = {x}
      /\ ToSet(<<>>) = {} /\ Updating({}) = {} /\ <<>> \o <<>> = <<>>
      /\ ~HasMutations(<<>>) /\ Queued(<<>>) = {}
  <2>1. <<>> \in Seq(Signals) /\ <<>> \in Seq(Entries) /\ DOMAIN <<>> = {}
    BY EmptySeq
  <2>2. ToSet(<<>>) = {} /\ <<>> \o <<>> = <<>>
    BY <2>1, SignalsOf
  <2>3. ~HasMutations(<<>>) /\ Queued(<<>>) = {}
    BY <2>1, QueuedIs
  <2>4. Updating({}) = {}
    BY DEF Updating
  <2>5. (\A i : ~Tells(<<>>, i)) /\ (\A x : Live(<<>>, x) = {x})
    BY <2>1 DEF Tells, Live
  <2> QED BY <2>2, <2>3, <2>4, <2>5
<1>4. ~Newer(s, s)
  <2>1. ~Before(s.vectorClock, s.vectorClock)
    BY DEF Before
  <2> QED BY <1>2, <2>1 DEF Newer
<1>5. Way(p, q) = <<>> /\ Way(q, p) = <<>> /\ On(p, q) = {} /\ On(q, p) = {} /\ All(p, q) = {s}
  <2>1. Way(p, q) = <<>> /\ Way(q, p) = <<>> /\ On(p, q) = {} /\ On(q, p) = {}
    BY <1>1, <1>3 DEF Way, On
  <2> QED BY <1>1, <1>3, <2>1 DEF All
<1>6. Exchange(p, q)
  <2>1. Two(p, q)
    BY DEF Two
  <2> QED BY <1>1, <1>2, <1>5, <2>1, BothSame DEF Exchange
<1>7. Times(p, q)
  <2>1. Skew[p] \in Int
    BY SkewOfPeers
  <2> QED BY <1>1, <1>2, <1>3, <1>5, <2>1 DEF Times, Timely
<1>8. Unheard(p, q)
  BY <1>1, <1>2, <1>3, <1>5 DEF Unheard
<1>9. Replays(p) /\ Informs(p, q) /\ Addressed(p, q)
  BY <1>1, <1>3, <1>4 DEF Replays, Informs, Addressed
<1> QED BY <1>6, <1>7, <1>8, <1>9 DEF Side

(* If neither has news for the other they have the same. *)
LEMMA AgreeOfTwo ==
  ASSUME NEW p, NEW q, Two(p, q), NEW s \in Snapshots, NEW t \in Snapshots,
         Both(p, q, s, t, <<>>, <<>>), ~Newer(s, t), ~Newer(t, s)
  PROVE  s = t
<1>1. \A x : Live(<<>>, x) = {x}
  BY EmptySeq DEF Tells, Live
<1>2. /\ t.changedBy = p => Later(p, q, t, s)
      /\ s.changedBy = q => Later(q, p, s, t)
      /\ s.vectorClock[q] <= t.vectorClock[q] /\ t.vectorClock[p] <= s.vectorClock[p]
  BY <1>1 DEF Both, Half, Follows
<1>3. /\ ~Before(s.vectorClock, t.vectorClock) /\ ~Before(t.vectorClock, s.vectorClock)
      /\ s.timestamp = t.timestamp /\ s.changedBy = t.changedBy
  BY NewerOfTwo DEF Wins
<1>4. CASE t.changedBy = p
  BY <1>2, <1>3, <1>4, NewerOfTwo DEF Later, Wins
<1>5. CASE s.changedBy = q
  BY <1>2, <1>3, <1>5, NewerOfTwo DEF Later, Wins
<1> QED BY <1>3, <1>4, <1>5, NewerOfTwo

(* At rest two peers show the same. *)
LEMMA ConvergedAtRest ==
  ASSUME NEW a, NEW b, Peers = {a, b}, SharedInv, ConvergedInv
  PROVE  Converged
<1> SUFFICES ASSUME Quiet, NEW p \in Peers, NEW q \in Peers, Running(p), Running(q), p # q
             PROVE  shown[p] = shown[q]
  BY DEF Converged
<1>1. Two(p, q) /\ Peers = {p, q}
  BY DEF Two
<1>2. Side(p, q) /\ Side(q, p)
  BY DEF ConvergedInv
<1>3. /\ link[p] = "up" /\ link[q] = "up" /\ queue[p] = <<>> /\ queue[q] = <<>>
      /\ inbox[p] = <<>> /\ inbox[q] = <<>> /\ outbox[p] = <<>> /\ outbox[q] = <<>>
  BY DEF Quiet
<1>4. /\ ToSet(<<>>) = {} /\ <<>> \o <<>> = <<>> /\ ~HasMutations(<<>>)
  <2>1. <<>> \in Seq(Signals) /\ <<>> \in Seq(Entries)
    BY EmptySeq
  <2> QED BY <2>1, SignalsOf, QueuedIs
<1>5. Way(p, q) = <<>> /\ Way(q, p) = <<>> /\ On(p, q) = {} /\ On(q, p) = {}
  BY <1>3, <1>4 DEF Way, On
<1>6. ~Newer(synced[p], synced[q]) /\ ~Newer(synced[q], synced[p])
  <2>1. Informs(p, q) /\ Informs(q, p)
    BY <1>2 DEF Side
  <2> QED BY <1>3, <1>4, <1>5, <2>1 DEF Informs, Updating, Greeting
<1>7. synced[p] = synced[q]
  <2>1. synced[p] \in Snapshots /\ synced[q] \in Snapshots
    BY <1>1, WaysTyped
  <2>2. Both(p, q, synced[p], synced[q], <<>>, <<>>)
    BY <1>2, <1>5 DEF Side, Exchange
  <2> QED BY <1>1, <1>6, <2>1, <2>2, AgreeOfTwo
<1>8. shown[p] = synced[p] /\ shown[q] = synced[q]
  BY <1>3, <1>4, ShowsShared
<1> QED BY <1>7, <1>8

\* In a room of two peers, once nothing is on its way and nothing is left to replay, both show
\* the same state, whatever was changed, lost, dropped or replayed before, however their
\* clocks differ: applyRemoteStateSnapshot keeps the newer of two snapshots, and flushOfflineQueue
\* and the snapshots sent after a hello tell the other of all that it has yet to hear.
THEOREM ConvergedOfTwo ==
  ASSUME NEW a, NEW b, Peers = {a, b}
  PROVE  Spec => []Converged
<1>1. Init => ConvergedInv
  BY ConvergedInit
<1>2. ConvergedInv /\ SharedInv /\ [Next]_vars => ConvergedInv'
  BY ConvergedStep
<1>3. SharedInv /\ ConvergedInv => Converged
  BY ConvergedAtRest
<1> QED BY <1>1, <1>2, <1>3, SharedInvCorrect, PTL DEF Spec

-----------------------------------------------------------------------------
\* What a replay drops in a room of two, if each write comes at a time of its own.

\* Without an undo all mutations are possible over every snapshot.
Plain(S) == \A e \in S : e.mutation.kind # "undo"

\* What was queued before the operation o and is news over s.
NewsBefore(S, s, o) == {d \in S : OpOf(d) < o /\ Newer(d.snapshot, s)}

\* p shares s and has queued S.  Each queued snapshot knows no more of q than s does and no less
\* than those queued before it, comes later than they, and counts on top of all of them that
\* are still news.
InLine(p, q, S, s) ==
    \A e \in S :
        /\ e.snapshot.changedBy = p /\ e.snapshot.timestamp = e.mutation.timestamp
        /\ e.snapshot.vectorClock[q] <= s.vectorClock[q]
        /\ s.changedBy = p => e.snapshot.vectorClock[q] = s.vectorClock[q]
        /\ e.snapshot.vectorClock[p] > s.vectorClock[p] + Cardinality(NewsBefore(S, s, OpOf(e)))
        /\ \A d \in S : OpOf(d) < OpOf(e) =>
               /\ d.snapshot.vectorClock[q] <= e.snapshot.vectorClock[q]
               /\ d.mutation.timestamp < e.mutation.timestamp

Lined(p, q) == Plain(Queued(queue[p])) => InLine(p, q, Queued(queue[p]), synced[p])

\* Entries of a queue: a finite set of mutations with their snapshots.
Mutated(S) ==
    /\ IsFiniteSet(S)
    /\ \A e \in S : /\ e.type = "state" /\ e.mutation \in Mutations /\ e.snapshot \in Snapshots
                    /\ OpOf(e) \in Nat

(* A queue holds finitely many mutations. *)
LEMMA QueuedFinite ==
  ASSUME NEW c \in Seq(Entries)
  PROVE  Mutated(Queued(c))
<1> DEFINE places == {j \in DOMAIN c : c[j].type = "state"}
           f == [k \in places |-> c[k]]
<1>1. Len(c) \in Nat /\ DOMAIN c = 1..Len(c)
  BY LenProperties
<1>2. IsFiniteSet(places)
  <2>1. IsFiniteSet(1..Len(c))
    BY <1>1, FS_Interval
  <2>2. places \subseteq 1..Len(c)
    BY <1>1
  <2> HIDE DEF places
  <2> QED BY <2>1, <2>2, FS_Subset
<1>3. Queued(c) = {c[k] : k \in places}
  BY DEF Queued
<1>4. f \in Surjection(places, Queued(c))
  <2> HIDE DEF places
  <2>1. f \in [places -> Queued(c)]
    BY <1>3
  <2>2. \A x \in Queued(c) : \E k \in places : f[k] = x
    BY <1>3
  <2> HIDE DEF f
  <2> QED BY <2>1, <2>2 DEF Surjection
<1>5. IsFiniteSet(Queued(c))
  <2> HIDE DEF places, f
  <2> QED BY <1>2, <1>4, FS_Surjection
<1>6. \A e \in Queued(c) : /\ e.type = "state" /\ e.mutation \in Mutations /\ e.snapshot \in Snapshots
                           /\ OpOf(e) \in Nat
  <2> SUFFICES ASSUME NEW e \in Queued(c)
               PROVE  /\ e.type = "state" /\ e.mutation \in Mutations /\ e.snapshot \in Snapshots
                      /\ OpOf(e) \in Nat
    OBVIOUS
  <2>1. /\ e.type = "state" /\ e.mutation \in Mutations /\ e.snapshot \in Snapshots
        /\ \E k \in DOMAIN c : e = c[k]
    BY QueuedIs
  <2>2. OpOf(e) \in 1..MaxWork
    BY <2>1, OpTyped
  <2> QED BY <2>1, <2>2
<1> QED BY <1>5, <1>6 DEF Mutated

(* So is any part of them. *)
LEMMA NewsFinite ==
  ASSUME NEW S, Mutated(S), NEW T, T \subseteq S
  PROVE  IsFiniteSet(T) /\ Cardinality(T) \in Nat /\ Cardinality(S) \in Nat /\ Cardinality(T) <= Cardinality(S)
<1>1. IsFiniteSet(S)
  BY DEF Mutated
<1>2. IsFiniteSet(T) /\ Cardinality(T) <= Cardinality(S)
  BY <1>1, FS_Subset
<1> QED BY <1>1, <1>2, FS_CardinalityType

(* What is queued after something that is news is news as well. *)
LEMMA NewsGoesOn ==
  ASSUME NEW p, NEW q, Two(p, q), NEW s \in Snapshots, NEW d \in Snapshots, NEW e \in Snapshots,
         d.changedBy = p, e.changedBy = p,
         d.vectorClock[q] <= e.vectorClock[q], e.vectorClock[q] <= s.vectorClock[q],
         s.vectorClock[p] < d.vectorClock[p], s.vectorClock[p] < e.vectorClock[p],
         d.timestamp < e.timestamp, Newer(d, s)
  PROVE  Newer(e, s)
BY NewerOfTwo DEF Wins

(* What counts on top of r and is later than it is news over it. *)
LEMMA NewsOver ==
  ASSUME NEW p, NEW q, Two(p, q), NEW r \in Snapshots, NEW e \in Snapshots,
         e.vectorClock[q] <= r.vectorClock[q], r.vectorClock[p] < e.vectorClock[p],
         r.timestamp < e.timestamp
  PROVE  Newer(e, r)
BY NewerOfTwo DEF Wins

(* A mutation more, made over what p shows. *)
LEMMA LineGrows ==
  ASSUME NEW p, NEW q, Two(p, q), NEW S, Mutated(S), NEW s \in Snapshots, InLine(p, q, S, s),
         NEW n, n.type = "state", n.mutation \in Mutations, n.snapshot \in Snapshots, OpOf(n) \in Nat,
         NEW w \in Snapshots, Writes(p, q, w, n.snapshot),
         n.snapshot.timestamp = n.mutation.timestamp,
         w.vectorClock[q] = s.vectorClock[q],
         w.vectorClock[p] = s.vectorClock[p] + Cardinality({d \in S : Newer(d.snapshot, s)}),
         \A d \in S : OpOf(d) < OpOf(n) /\ d.mutation.timestamp < n.mutation.timestamp
  PROVE  InLine(p, q, S \cup {n}, s)
<1> DEFINE U == S \cup {n}
<1>1. \A e \in S : OpOf(e) \in Nat /\ e.mutation.timestamp \in Int /\ e.snapshot \in Snapshots
  BY DEF Mutated, Mutations
<1>2. NewsBefore(U, s, OpOf(n)) = {d \in S : Newer(d.snapshot, s)}
  BY <1>1 DEF NewsBefore
<1>3. ASSUME NEW e \in S PROVE NewsBefore(U, s, OpOf(e)) = NewsBefore(S, s, OpOf(e))
  BY <1>1 DEF NewsBefore
<1>4. Cardinality({d \in S : Newer(d.snapshot, s)}) \in Nat
  <2> DEFINE T == {d \in S : Newer(d.snapshot, s)}
  <2>1. T \subseteq S
    OBVIOUS
  <2> HIDE DEF T
  <2>2. Cardinality(T) \in Nat
    BY <2>1, NewsFinite
  <2> QED BY <2>2 DEF T
<1>5. /\ n.snapshot.changedBy = p /\ n.snapshot.vectorClock[q] = s.vectorClock[q]
      /\ n.snapshot.vectorClock[p] = w.vectorClock[p] + 1 /\ s.vectorClock[q] \in Nat
      /\ w.vectorClock[p] \in Nat
  BY NewerOfTwo DEF Writes
<1>6. n.snapshot.vectorClock[p] > s.vectorClock[p] + Cardinality(NewsBefore(U, s, OpOf(n)))
  <2> DEFINE T == {d \in S : Newer(d.snapshot, s)}
             k == Cardinality(T)
  <2>1. s.vectorClock[p] \in Nat /\ k \in Nat /\ w.vectorClock[p] = s.vectorClock[p] + k
    BY <1>4, NewerOfTwo
  <2>2. NewsBefore(U, s, OpOf(n)) = T
    BY <1>2
  <2> HIDE DEF k
  <2>3. n.snapshot.vectorClock[p] > s.vectorClock[p] + k
    BY <1>5, <2>1
  <2> QED BY <2>2, <2>3 DEF k
<1>7. ASSUME NEW e \in S
      PROVE  /\ e.snapshot.changedBy = p /\ e.snapshot.timestamp = e.mutation.timestamp
             /\ e.snapshot.vectorClock[q] <= s.vectorClock[q]
             /\ s.changedBy = p => e.snapshot.vectorClock[q] = s.vectorClock[q]
             /\ e.snapshot.vectorClock[p] > s.vectorClock[p] + Cardinality(NewsBefore(U, s, OpOf(e)))
             /\ \A d \in S : OpOf(d) < OpOf(e) =>
                    /\ d.snapshot.vectorClock[q] <= e.snapshot.vectorClock[q]
                    /\ d.mutation.timestamp < e.mutation.timestamp
             /\ ~(OpOf(n) < OpOf(e))
  <2>1. OpOf(e) \in Nat /\ OpOf(e) < OpOf(n)
    BY <1>1
  <2>2. ~(OpOf(n) < OpOf(e))
    BY <2>1
  <2> QED BY <1>3, <2>2 DEF InLine
<1>8. \A d \in S : d.snapshot.vectorClock[q] <= n.snapshot.vectorClock[q]
  BY <1>5, <1>7
<1>9. ~(OpOf(n) < OpOf(n)) /\ n.snapshot.vectorClock[q] <= s.vectorClock[q]
  BY <1>5
<1> HIDE DEF U
<1>10. \A e \in U : e \in S \/ e = n
  BY DEF U
<1> QED BY <1>5, <1>6, <1>7, <1>8, <1>9, <1>10 DEF InLine, U

(* p has taken over b, which q wrote: what was no news before is none now. *)
LEMMA NewsWas ==
  ASSUME NEW p, NEW q, Two(p, q), NEW s \in Snapshots, NEW b \in Snapshots, NEW d \in Snapshots,
         Newer(b, s), b.changedBy = q, b.vectorClock[p] <= s.vectorClock[p],
         s.changedBy = q => s.timestamp <= b.timestamp,
         s.changedBy = p => d.vectorClock[q] = s.vectorClock[q],
         d.changedBy = p, d.vectorClock[q] <= s.vectorClock[q], s.vectorClock[p] < d.vectorClock[p],
         Newer(d, b)
  PROVE  Newer(d, s) /\ s.vectorClock[q] <= b.vectorClock[q]
<1>1. s.vectorClock[q] <= b.vectorClock[q]
  BY NewerOfTwo
<1>2. CASE d.vectorClock[q] = s.vectorClock[q]
  BY <1>2, NewerOfTwo
<1>3. CASE d.vectorClock[q] < s.vectorClock[q]
  <2>1. ~Before(b.vectorClock, d.vectorClock) /\ Wins(d, b)
    BY <1>1, <1>3, NewerOfTwo
  <2>2. s.changedBy = q
    BY <1>3, NewerOfTwo
  <2> QED BY <1>3, <2>1, <2>2, NewerOfTwo DEF Wins
<1>4. d.vectorClock[q] \in Nat /\ s.vectorClock[q] \in Nat
  BY NewerOfTwo
<1>5. d.vectorClock[q] = s.vectorClock[q] \/ d.vectorClock[q] < s.vectorClock[q]
  BY <1>4
<1> QED BY <1>1, <1>2, <1>3, <1>5

(* So the queue is in line with what p has taken over. *)
LEMMA LineAdopts ==
  ASSUME NEW p, NEW q, Two(p, q), NEW S, Mutated(S), NEW s \in Snapshots, InLine(p, q, S, s),
         NEW b \in Snapshots, Newer(b, s), b.changedBy = q, b.vectorClock[p] <= s.vectorClock[p],
         s.changedBy = q => s.timestamp <= b.timestamp
  PROVE  InLine(p, q, S, b)
<1>1. ASSUME NEW e \in S
      PROVE  /\ e.snapshot \in Snapshots /\ e.snapshot.changedBy = p
             /\ e.snapshot.timestamp = e.mutation.timestamp
             /\ e.snapshot.vectorClock[q] <= s.vectorClock[q]
             /\ s.changedBy = p => e.snapshot.vectorClock[q] = s.vectorClock[q]
             /\ e.snapshot.vectorClock[p] > s.vectorClock[p] + Cardinality(NewsBefore(S, s, OpOf(e)))
             /\ Cardinality(NewsBefore(S, s, OpOf(e))) \in Nat
             /\ s.vectorClock[p] < e.snapshot.vectorClock[p]
  <2>1. /\ e.snapshot \in Snapshots /\ e.snapshot.changedBy = p
        /\ e.snapshot.timestamp = e.mutation.timestamp
        /\ e.snapshot.vectorClock[q] <= s.vectorClock[q]
        /\ s.changedBy = p => e.snapshot.vectorClock[q] = s.vectorClock[q]
        /\ e.snapshot.vectorClock[p] > s.vectorClock[p] + Cardinality(NewsBefore(S, s, OpOf(e)))
    BY DEF InLine, Mutated
  <2>2. Cardinality(NewsBefore(S, s, OpOf(e))) \in Nat
    BY NewsFinite DEF NewsBefore
  <2> QED BY <2>1, <2>2, NewerOfTwo
<1>2. s.vectorClock[q] <= b.vectorClock[q]
  BY NewerOfTwo
<1>3. ASSUME NEW d \in S, Newer(d.snapshot, b) PROVE Newer(d.snapshot, s)
  <2> DEFINE x == d.snapshot
  <2>1. /\ x \in Snapshots /\ x.changedBy = p /\ x.vectorClock[q] <= s.vectorClock[q]
        /\ s.vectorClock[p] < x.vectorClock[p] /\ Newer(x, b)
        /\ s.changedBy = p => x.vectorClock[q] = s.vectorClock[q]
    BY <1>1, <1>3
  <2> HIDE DEF x
  <2>2. Newer(x, s)
    BY <2>1, NewsWas
  <2> QED BY <2>2 DEF x
<1>4. ASSUME NEW e \in S
      PROVE  e.snapshot.vectorClock[p] > b.vectorClock[p] + Cardinality(NewsBefore(S, b, OpOf(e)))
  <2> DEFINE B == NewsBefore(S, b, OpOf(e))
             A == NewsBefore(S, s, OpOf(e))
  <2>1. B \subseteq A /\ A \subseteq S
    BY <1>3 DEF NewsBefore
  <2>2. e.snapshot.vectorClock[p] > s.vectorClock[p] + Cardinality(A) /\ Cardinality(A) \in Nat
    BY <1>1
  <2> HIDE DEF A, B
  <2>3. IsFiniteSet(A)
    BY <2>1, NewsFinite
  <2>4. Cardinality(B) <= Cardinality(A) /\ Cardinality(B) \in Nat
    BY <2>1, <2>3, FS_Subset, FS_CardinalityType
  <2>5. e.snapshot.vectorClock[p] > b.vectorClock[p] + Cardinality(B)
    BY <1>1, <2>2, <2>4, NewerOfTwo
  <2> QED BY <2>5 DEF B
<1>5. ASSUME NEW e \in S PROVE e.snapshot.vectorClock[q] <= b.vectorClock[q]
  BY <1>1, <1>2, NewerOfTwo
<1>6. b.changedBy # p
  BY NewerOfTwo
<1> QED BY <1>1, <1>4, <1>5, <1>6 DEF InLine

\* The mutations among the first n entries of c that are news over s.
NewsIn(c, s, n) == {d \in Queued(c) : (\E k \in 1..n : d = c[k]) /\ Newer(d.snapshot, s)}

(* An entry more is one more of them if it is news, and those before it are the news queued
   before it. *)
LEMMA NewsCounted ==
  ASSUME NEW c \in Seq(Entries), Ordered(c), NEW s
  PROVE  /\ NewsIn(c, s, 0) = {}
         /\ NewsIn(c, s, Len(c)) = {d \in Queued(c) : Newer(d.snapshot, s)}
         /\ \A n \in 0..Len(c) : Cardinality(NewsIn(c, s, n)) \in Nat
         /\ \A n \in 1..Len(c) :
                /\ c[n].type = "state" => NewsIn(c, s, n - 1) = NewsBefore(Queued(c), s, OpOf(c[n]))
                /\ c[n].type = "state" /\ Newer(c[n].snapshot, s) =>
                       /\ c[n] \in NewsIn(c, s, n)
                       /\ Cardinality(NewsIn(c, s, n)) = Cardinality(NewsIn(c, s, n - 1)) + 1
                /\ ~(c[n].type = "state" /\ Newer(c[n].snapshot, s)) =>
                       NewsIn(c, s, n) = NewsIn(c, s, n - 1)
<1>1. /\ Len(c) \in Nat /\ DOMAIN c = 1..Len(c)
      /\ \A k \in 1..Len(c) : c[k] \in Entries /\ OpOf(c[k]) \in Nat
  <2>1. \A k \in DOMAIN c : c[k] \in Entries /\ OpOf(c[k]) \in 1..MaxWork
    BY OpTyped
  <2> QED BY <2>1, LenProperties
<1>2. /\ \A d \in Queued(c) : d.type = "state" /\ \E k \in 1..Len(c) : d = c[k]
      /\ \A k \in 1..Len(c) : c[k].type = "state" => c[k] \in Queued(c)
  BY <1>1, QueuedIs
<1>3. NewsIn(c, s, 0) = {}
  BY DEF NewsIn
<1>4. NewsIn(c, s, Len(c)) = {d \in Queued(c) : Newer(d.snapshot, s)}
  BY <1>2 DEF NewsIn
<1>5. \A n : IsFiniteSet(NewsIn(c, s, n)) /\ Cardinality(NewsIn(c, s, n)) \in Nat
  <2> TAKE n
  <2>1. NewsIn(c, s, n) \subseteq Queued(c)
    BY DEF NewsIn
  <2> QED BY <2>1, QueuedFinite, NewsFinite
<1>6. \A i, j \in 1..Len(c) : i < j <=> OpOf(c[i]) < OpOf(c[j])
  <2> SUFFICES ASSUME NEW i \in 1..Len(c), NEW j \in 1..Len(c)
               PROVE  i < j <=> OpOf(c[i]) < OpOf(c[j])
    OBVIOUS
  <2>1. i < j => OpOf(c[i]) < OpOf(c[j])
    BY <1>1 DEF Ordered
  <2>2. j < i => OpOf(c[j]) < OpOf(c[i])
    BY <1>1 DEF Ordered
  <2>3. OpOf(c[i]) \in Nat /\ OpOf(c[j]) \in Nat /\ (i < j \/ j < i \/ i = j)
    BY <1>1
  <2> QED BY <2>1, <2>2, <2>3
<1>7. ASSUME NEW n \in 1..Len(c), c[n].type = "state"
      PROVE  NewsIn(c, s, n - 1) = NewsBefore(Queued(c), s, OpOf(c[n]))
  <2>1. ASSUME NEW d \in Queued(c)
        PROVE  (\E k \in 1..n - 1 : d = c[k]) <=> OpOf(d) < OpOf(c[n])
    <3>1. PICK k \in 1..Len(c) : d = c[k]
      BY <1>2
    <3>2. \A j \in 1..n - 1 : j \in 1..Len(c) /\ j < n
      BY <1>1
    <3>3. k < n => k \in 1..n - 1
      BY <1>1
    <3>4. (\E j \in 1..n - 1 : d = c[j]) => OpOf(d) < OpOf(c[n])
      BY <1>6, <3>2
    <3>5. OpOf(d) < OpOf(c[n]) => k < n
      BY <1>6, <3>1
    <3> QED BY <3>1, <3>3, <3>4, <3>5
  <2> QED BY <2>1 DEF NewsIn, NewsBefore
<1>8. ASSUME NEW n \in 1..Len(c), c[n].type = "state", Newer(c[n].snapshot, s)
      PROVE  /\ c[n] \in NewsIn(c, s, n)
             /\ Cardinality(NewsIn(c, s, n)) = Cardinality(NewsIn(c, s, n - 1)) + 1
  <2>1. n \in 1..n /\ \A k : k \in 1..n <=> k \in 1..n - 1 \/ k = n
    BY <1>1
  <2>2. NewsIn(c, s, n) = NewsIn(c, s, n - 1) \cup {c[n]}
    BY <1>2, <1>8, <2>1 DEF NewsIn
  <2>3. c[n] \notin NewsIn(c, s, n - 1)
    <3>1. ~(OpOf(c[n]) < OpOf(c[n]))
      BY <1>1
    <3> QED BY <1>7, <1>8, <3>1 DEF NewsBefore
  <2> QED BY <1>5, <2>2, <2>3, FS_AddElement
<1>9. ASSUME NEW n \in 1..Len(c), ~(c[n].type = "state" /\ Newer(c[n].snapshot, s))
      PROVE  NewsIn(c, s, n) = NewsIn(c, s, n - 1)
  <2>1. \A k : k \in 1..n <=> k \in 1..n - 1 \/ k = n
    BY <1>1
  <2>2. \A d \in Queued(c) : Newer(d.snapshot, s) => d # c[n]
    BY <1>2, <1>9
  <2> QED BY <2>1, <2>2 DEF NewsIn
<1> QED BY <1>3, <1>4, <1>5, <1>7, <1>8, <1>9

\* What p may come to over s after n entries of c, if c is in line: it has made all news.
Over(p, q, c, s, n) ==
    {r \in Snapshots :
        /\ r.vectorClock[q] = s.vectorClock[q]
        /\ r.vectorClock[p] = s.vectorClock[p] + Cardinality(NewsIn(c, s, n))
        /\ NewsIn(c, s, n) = {} => r = s
        /\ NewsIn(c, s, n) # {} =>
               \E d \in NewsIn(c, s, n) : r.timestamp = d.mutation.timestamp}

(* One more entry: it counts if and only if it is news over s. *)
LEMMA OverStep ==
  ASSUME NEW p, NEW q, Two(p, q), NEW s \in Snapshots, NEW c \in Seq(Entries), Ordered(c),
         Plain(Queued(c)), InLine(p, q, Queued(c), s),
         \A e \in Queued(c) : e.mutation.changedBy = p,
         NEW n \in 1..Len(c), NEW r \in Over(p, q, c, s, n - 1)
  PROVE  /\ Counts(r, c[n]) <=> c[n].type = "state" /\ Newer(c[n].snapshot, s)
         /\ Projected(r, c[n]) \in Over(p, q, c, s, n)
<1> DEFINE e == c[n]
           before == NewsIn(c, s, n - 1)
           after == NewsIn(c, s, n)
<1>1. /\ r \in Snapshots /\ r.vectorClock[q] = s.vectorClock[q]
      /\ r.vectorClock[p] = s.vectorClock[p] + Cardinality(before)
      /\ before = {} => r = s
      /\ before # {} => \E d \in before : r.timestamp = d.mutation.timestamp
  BY DEF Over
<1>2. /\ Cardinality(before) \in Nat /\ Cardinality(after) \in Nat
      /\ e.type = "state" => before = NewsBefore(Queued(c), s, OpOf(e))
      /\ e.type = "state" /\ Newer(e.snapshot, s) =>
             e \in after /\ Cardinality(after) = Cardinality(before) + 1
      /\ ~(e.type = "state" /\ Newer(e.snapshot, s)) => after = before
  <2>1. n \in 0..Len(c) /\ n - 1 \in 0..Len(c)
    BY LenProperties
  <2> QED BY <2>1, NewsCounted
<1>3. e.type = "state" => e \in Queued(c)
  BY QueuedIs, LenProperties
<1>4. Mutated(Queued(c))
  BY QueuedFinite
<1>5. ASSUME NEW d \in Queued(c)
      PROVE  /\ d.snapshot \in Snapshots /\ d.mutation \in Mutations /\ d.mutation.kind # "undo"
             /\ d.mutation.changedBy = p /\ d.snapshot.changedBy = p /\ d.type = "state"
             /\ d.snapshot.timestamp = d.mutation.timestamp
             /\ d.snapshot.vectorClock[q] <= s.vectorClock[q]
             /\ d.snapshot.vectorClock[p] > s.vectorClock[p] + Cardinality(NewsBefore(Queued(c), s, OpOf(d)))
             /\ Cardinality(NewsBefore(Queued(c), s, OpOf(d))) \in Nat
             /\ s.vectorClock[p] < d.snapshot.vectorClock[p]
  <2>1. /\ d.snapshot \in Snapshots /\ d.mutation \in Mutations /\ d.type = "state"
        /\ d.mutation.kind # "undo" /\ d.mutation.changedBy = p /\ d.snapshot.changedBy = p
        /\ d.snapshot.timestamp = d.mutation.timestamp
        /\ d.snapshot.vectorClock[q] <= s.vectorClock[q]
        /\ d.snapshot.vectorClock[p] > s.vectorClock[p] + Cardinality(NewsBefore(Queued(c), s, OpOf(d)))
    BY <1>4 DEF Mutated, Plain, InLine
  <2>2. NewsBefore(Queued(c), s, OpOf(d)) \subseteq Queued(c)
    BY DEF NewsBefore
  <2>3. Cardinality(NewsBefore(Queued(c), s, OpOf(d))) \in Nat
    BY <1>4, <2>2, NewsFinite
  <2> QED BY <2>1, <2>3, NewerOfTwo
<1>6. ASSUME NEW d \in Queued(c), NEW x \in Queued(c), OpOf(d) < OpOf(x)
      PROVE  /\ d.snapshot.vectorClock[q] <= x.snapshot.vectorClock[q]
             /\ d.mutation.timestamp < x.mutation.timestamp
  BY <1>6 DEF InLine
<1>7. before \subseteq Queued(c) /\ \A d \in before : Newer(d.snapshot, s)
  BY DEF NewsIn
<1> HIDE DEF before, after
<1>8. CASE e.type # "state"
  <2>1. ~Counts(r, e) /\ after = before
    BY <1>2, <1>8 DEF Counts
  <2> QED BY <1>1, <1>8, <2>1 DEF Projected, Over, before, after
<1>9. CASE e.type = "state" /\ ~Newer(e.snapshot, s)
  <2>1. before = {}
    <3> SUFFICES ASSUME NEW d \in before PROVE FALSE
      OBVIOUS
    <3>1. d \in Queued(c) /\ OpOf(d) < OpOf(e) /\ Newer(d.snapshot, s) /\ e \in Queued(c)
      BY <1>2, <1>3, <1>7, <1>9 DEF NewsBefore
    <3>2. /\ d.snapshot.vectorClock[q] <= e.snapshot.vectorClock[q]
          /\ d.snapshot.timestamp < e.snapshot.timestamp
      BY <1>5, <1>6, <3>1
    <3>3. Newer(e.snapshot, s)
      <4> DEFINE y == d.snapshot
                 z == e.snapshot
      <4>1. /\ y \in Snapshots /\ z \in Snapshots /\ y.changedBy = p /\ z.changedBy = p
            /\ z.vectorClock[q] <= s.vectorClock[q]
            /\ s.vectorClock[p] < y.vectorClock[p] /\ s.vectorClock[p] < z.vectorClock[p]
            /\ y.vectorClock[q] <= z.vectorClock[q] /\ y.timestamp < z.timestamp /\ Newer(y, s)
        BY <1>5, <3>1, <3>2
      <4> HIDE DEF y, z
      <4>2. Newer(z, s)
        BY <4>1, NewsGoesOn
      <4> QED BY <4>2 DEF z
    <3> QED BY <1>9, <3>3
  <2>2. r = s /\ ~Counts(r, e) /\ after = before
    BY <1>1, <1>2, <1>9, <2>1 DEF Counts
  <2> QED BY <1>1, <1>9, <2>2 DEF Projected, Over, before, after
<1>10. CASE e.type = "state" /\ Newer(e.snapshot, s)
  <2> DEFINE m == e.mutation
             z == e.snapshot
             y == Apply(r, m)
             k == Cardinality(before)
  <2>1. /\ e \in Queued(c) /\ m \in Mutations /\ m.changedBy = p /\ m.kind # "undo"
        /\ z \in Snapshots /\ z.timestamp = m.timestamp /\ z.vectorClock[q] <= s.vectorClock[q]
        /\ z.vectorClock[p] > s.vectorClock[p] + k /\ k \in Nat /\ z.changedBy = p
    BY <1>2, <1>3, <1>5, <1>10
  <2>2. Newer(z, r)
    <3>1. CASE before = {}
      BY <1>1, <1>10, <3>1
    <3>2. CASE before # {}
      <4>1. PICK d \in before : r.timestamp = d.mutation.timestamp
        BY <1>1, <3>2
      <4>2. d \in Queued(c) /\ OpOf(d) < OpOf(e)
        BY <1>2, <1>7, <1>10 DEF NewsBefore
      <4>3. r.timestamp < z.timestamp
        BY <1>6, <2>1, <4>1, <4>2
      <4>4. z.vectorClock[q] <= r.vectorClock[q] /\ r.vectorClock[p] < z.vectorClock[p]
        BY <1>1, <2>1
      <4> HIDE DEF z
      <4> QED BY <1>1, <2>1, <4>3, <4>4, NewsOver
    <3> QED BY <3>1, <3>2
  <2>3. CanApply(r, m) /\ Counts(r, e)
    BY <1>10, <2>1, <2>2 DEF CanApply, Counts
  <2>4. y \in Snapshots /\ Writes(p, q, r, y) /\ y.timestamp = m.timestamp
    <3> HIDE DEF m
    <3> QED BY <1>1, <2>1, <2>3, Applied, AppliedWrites
  <2>5. Projected(r, e) = y
    BY <2>3 DEF Projected
  <2> HIDE DEF y, m
  <2>6. y.vectorClock[q] = s.vectorClock[q] /\ y.vectorClock[p] = s.vectorClock[p] + Cardinality(after)
    <3>1. /\ s.vectorClock[p] \in Nat /\ r.vectorClock[p] \in Nat /\ Cardinality(after) = k + 1
          /\ r.vectorClock[p] = s.vectorClock[p] + k
      BY <1>1, <1>2, <1>10, NewerOfTwo
    <3>2. k \in Nat /\ y.vectorClock[p] = r.vectorClock[p] + 1 /\ y.vectorClock[q] = r.vectorClock[q]
      BY <2>1, <2>4 DEF Writes
    <3>3. y.vectorClock[q] = s.vectorClock[q]
      BY <1>1, <3>2
    <3> HIDE DEF k
    <3>4. y.vectorClock[p] = s.vectorClock[p] + (k + 1)
      <4>1. \A i, j \in Nat : (i + j) + 1 = i + (j + 1)
        OBVIOUS
      <4>2. y.vectorClock[p] = (s.vectorClock[p] + k) + 1
        BY <3>1, <3>2
      <4> QED BY <3>1, <3>2, <4>1, <4>2
    <3> QED BY <3>1, <3>3, <3>4
  <2>7. e \in after /\ after # {} /\ y.timestamp = e.mutation.timestamp
    BY <1>2, <1>10, <2>4 DEF m
  <2>8. y \in Over(p, q, c, s, n)
    BY <2>4, <2>6, <2>7 DEF Over, after
  <2> QED BY <1>10, <2>3, <2>5, <2>8
<1> QED BY <1>8, <1>9, <1>10

(* Before the first entry, nothing. *)
LEMMA NothingOver ==
  ASSUME NEW p, NEW q, Two(p, q), NEW s \in Snapshots, NEW c \in Seq(Entries), Ordered(c)
  PROVE  s \in Over(p, q, c, s, 0)
<1>1. NewsIn(c, s, 0) = {}
  BY NewsCounted
<1>2. Cardinality(NewsIn(c, s, 0)) = 0
  BY <1>1, FS_EmptySet
<1>3. s.vectorClock[p] \in Nat
  BY NewerOfTwo
<1> QED BY <1>1, <1>2, <1>3 DEF Over

(* What p shows has all news of its queue made over what it shares. *)
LEMMA ProjectOver ==
  ASSUME NEW p, NEW q, Two(p, q), NEW s \in Snapshots, NEW c \in Seq(Entries), Ordered(c),
         Plain(Queued(c)), InLine(p, q, Queued(c), s),
         \A e \in Queued(c) : e.mutation.changedBy = p
  PROVE  Project(s, c) \in Over(p, q, c, s, Len(c))
<1> DEFINE T == [n \in 0..Len(c) |-> Over(p, q, c, s, n)]
<1>1. Len(c) \in Nat
  BY LenProperties
<1>2. ASSUME NEW n \in 1..Len(c), NEW r \in T[n - 1] PROVE Step("project", r, c[n]) \in T[n]
  <2>1. r \in Over(p, q, c, s, n - 1) /\ T[n] = Over(p, q, c, s, n)
    BY <1>1, <1>2
  <2>2. Projected(r, c[n]) \in Over(p, q, c, s, n)
    BY <2>1, OverStep
  <2> QED BY <2>1, <2>2 DEF Step
<1>3. s \in T[0] /\ T[Len(c)] = Over(p, q, c, s, Len(c))
  <2>1. s \in Over(p, q, c, s, 0)
    BY NothingOver
  <2> QED BY <1>1, <2>1
<1> HIDE DEF T
<1>4. Fold("project", s, c) \in T[Len(c)]
  BY <1>2, <1>3, FoldKeeps
<1> QED BY <1>3, <1>4, ProjectFolds

\* What a replay of c over s may have come to after n entries, if c is in line.
Among(x, done) == \E j \in 1..Len(done) : done[j] = x
Made(p, q, c, s, n) ==
    {r \in [synced : Snapshots, sent : Seq(Snapshots), done : Seq(1..MaxWork)] :
        /\ r.synced \in Over(p, q, c, s, n)
        /\ \A k \in 1..n : c[k].type = "state" /\ Newer(c[k].snapshot, s) =>
               Among(c[k].mutation.op, r.done)}

(* A replay dispatches all news of the queue. *)
LEMMA ReplayOver ==
  ASSUME NEW p, NEW q, Two(p, q), NEW s \in Snapshots, NEW c \in Seq(Entries), Ordered(c),
         Plain(Queued(c)), InLine(p, q, Queued(c), s),
         \A e \in Queued(c) : e.mutation.changedBy = p
  PROVE  /\ Replay(s, c).done \in Seq(1..MaxWork)
         /\ \A k \in 1..Len(c) : c[k].type = "state" /\ Newer(c[k].snapshot, s) =>
                Among(c[k].mutation.op, Replay(s, c).done)
<1> DEFINE T == [n \in 0..Len(c) |-> Made(p, q, c, s, n)]
<1>1. Len(c) \in Nat /\ \A k \in 1..Len(c) : c[k] \in Entries
  BY LenProperties, ElementOfSeq
<1>2. ASSUME NEW n \in 1..Len(c), NEW r \in T[n - 1] PROVE Step("replay", r, c[n]) \in T[n]
  <2> DEFINE e == c[n]
             x == Replayed(r, e)
             o == IF e.type = "event" THEN e.op ELSE e.mutation.op
             more == Append(r.done, o)
  <2>1. r \in Made(p, q, c, s, n - 1) /\ T[n] = Made(p, q, c, s, n) /\ e \in Entries
    BY <1>1, <1>2
  <2>2. /\ r.synced \in Snapshots /\ r.sent \in Seq(Snapshots) /\ r.done \in Seq(1..MaxWork)
        /\ r \in [synced : Snapshots, sent : Seq(Snapshots), done : Seq(1..MaxWork)]
        /\ r.synced \in Over(p, q, c, s, n - 1)
        /\ \A k \in 1..n - 1 : c[k].type = "state" /\ Newer(c[k].snapshot, s) =>
               Among(c[k].mutation.op, r.done)
    BY <2>1 DEF Made
  <2>3. /\ Counts(r.synced, e) <=> e.type = "state" /\ Newer(e.snapshot, s)
        /\ Projected(r.synced, e) \in Over(p, q, c, s, n)
    BY <2>2, OverStep
  <2>4. /\ e.type = "event" => e.op \in 1..MaxWork
        /\ e.type = "state" => e.mutation.op \in 1..MaxWork
        /\ e.type \in {"event", "state"}
    BY <2>1, EntryIs DEF Mutations
  <2>5. o \in 1..MaxWork
    BY <2>4
  <2> HIDE DEF o
  <2>6. /\ more \in Seq(1..MaxWork) /\ Len(more) = Len(r.done) + 1 /\ Len(r.done) \in Nat
        /\ \A j \in 1..Len(r.done) : more[j] = r.done[j]
        /\ more[Len(r.done) + 1] = o
    BY <2>2, <2>5, AppendProperties, LenProperties
  <2> HIDE DEF more
  <2>7. /\ x.synced = Projected(r.synced, e) /\ x.sent \in Seq(Snapshots)
        /\ x \in [synced : Snapshots, sent : Seq(Snapshots), done : Seq(1..MaxWork)]
        /\ x.done = more \/ (x.done = r.done /\ ~Counts(r.synced, e))
    <3>1. CASE e.type = "event"
      <4>1. ~Counts(r.synced, e) /\ Projected(r.synced, e) = r.synced
        BY <3>1 DEF Counts, Projected
      <4>2. o = e.op
        BY <3>1 DEF o
      <4>3. x = [r EXCEPT !.done = Append(@, e.op)]
        BY <3>1, <4>1 DEF Replayed
      <4>4. x = [synced |-> r.synced, sent |-> r.sent, done |-> more]
        BY <2>2, <4>2, <4>3 DEF more
      <4> HIDE DEF x, e
      <4>5. x.synced = r.synced /\ x.sent = r.sent /\ x.done = more
        BY <4>4
      <4>6. x \in [synced : Snapshots, sent : Seq(Snapshots), done : Seq(1..MaxWork)]
        BY <2>2, <2>6, <4>4
      <4> QED BY <2>2, <4>1, <4>5, <4>6
    <3>2. CASE e.type = "state" /\ Counts(r.synced, e)
      <4> DEFINE y == Apply(r.synced, e.mutation)
      <4>1. x = [synced |-> y, sent |-> Append(r.sent, y), done |-> more] /\ Projected(r.synced, e) = y
        BY <3>2 DEF Replayed, Projected, more, o
      <4>2. y \in Snapshots
        BY <2>3, <4>1 DEF Over
      <4> DEFINE sent == Append(r.sent, y)
      <4>3. sent \in Seq(Snapshots)
        BY <2>2, <4>2, AppendProperties
      <4>4. x = [synced |-> y, sent |-> sent, done |-> more] /\ Projected(r.synced, e) = y
        BY <4>1
      <4> HIDE DEF y, x, e, sent
      <4>5. x.synced = y /\ x.sent = sent /\ x.done = more
        BY <4>4
      <4>6. x \in [synced : Snapshots, sent : Seq(Snapshots), done : Seq(1..MaxWork)]
        BY <2>6, <4>2, <4>3, <4>4
      <4> QED BY <4>3, <4>4, <4>5, <4>6
    <3>3. CASE e.type = "state" /\ ~Counts(r.synced, e)
      <4>1. x = r /\ Projected(r.synced, e) = r.synced
        BY <3>3 DEF Replayed, Projected
      <4>2. x.synced = r.synced /\ x.sent = r.sent /\ x.done = r.done
        BY <4>1
      <4>3. ~Counts(r.synced, e)
        BY <3>3
      <4> HIDE DEF x, e
      <4> QED BY <2>2, <4>1, <4>2, <4>3
    <3> QED BY <2>4, <3>1, <3>2, <3>3
  <2> HIDE DEF x
  <2>8. ASSUME NEW v, Among(v, r.done) PROVE Among(v, x.done)
    <3>1. PICK j \in 1..Len(r.done) : r.done[j] = v
      BY <2>8 DEF Among
    <3>2. j \in 1..Len(more) /\ more[j] = v
      BY <2>6, <3>1
    <3> QED BY <2>7, <2>8, <3>1, <3>2 DEF Among
  <2>9. e.type = "state" /\ Newer(e.snapshot, s) => Among(e.mutation.op, x.done)
    <3> HAVE e.type = "state" /\ Newer(e.snapshot, s)
    <3>1. x.done = more /\ o = e.mutation.op
      BY <2>3, <2>7 DEF o
    <3>2. Len(r.done) + 1 \in 1..Len(more)
      BY <2>6
    <3> QED BY <2>6, <3>1, <3>2 DEF Among
  <2>10. \A k \in 1..n : k \in 1..n - 1 \/ k = n
    BY <1>1
  <2>11. \A k \in 1..n : c[k].type = "state" /\ Newer(c[k].snapshot, s) => Among(c[k].mutation.op, x.done)
    BY <2>2, <2>8, <2>9, <2>10
  <2>12. x \in Made(p, q, c, s, n)
    BY <2>3, <2>7, <2>11 DEF Made
  <2> QED BY <2>1, <2>12 DEF Step, x
<1>3. Nothing(s) \in T[0] /\ T[Len(c)] = Made(p, q, c, s, Len(c))
  <2>1. s \in Over(p, q, c, s, 0)
    BY NothingOver
  <2>2. <<>> \in Seq(Snapshots) /\ <<>> \in Seq(1..MaxWork)
    BY EmptySeq
  <2>3. Nothing(s) \in Made(p, q, c, s, 0)
    BY <2>1, <2>2 DEF Nothing, Made
  <2> QED BY <1>1, <2>3
<1> HIDE DEF T
<1>4. Fold("replay", Nothing(s), c) \in T[Len(c)]
  BY <1>2, <1>3, FoldKeeps
<1>5. Replay(s, c) \in Made(p, q, c, s, Len(c))
  BY <1>3, <1>4, ReplayFolds
<1> QED BY <1>5 DEF Made

(* A step that leaves alone what p shares and which mutations it has queued. *)
LEMMA LinedKept ==
  ASSUME NEW p, NEW q, Lined(p, q), Queued(queue'[p]) = Queued(queue[p]), synced'[p] = synced[p]
  PROVE  Lined(p, q)'
BY DEF Lined

(* An empty queue is in line. *)
LEMMA LinedEmpty ==
  ASSUME NEW p, NEW q, queue'[p] = <<>>
  PROVE  Lined(p, q)' /\ Queued(queue'[p]) = {}
<1>1. <<>> \in Seq(Entries) /\ Queued(<<>>) = {}
  BY EmptySeq, QueuedIs
<1>2. Queued(queue'[p]) = {}
  BY <1>1
<1> QED BY <1>2 DEF Lined, InLine

(* p makes a mutation: it is the last in line. *)
LEMMA LinedMutate ==
  ASSUME SharedInv, NEW p, NEW q, Two(p, q), Side(p, q), Lined(p, q), 0 \notin Advance,
         NEW kind \in Kinds[p], Mutate(p, kind)
  PROVE  Lined(p, q)' /\ Queued(queue[p]) \subseteq Queued(queue'[p])
<1>0. p \in Peers /\ q \in Peers /\ p # q /\ TypeOK
  BY DEF Two, SharedInv
<1>1. PICK d \in Advance :
        LET m == [kind |-> kind, op |-> ops + 1, changedBy |-> p,
                  timestamp |-> clock + d + Skew[p]]
            s == Apply(shown[p], m)
        IN  /\ CanApply(shown[p], m)
            /\ NextOperation(p, clock + d)
            /\ IF ShouldQueue(p)
               THEN Enqueue(p, StateEntry(m, s)) /\ UNCHANGED synced
               ELSE Dispatch(p, <<ToAll(p, StateUpdate(s))>>)
  BY DEF Mutate
<1> DEFINE m == [kind |-> kind, op |-> ops + 1, changedBy |-> p,
                 timestamp |-> clock + d + Skew[p]]
           s == Apply(shown[p], m)
           e == StateEntry(m, s)
           S == Queued(queue[p])
<1>2. /\ CanApply(shown[p], m) /\ NextOperation(p, clock + d)
      /\ ShouldQueue(p) => Enqueue(p, e) /\ synced' = synced
      /\ ~ShouldQueue(p) => queue' = queue
  BY <1>1 DEF Dispatch
<1>3. /\ shown[p] \in Snapshots /\ synced[p] \in Snapshots /\ queue[p] \in Seq(Entries)
      /\ Cardinality(EventsOf(queue[p])) <= EventLimit /\ clock \in Nat /\ Skew[p] \in Int /\ ops \in Nat
      /\ queue \in [Peers -> Seq(Entries)]
  BY <1>0, OwnTyped DEF TypeOK
<1>4. d \in Nat /\ d # 0
  BY TimeGoesOn
<1>5. m \in Mutations /\ m.changedBy = p /\ m.timestamp = clock + d + Skew[p] /\ m.op = ops + 1
  <2>1. kind \in MutationKinds
    BY <1>0, KindsOfPeers
  <2>2. clock + d \in Nat /\ clock + d + Skew[p] \in Int
    BY <1>3, <1>4
  <2>3. ops + 1 \in 1..MaxWork
    BY <1>0, <1>2, <2>2, BudgetKept
  <2> QED BY <1>0, <2>1, <2>2, <2>3 DEF Mutations
<1> HIDE DEF m
<1>6. s \in Snapshots /\ Writes(p, q, shown[p], s) /\ s.timestamp = m.timestamp
  BY <1>2, <1>3, <1>5, Applied, AppliedWrites
<1> HIDE DEF s
<1>7. /\ e \in Entries /\ e.type = "state" /\ e.mutation = m /\ e.snapshot = s /\ OpOf(e) = ops + 1
  BY <1>5, <1>6 DEF StateEntry, Entries, OpOf
<1>8. CASE ~ShouldQueue(p)
  <2>1. queue[p] = <<>> /\ queue'[p] = <<>>
    BY <1>2, <1>8 DEF ShouldQueue
  <2> QED BY <2>1, LinedEmpty
<1>9. CASE ShouldQueue(p)
  <2>1. queue'[p] = AppendEntry(queue[p], e) /\ synced'[p] = synced[p]
    BY <1>0, <1>2, <1>3, <1>9 DEF Enqueue
  <2> HIDE DEF e
  <2>2. Queued(queue'[p]) = S \cup {e}
    BY <1>3, <1>7, <2>1, QueuedAppended
  <2>3. ASSUME Plain(S \cup {e}) PROVE InLine(p, q, S \cup {e}, synced[p])
    <3>1. Plain(S) /\ InLine(p, q, S, synced[p])
      BY <2>3 DEF Plain, Lined
    <3>2. /\ \A x \in S : x.mutation.changedBy = p /\ x.mutation.timestamp <= clock + Skew[p]
          /\ Ordered(queue[p]) /\ \A k \in DOMAIN queue[p] : OpOf(queue[p][k]) <= ops
          /\ shown[p] = Project(synced[p], queue[p])
      BY <1>0 DEF Side, Times, Timely, SharedInv, InOrder, ShownIsProjection
    <3>3. \A x \in S : OpOf(x) \in Nat /\ OpOf(x) < OpOf(e) /\ x.mutation.timestamp < m.timestamp
      <4> SUFFICES ASSUME NEW x \in S
                   PROVE  OpOf(x) \in Nat /\ OpOf(x) < OpOf(e) /\ x.mutation.timestamp < m.timestamp
        OBVIOUS
      <4>1. (\E k \in DOMAIN queue[p] : x = queue[p][k]) /\ x.mutation \in Mutations
        BY <1>3, QueuedIs
      <4>2. OpOf(x) \in 1..MaxWork /\ OpOf(x) <= ops
        BY <1>3, <3>2, <4>1, OpTyped
      <4>3. x.mutation.timestamp \in Int /\ x.mutation.timestamp <= clock + Skew[p]
        BY <3>2, <4>1 DEF Mutations
      <4> QED BY <1>3, <1>4, <1>5, <1>7, <4>2, <4>3
    <3>4. shown[p] \in Over(p, q, queue[p], synced[p], Len(queue[p]))
      BY <1>3, <3>1, <3>2, ProjectOver
    <3>5. NewsIn(queue[p], synced[p], Len(queue[p])) = {x \in S : Newer(x.snapshot, synced[p])}
      BY <1>3, <3>2, NewsCounted
    <3>6. /\ shown[p].vectorClock[q] = synced[p].vectorClock[q]
          /\ shown[p].vectorClock[p] =
                 synced[p].vectorClock[p] + Cardinality({x \in S : Newer(x.snapshot, synced[p])})
      BY <3>4, <3>5 DEF Over
    <3>7. Mutated(S)
      BY <1>3, QueuedFinite
    <3>8. e.mutation \in Mutations /\ e.snapshot \in Snapshots /\ OpOf(e) \in Nat
          /\ Writes(p, q, shown[p], e.snapshot) /\ e.snapshot.timestamp = e.mutation.timestamp
          /\ \A x \in S : OpOf(x) < OpOf(e) /\ x.mutation.timestamp < e.mutation.timestamp
      BY <1>3, <1>5, <1>6, <1>7, <3>3
    <3> HIDE DEF S
    <3> QED BY <1>3, <1>7, <3>1, <3>6, <3>7, <3>8, LineGrows
  <2>4. Lined(p, q)'
    BY <2>1, <2>2, <2>3 DEF Lined
  <2> QED BY <2>2, <2>4
<1> QED BY <1>8, <1>9

(* p takes over what q tells, or leaves it. *)
LEMMA LinedState ==
  ASSUME SharedInv, NEW p, NEW q, Two(p, q), Side(p, q), Side(q, p), Lined(p, q), HandleState(p)
  PROVE  Lined(p, q)' /\ queue'[p] = queue[p]
<1> DEFINE b == Head(inbox[p]).message.snapshot
           s == synced[p]
           t == synced[q]
           w == Way(q, p)
<1>1. /\ Receive(p, "state:update", <<>>) /\ queue' = queue
      /\ Newer(b, s) => synced' = [synced EXCEPT ![p] = b]
      /\ ~Newer(b, s) => synced' = synced
  BY DEF HandleState
<1>2. CASE ~Newer(b, s)
  BY <1>1, <1>2, LinedKept
<1>3. CASE Newer(b, s)
  <2>1. /\ p \in Peers /\ q \in Peers /\ Two(q, p) /\ s \in Snapshots /\ t \in Snapshots
        /\ w \in Seq(Signals) /\ Way(p, q) \in Seq(Signals) /\ synced'[p] = b
        /\ queue[p] \in Seq(Entries)
    <3>1. TypeOK /\ p \in Peers /\ q \in Peers /\ Two(q, p)
      BY DEF SharedInv, Two
    <3> QED BY <1>1, <1>3, <3>1, OwnTyped, WaysTyped DEF TypeOK
  <2>2. Tells(w, 1) /\ Told(w, 1) = b
    BY <1>1, Received
  <2>3. Both(q, p, t, s, w, Way(p, q))
    BY DEF Side, Exchange
  <2> HIDE DEF b, s, t, w
  <2>4. b \in Snapshots /\ b.changedBy = q /\ b.vectorClock[p] <= s.vectorClock[p]
    BY <1>3, <2>1, <2>2, <2>3, BothAdopted
  <2>5. s.changedBy = q => s.timestamp <= b.timestamp
    <3>1. b \in Live(w, t)
      <4>1. 1 \in {j \in DOMAIN w : Tells(w, j)}
        BY <2>2 DEF Tells
      <4> QED BY <2>2, <4>1 DEF Live
    <3>2. s.changedBy = q => Follows(q, p, s, b)
      BY <2>3, <3>1 DEF Both, Half
    <3> QED BY <2>4, <3>2 DEF Follows
  <2>6. Mutated(Queued(queue[p]))
    BY <2>1, QueuedFinite
  <2>7. InLine(p, q, Queued(queue[p]), s) => InLine(p, q, Queued(queue[p]), b)
    BY <1>3, <2>1, <2>4, <2>5, <2>6, LineAdopts
  <2> QED BY <1>1, <2>1, <2>7 DEF Lined, s
<1> QED BY <1>1, <1>2, <1>3

(* The other leaves alone what p has. *)
LEMMA OthersKeep ==
  ASSUME SharedInv, NEW p, NEW q, Two(p, q), StepOf(q)
  PROVE  queue'[p] = queue[p] /\ synced'[p] = synced[p]
<1>1. /\ p \in Peers /\ q \in Peers /\ p # q
      /\ queue \in [Peers -> Seq(Entries)] /\ synced \in [Peers -> Snapshots]
  BY DEF Two, SharedInv, TypeOK
<1>2. /\ queue' = queue \/ \E x : queue' = [queue EXCEPT ![q] = x]
      /\ synced' = synced \/ \E x : synced' = [synced EXCEPT ![q] = x]
  <2>1. CASE \E kind \in Kinds[q] : Mutate(q, kind)
    BY <2>1 DEF Mutate, Enqueue, Dispatch
  <2>2. CASE Emit(q) \/ Load(q) \/ Unload(q)
    BY <2>2 DEF Emit, Enqueue, Dispatch, Load, Unload
  <2>3. CASE Break(q) \/ Connect(q) \/ HandleLoss(q) \/ Disconnect(q) \/ Disconnected(q)
             \/ Relay(q) \/ HandleHello(q) \/ HandleWelcome(q)
    BY <2>3 DEF Break, Connect, HandleLoss, Disconnect, Disconnected, Relay, HandleHello,
                HandleWelcome, states
  <2>4. CASE ReplayTimer(q) \/ HandleState(q)
    BY <2>4 DEF ReplayTimer, HandleState, states
  <2> QED BY <2>1, <2>2, <2>3, <2>4 DEF StepOf
<1> QED BY <1>1, <1>2

(* A step of p keeps its queue in line; only a replay and the closing of the page take
   mutations out of it. *)
LEMMA LinedOwn ==
  ASSUME SharedInv, NEW p, NEW q, Two(p, q), Side(p, q), Side(q, p), Lined(p, q), 0 \notin Advance,
         StepOf(p)
  PROVE  /\ Lined(p, q)'
         /\ \/ Queued(queue[p]) \subseteq Queued(queue'[p])
            \/ Unload(p)
            \/ ReplayTimer(p) /\ HasTransport(p)
<1>1. /\ p \in Peers /\ TypeOK /\ queue[p] \in Seq(Entries) /\ queue \in [Peers -> Seq(Entries)]
      /\ Cardinality(EventsOf(queue[p])) <= EventLimit
  <2>1. p \in Peers /\ TypeOK
    BY DEF Two, SharedInv
  <2> QED BY <2>1, OwnTyped DEF TypeOK
<1>2. CASE \E kind \in Kinds[p] : Mutate(p, kind)
  BY <1>2, LinedMutate
<1>3. CASE Emit(p)
  <2>1. synced' = synced /\ NextOperation(p, clock)
    BY <1>3 DEF Emit
  <2>2. CASE ShouldQueue(p)
    <3> DEFINE e == EventEntry(ops + 1)
    <3>1. queue'[p] = AppendEntry(queue[p], e)
      BY <1>1, <1>3, <2>2 DEF Emit, Enqueue
    <3>2. e \in Entries /\ e.type = "event"
      <4>1. ops + 1 \in 1..MaxWork
        BY <1>1, <2>1, BudgetKept, OwnTyped
      <4> QED BY <4>1 DEF EventEntry, Entries
    <3> HIDE DEF e
    <3>3. Queued(queue'[p]) = Queued(queue[p])
      BY <1>1, <3>1, <3>2, QueuedAppended
    <3> QED BY <2>1, <3>3, LinedKept
  <2>3. CASE ~ShouldQueue(p)
    <3>1. queue' = queue
      BY <1>3, <2>3 DEF Emit, Dispatch
    <3> QED BY <2>1, <3>1, LinedKept
  <2> QED BY <2>2, <2>3
<1>4. CASE Load(p)
  <2>1. queue[p] = <<>> /\ queue' = queue
    BY <1>1, <1>4 DEF Load, SharedInv, IInv, AtRest, Running
  <2> QED BY <2>1, LinedEmpty
<1>5. CASE Unload(p)
  <2>1. queue'[p] = <<>>
    BY <1>1, <1>5 DEF Unload
  <2> QED BY <1>5, <2>1, LinedEmpty
<1>6. CASE Break(p) \/ Connect(p) \/ HandleLoss(p) \/ Disconnect(p) \/ Disconnected(p)
           \/ Relay(p) \/ HandleHello(p) \/ HandleWelcome(p)
  <2>1. queue' = queue /\ synced' = synced
    BY <1>6 DEF Break, Connect, HandleLoss, Disconnect, Disconnected, Relay, HandleHello,
                HandleWelcome, states
  <2> QED BY <2>1, LinedKept
<1>7. CASE ReplayTimer(p)
  <2>1. CASE HasTransport(p)
    <3>1. queue'[p] = <<>>
      BY <1>1, <1>7, <2>1 DEF ReplayTimer
    <3> QED BY <1>7, <2>1, <3>1, LinedEmpty
  <2>2. CASE ~HasTransport(p)
    <3>1. queue' = queue /\ synced' = synced
      BY <1>7, <2>2 DEF ReplayTimer, states
    <3> QED BY <3>1, LinedKept
  <2> QED BY <2>1, <2>2
<1>8. CASE HandleState(p)
  BY <1>8, LinedState
<1> QED BY <1>2, <1>3, <1>4, <1>5, <1>6, <1>7, <1>8 DEF StepOf

(* A queue without an undo that a page no longer has was replayed, and its news dispatched. *)
LEMMA NewsDispatched ==
  ASSUME SharedInv, NEW p, NEW q, Two(p, q), Side(p, q), Side(q, p), Lined(p, q), 0 \notin Advance,
         StepOf(p), Running(p)', queue'[p] = <<>>, ~HasUndo(queue[p]),
         NEW i \in DOMAIN queue[p], queue[p][i].type = "state", Newer(queue[p][i].snapshot, synced[p])
  PROVE  queue[p][i].mutation.op \in ToSet(log'[p])
<1> DEFINE r == Replay(synced[p], queue[p])
           o == queue[p][i].mutation.op
<1>1. /\ p \in Peers /\ queue[p] \in Seq(Entries) /\ log[p] \in Seq(1..MaxWork)
      /\ synced[p] \in Snapshots /\ Len(queue[p]) \in Nat /\ DOMAIN queue[p] = 1..Len(queue[p])
      /\ log \in [Peers -> Seq(1..MaxWork)] /\ link \in [Peers -> Links]
  <2>1. p \in Peers /\ TypeOK
    BY DEF Two, SharedInv
  <2> QED BY <2>1, OwnTyped, LenProperties DEF TypeOK
<1>2. ReplayTimer(p) /\ HasTransport(p)
  <2>1. Queued(queue'[p]) = {} /\ queue[p][i] \in Queued(queue[p])
    BY <1>1, LinedEmpty, QueuedIs
  <2>2. ~Unload(p)
    BY <1>1 DEF Unload, Running
  <2> QED BY <2>1, <2>2, LinedOwn
<1>3. log'[p] = log[p] \o r.done
  BY <1>1, <1>2 DEF ReplayTimer
<1>4. Plain(Queued(queue[p])) /\ InLine(p, q, Queued(queue[p]), synced[p])
  <2>1. Plain(Queued(queue[p]))
    BY DEF Queued, Plain, HasUndo
  <2> QED BY <2>1 DEF Lined
<1>5. Ordered(queue[p]) /\ \A e \in Queued(queue[p]) : e.mutation.changedBy = p
  BY <1>1 DEF SharedInv, InOrder, Side, Times, Timely
<1>6. r.done \in Seq(1..MaxWork) /\ Among(o, r.done)
  BY <1>1, <1>4, <1>5, ReplayOver
<1> HIDE DEF r, o
<1>7. PICK j \in 1..Len(r.done) : r.done[j] = o
  BY <1>6 DEF Among
<1> DEFINE n == Len(log[p]) + j
<1>8. n \in DOMAIN log'[p] /\ log'[p][n] = o
  <2>1. Len(log[p]) \in Nat /\ Len(r.done) \in Nat
    BY <1>1, <1>6, LenProperties
  <2>2. /\ log[p] \o r.done \in Seq(1..MaxWork) /\ Len(log[p] \o r.done) = Len(log[p]) + Len(r.done)
        /\ \A k \in 1..Len(log[p]) + Len(r.done) :
               (log[p] \o r.done)[k] = IF k <= Len(log[p]) THEN log[p][k] ELSE r.done[k - Len(log[p])]
    BY <1>1, <1>6, ConcatProperties
  <2>3. n \in 1..Len(log[p]) + Len(r.done) /\ ~(n <= Len(log[p])) /\ n - Len(log[p]) = j
    <3>1. \A k, l \in Nat : \A x \in 1..l : k + x \in 1..k + l /\ ~(k + x <= k) /\ (k + x) - k = x
      OBVIOUS
    <3> QED BY <1>7, <2>1, <3>1
  <2> HIDE DEF n
  <2>4. (log[p] \o r.done)[n] = o
    BY <1>7, <2>2, <2>3
  <2>5. n \in DOMAIN (log[p] \o r.done)
    <3>1. DOMAIN (log[p] \o r.done) = 1..Len(log[p]) + Len(r.done)
      BY <2>2, LenProperties
    <3> QED BY <2>3, <3>1
  <2> QED BY <1>3, <2>4, <2>5
<1> HIDE DEF n
<1>9. o \in ToSet(log'[p])
  BY <1>8 DEF ToSet
<1> QED BY <1>9 DEF o

\* The invariant: both queues are in line.
LinedInv == \A p, q \in Peers : p # q => Lined(p, q)

(* In a room of two every queue stays in line. *)
LEMMA LinedStep ==
  ASSUME NEW a, NEW b, Peers = {a, b}, 0 \notin Advance
  PROVE  LinedInv /\ ConvergedInv /\ SharedInv /\ [Next]_vars => LinedInv'
<1> SUFFICES ASSUME LinedInv, ConvergedInv, SharedInv, [Next]_vars, NEW p \in Peers, NEW q \in Peers, p # q
             PROVE  Lined(p, q)'
  BY DEF LinedInv
<1>1. Two(p, q) /\ Two(q, p) /\ Side(p, q) /\ Side(q, p) /\ Lined(p, q) /\ Peers = {p, q}
  BY DEF ConvergedInv, LinedInv, Two
<1>2. CASE UNCHANGED vars
  BY <1>1, <1>2, LinedKept DEF vars
<1>3. CASE Next
  <2>1. PICK r \in {p, q} : StepOf(r)
    BY <1>1, <1>3, StepsOf
  <2>2. CASE r = p
    BY <1>1, <2>1, <2>2, LinedOwn
  <2>3. CASE r = q
    BY <1>1, <2>1, <2>3, OthersKeep, LinedKept
  <2> QED BY <2>2, <2>3
<1> QED BY <1>2, <1>3

(* At first nothing is queued. *)
LEMMA LinedInit == Init => LinedInv
<1> SUFFICES ASSUME Init, NEW p \in Peers, NEW q \in Peers PROVE Lined(p, q)
  BY DEF LinedInv
<1>1. queue[p] = <<>> /\ <<>> \in Seq(Entries)
  BY EmptySeq DEF Init
<1>2. Queued(queue[p]) = {}
  BY <1>1, QueuedIs
<1> QED BY <1>2 DEF Lined, InLine

(* What a step takes out of a queue it dispatches, if it is news. *)
LEMMA StaleStep ==
  ASSUME NEW a, NEW b, Peers = {a, b}, a # b, 0 \notin Advance,
         LinedInv, ConvergedInv, SharedInv, [Next]_vars
  PROVE  \A p \in Peers : Running(p)' /\ queue'[p] = <<>> /\ ~HasUndo(queue[p]) =>
             \A i \in DOMAIN queue[p] : LET e == queue[p][i] IN
                 e.type = "state" =>
                     \/ e.mutation.op \in ToSet(log'[p])
                     \/ ~Newer(e.snapshot, synced[p])
<1> SUFFICES ASSUME NEW p \in Peers, Running(p)', queue'[p] = <<>>, ~HasUndo(queue[p]),
                    NEW i \in DOMAIN queue[p], queue[p][i].type = "state",
                    Newer(queue[p][i].snapshot, synced[p])
             PROVE  queue[p][i].mutation.op \in ToSet(log'[p])
  OBVIOUS
<1>1. queue'[p] # queue[p]
  <2>1. DOMAIN <<>> = {}
    OBVIOUS
  <2> QED BY <2>1
<1>2. PICK r \in Peers : StepOf(r)
  BY <1>1, StepsOf DEF vars
<1>3. PICK q \in Peers : p # q /\ Two(p, q) /\ Two(q, p)
  <2>1. \E q \in Peers : p # q /\ Peers = {p, q}
    <3>1. CASE p = a
      BY <3>1
    <3>2. CASE p = b
      BY <3>2
    <3> QED BY <3>1, <3>2
  <2> QED BY <2>1 DEF Two
<1>4. Side(p, q) /\ Side(q, p) /\ Lined(p, q)
  BY <1>3 DEF ConvergedInv, LinedInv
<1>5. r = p
  <2>1. r # q
    BY <1>1, <1>2, <1>3, OthersKeep
  <2> QED BY <1>3, <2>1 DEF Two
<1> QED BY <1>2, <1>3, <1>4, <1>5, NewsDispatched

\* In a room of two peers whose writes each come at a time of their own, flushOfflineQueue
\* drops no mutation because of one replayed before it: a queue without an undo is replayed
\* whole, but for what lost against a write of the other, however late that came and however
\* the clocks of the two differ.
THEOREM OnlyStaleDroppedOfTwo ==
  ASSUME NEW a, NEW b, Peers = {a, b}, a # b, 0 \notin Advance
  PROVE  Spec => OnlyStaleDropped
<1>1. Init => ConvergedInv
  BY ConvergedInit
<1>2. ConvergedInv /\ SharedInv /\ [Next]_vars => ConvergedInv'
  BY ConvergedStep
<1>3. Init => LinedInv
  BY LinedInit
<1>4. LinedInv /\ ConvergedInv /\ SharedInv /\ [Next]_vars => LinedInv'
  BY LinedStep
<1> DEFINE Fine == \A p \in Peers : Running(p)' /\ queue'[p] = <<>> /\ ~HasUndo(queue[p]) =>
                       \A i \in DOMAIN queue[p] : LET e == queue[p][i] IN
                           e.type = "state" =>
                               \/ e.mutation.op \in ToSet(log'[p])
                               \/ ~Newer(e.snapshot, synced[p])
<1>5. LinedInv /\ ConvergedInv /\ SharedInv /\ [Next]_vars => [Fine]_vars
  BY StaleStep
<1> QED BY <1>1, <1>2, <1>3, <1>4, <1>5, SharedInvCorrect, PTL DEF Spec, OnlyStaleDropped
=============================================================================
