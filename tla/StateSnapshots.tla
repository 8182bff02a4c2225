--------------------------- MODULE StateSnapshots ---------------------------
(***************************************************************************)
(* The snapshots of a room's shared state, the order conflict resolution   *)
(* puts on them, and the offline queue that replays mutations over them:   *)
(* packages/core/src/internal/state.ts and internal/offline-queue.ts.      *)
(*                                                                         *)
(* A value is the set of the writes it shows: set replaces it, patch adds  *)
(* to it, reset empties it and undo brings the last one back.  Operations  *)
(* are numbered in the order in which they are made.                       *)
(***************************************************************************)
EXTENDS Integers, FiniteSets, SequencesExt

CONSTANTS
    Peers,          \* peer ids, numbers here: ids are ordered as strings are
    HistoryLimit,   \* STATE_HISTORY_LIMIT
    EventLimit      \* OFFLINE_EVENT_QUEUE_LIMIT

ASSUME PeersAreOrdered == Peers \subseteq Nat
ASSUME LimitsPositive == HistoryLimit \in Nat \ {0} /\ EventLimit \in Nat \ {0}

\* The state as p configures it, at the time its clock tells.
Initial(p, at) ==
    [value |-> {}, history |-> <<>>, vectorClock |-> [q \in Peers |-> 0],
     changedBy |-> p, timestamp |-> at]

TrimHistory(h) ==
    IF Len(h) <= HistoryLimit
    THEN h ELSE SubSeq(h, Len(h) - HistoryLimit + 1, Len(h))

MutationKinds == {"set", "patch", "undo", "reset"}

\* undo needs a value to bring back.
CanApply(s, m) == m.kind = "undo" => s.history # <<>>

NewValue(s, m) ==
    CASE m.kind = "set"   -> {m.op}
      [] m.kind = "patch" -> s.value \cup {m.op}
      [] m.kind = "undo"  -> Last(s.history)
      [] m.kind = "reset" -> {}

NewHistory(s, m) ==
    CASE m.kind \in {"set", "patch"} -> TrimHistory(Append(s.history, s.value))
      [] m.kind = "undo"  -> Front(s.history)
      [] m.kind = "reset" -> <<>>

Apply(s, m) ==
    [value |-> NewValue(s, m), history |-> NewHistory(s, m),
     vectorClock |-> [s.vectorClock EXCEPT ![m.changedBy] = @ + 1],
     changedBy |-> m.changedBy, timestamp |-> m.timestamp]

Before(c, d) == c # d /\ \A p \in Peers : c[p] <= d[p]

\* A slip: concurrent snapshots are left as they are.
NewerIfLater(s, t) == Before(t.vectorClock, s.vectorClock)

\* The larger vector clock wins; of concurrent ones the later timestamp, and of
\* equal timestamps the larger peer id.
Newer(s, t) ==
    \/ Before(t.vectorClock, s.vectorClock)
    \/ /\ ~Before(s.vectorClock, t.vectorClock)
       /\ \/ s.timestamp > t.timestamp
          \/ s.timestamp = t.timestamp /\ s.changedBy > t.changedBy

-----------------------------------------------------------------------------
StateEntry(m, s) == [type |-> "state", mutation |-> m, snapshot |-> s]
EventEntry(op) == [type |-> "event", op |-> op]

HasMutations(q) == \E i \in DOMAIN q : q[i].type = "state"

\* A slip: the limit is looked at before the append.
AppendEntryLate(q, e) ==
    LET events == {i \in DOMAIN q : q[i].type = "event"}
    IN  IF Cardinality(events) <= EventLimit
        THEN Append(q, e)
        ELSE RemoveAt(Append(q, e), CHOOSE i \in events : \A j \in events : i <= j)

\* Past the limit an append drops the oldest event; mutations are all kept.
AppendEntry(q, e) ==
    LET all == Append(q, e)
        events == {i \in DOMAIN all : all[i].type = "event"}
    IN  IF Cardinality(events) <= EventLimit
        THEN all
        ELSE RemoveAt(all, CHOOSE i \in events : \A j \in events : i <= j)

\* A slip: a queued mutation counts only over the state it was made in.
CountsIfLater(s, e) ==
    /\ e.type = "state"
    /\ Before(s.vectorClock, e.snapshot.vectorClock)
    /\ CanApply(s, e.mutation)

\* A queued mutation still counts over s if the snapshot it made is newer.
Counts(s, e) ==
    e.type = "state" /\ Newer(e.snapshot, s) /\ CanApply(s, e.mutation)

\* What the peer shows while mutations are queued.
Project(base, q) ==
    FoldLeft(LAMBDA s, e : IF Counts(s, e) THEN Apply(s, e.mutation) ELSE s,
             base, q)

\* The loop of flushOfflineQueue: the snapshot it ends with, those it sends, and
\* the operations it dispatches.
Replay(base, q) ==
    FoldLeft(LAMBDA r, e :
        CASE e.type = "event" -> [r EXCEPT !.done = Append(@, e.op)]
          [] Counts(r.synced, e) ->
                LET s == Apply(r.synced, e.mutation)
                IN  [synced |-> s, sent |-> Append(r.sent, s),
                     done |-> Append(r.done, e.mutation.op)]
          [] OTHER -> r,
        [synced |-> base, sent |-> <<>>, done |-> <<>>], q)
=============================================================================
