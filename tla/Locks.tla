-------------------------------- MODULE Locks --------------------------------
(***************************************************************************)
(* Advisory locks, packages/core/src/engines/locks.ts, over the presence   *)
(* handshake of the room, packages/core/src/room.ts, and its peer registry.*)
(*                                                                         *)
(* One key: keys share nothing.  Time is counted in ticks; the clocks of   *)
(* the peers agree, timers fire in the tick in which they are due, and a   *)
(* signal takes at most MaxDelay ticks.  The grace period of a lost peer   *)
(* is long against both and may end at any moment.  The relay passes on    *)
(* what a peer sent in that order, and says that it left after that.       *)
(***************************************************************************)
EXTENDS Integers, Sequences, FiniteSets, PeerRegistry

CONSTANTS
    Peers,          \* peer ids, numbers here: ids are ordered as strings are
    Calls,          \* calls of acquire, each made once
    Caller,         \* the peer that makes each call
    Ttl,            \* options.ttl of each call, None without
    Timeout,        \* options.timeout of each call, None without
    SettleTicks,    \* DEFAULT_SETTLE_MS
    RetryTicks,     \* RETRY_POLL_MS
    MaxDelay,       \* ticks a signal may take
    LateNotices,    \* whether 'peer-left' may come after the peer is back
    MaxEnds,        \* bound: connections that end
    MaxChanges,     \* bound: releases and heartbeats
    LastCall        \* bound: the tick after which acquire is not called

ASSUME PeersAreOrdered == Peers \subseteq Nat \ {0}
ASSUME CallsOfPeers ==
    Caller \in [Calls -> Peers] /\ Ttl \in [Calls -> Nat] /\ Timeout \in [Calls -> Nat]
ASSUME TicksPositive ==
    {SettleTicks, RetryTicks, MaxDelay, LastCall} \subseteq Nat \ {0} /\
    {MaxEnds, MaxChanges} \subseteq Nat
ASSUME RetriesAreQuick == RetryTicks <= SettleTicks
ASSUME LateOrNot == LateNotices \in BOOLEAN

VARIABLES
    clock,
    link,           \* "up"; "dead": it broke, which the room does not know; "off"
    departed,       \* peers that left and of whom the relay has yet to say so
    registry,       \* remotePeers of each peer, see PeerRegistry
    net,            \* signals from the one peer to the other
    claims,         \* claimsByKey of each peer
    notified,       \* lastNotifiedByKey of each peer
    expiry,         \* when the timer of expiryTimers is due
    call,           \* the calls of acquire
    granted,        \* the peer was told true and has not released since (history)
    ends,           \* connections that ended
    changes,        \* releases and heartbeats
    disturbed,      \* claims or releases were lost, or peers removed (history)
    cleared,        \* peers that cleared their registry (history)
    misled          \* peers that were said to have left when they were back, and have
                    \* sent no heartbeat since (history)

vars == <<clock, link, departed, registry, net, claims, notified, expiry, call,
          granted, ends, changes, disturbed, cleared, misled>>
engine == <<claims, notified, expiry>>
room == <<link, departed, registry>>
counts == <<ends, changes>>
history == <<granted, disturbed, cleared, misled>>

None == 0            \* no time: before every tick, and no peer

Others(p) == Peers \ {p}
NoClaim == [at |-> None, until |-> None]
Free == [holder |-> None, at |-> None, until |-> None]
NewCall == [pc |-> "new", due |-> None, deadline |-> None]
Change == changes < MaxChanges /\ changes' = changes + 1 /\ UNCHANGED ends
End == ends < MaxEnds /\ ends' = ends + 1 /\ UNCHANGED changes
InProgress(c) == call[c].pc \in {"settling", "waiting"}

\* All peers are connected and know each other, and the key is free.
Init ==
    /\ clock = 1
    /\ link = [p \in Peers |-> "up"]
    /\ departed = {}
    /\ registry = [p \in Peers |-> [q \in Others(p) |-> "present"]]
    /\ net = [p \in Peers |-> [q \in Others(p) |-> <<>>]]
    /\ claims = [p \in Peers |-> [q \in Peers |-> NoClaim]]
    /\ notified = [p \in Peers |-> Free]
    /\ expiry = [p \in Peers |-> None]
    /\ call = [c \in Calls |-> NewCall]
    /\ granted = [p \in Peers |-> FALSE]
    /\ ends = 0 /\ changes = 0
    /\ disturbed = FALSE
    /\ cleared = {}
    /\ misled = {}

-----------------------------------------------------------------------------
\* Claims and their resolution.  mine is the claims one peer knows of.

Active(claim) == claim # NoClaim /\ (claim.until = None \/ claim.until > clock)

Claimants(mine) == {q \in Peers : Active(mine[q])}

\* The earliest active claim wins, and of equals that of the smaller peer id.
Wins(mine, q) ==
    /\ q \in Claimants(mine)
    /\ \A r \in Claimants(mine) \ {q} :
           mine[q].at < mine[r].at \/ (mine[q].at = mine[r].at /\ q < r)

StateOf(mine, q) == [holder |-> q, at |-> mine[q].at, until |-> mine[q].until]

Resolve(mine) ==
    IF Claimants(mine) = {} THEN Free
    ELSE StateOf(mine, CHOOSE q \in Peers : Wins(mine, q))

Holder(p) == Resolve(claims[p]).holder

Pruned(mine) == [q \in Peers |-> IF Active(mine[q]) THEN mine[q] ELSE NoClaim]

Soonest(mine) ==
    LET dues == {mine[q].until : q \in Peers} \ {None}
    IN  IF dues = {} THEN None ELSE CHOOSE t \in dues : \A u \in dues : t <= u

\* reconcileKey, with mine the claims p knows of from now on.
Reconcile(p, mine) ==
    /\ notified' = [notified EXCEPT ![p] = Resolve(mine)]
    /\ claims' = [claims EXCEPT ![p] = Pruned(mine)]
    /\ expiry' = [expiry EXCEPT ![p] = Soonest(Pruned(mine))]

ApplyClaim(p, q, claim) == Reconcile(p, [claims[p] EXCEPT ![q] = claim])

\* A slip: the claim goes and nobody is told.
DropClaimInSilence(p, q) ==
    claims' = [claims EXCEPT ![p][q] = NoClaim] /\ UNCHANGED <<notified, expiry>>

\* dropClaim, and dropAllClaimsBy: a claim that is not there changes nothing.
DropClaim(p, q) ==
    IF claims[p][q] = NoClaim
    THEN UNCHANGED engine ELSE Reconcile(p, [claims[p] EXCEPT ![q] = NoClaim])

-----------------------------------------------------------------------------
\* Signals.

Message(type) == [type |-> type, sentAt |-> clock, claim |-> NoClaim]
ClaimOf(claim) == [Message("claim") EXCEPT !.claim = claim]
IsLockFrame(m) == m.type \in {"claim", "release"}

\* What p sends reaches those that are connected when p is.
Sent(p, m) ==
    [net EXCEPT ![p] = [q \in Others(p) |->
        IF link[p] = "up" /\ link[q] = "up" THEN Append(@[q], m) ELSE @[q]]]

Broadcast(p, m) ==
    /\ net' = Sent(p, m)
    /\ disturbed' = (disturbed \/ (IsLockFrame(m) /\ \E q \in Peers : link[q] # "up"))

\* placeSelfClaim.
PlaceClaim(p, ttl) ==
    LET claim == [at |-> clock, until |-> IF ttl = None THEN None ELSE clock + ttl]
    IN  ApplyClaim(p, p, claim) /\ Broadcast(p, ClaimOf(claim))

\* A slip: the release is not sent.
RemoveClaimQuietly(p) == DropClaim(p, p) /\ UNCHANGED <<net, disturbed>>

\* removeSelfClaim.
RemoveClaim(p) ==
    IF claims[p][p] = NoClaim
    THEN UNCHANGED <<engine, net, disturbed>>
    ELSE DropClaim(p, p) /\ Broadcast(p, Message("release"))

-----------------------------------------------------------------------------
\* acquire, release.

Acquire(c) ==
    /\ call[c].pc = "new" /\ clock <= LastCall
    /\ PlaceClaim(Caller[c], Ttl[c])
    /\ call' = [call EXCEPT ![c] = [pc |-> "settling", due |-> clock + SettleTicks,
           deadline |-> IF Timeout[c] = None THEN None ELSE clock + Timeout[c]]]
    /\ UNCHANGED <<clock, room, granted, counts, cleared, misled>>

\* A slip: there is always another attempt.
TryAgainAlways(c) ==
    call' = [call EXCEPT ![c].pc = IF Timeout[c] = None THEN "false" ELSE "waiting",
                         ![c].due = clock + RetryTicks]

\* The attempt failed: acquire ends or waits for the next one.
TryAgain(c) ==
    call' = [call EXCEPT ![c] =
        IF Timeout[c] = None \/ clock >= @.deadline
        THEN [NewCall EXCEPT !.pc = "false"]
        ELSE [@ EXCEPT !.pc = "waiting", !.due = clock + RetryTicks]]

\* A slip: the claim of an attempt that lost is left behind.
RefusedInPlace(c) ==
    /\ Holder(Caller[c]) # Caller[c]
    /\ TryAgain(c)
    /\ UNCHANGED <<engine, net, disturbed, granted>>

\* The settle window is over: the attempt has lost, ...
Refused(c) ==
    /\ Holder(Caller[c]) # Caller[c]
    /\ RemoveClaim(Caller[c])
    /\ TryAgain(c)
    /\ UNCHANGED granted

\* ... or won.
Granted(c) ==
    /\ Holder(Caller[c]) = Caller[c]
    /\ call' = [call EXCEPT ![c] = [NewCall EXCEPT !.pc = "true"]]
    /\ granted' = [granted EXCEPT ![Caller[c]] = TRUE]
    /\ UNCHANGED <<engine, net, disturbed>>

\* A slip: the settle window is not waited for.
SettledAtOnce(c) ==
    /\ call[c].pc = "settling"
    /\ Refused(c) \/ Granted(c)
    /\ UNCHANGED <<clock, room, counts, cleared, misled>>

Settled(c) ==
    /\ call[c].pc = "settling" /\ clock >= call[c].due
    /\ Refused(c) \/ Granted(c)
    /\ UNCHANGED <<clock, room, counts, cleared, misled>>

\* The delay before the next attempt is over.
Retry(c) ==
    /\ call[c].pc = "waiting" /\ clock >= call[c].due
    /\ IF clock >= call[c].deadline
       THEN /\ call' = [call EXCEPT ![c] = [NewCall EXCEPT !.pc = "false"]]
            /\ UNCHANGED <<engine, net, disturbed>>
       ELSE /\ PlaceClaim(Caller[c], Ttl[c])
            /\ call' = [call EXCEPT ![c].pc = "settling", ![c].due = clock + SettleTicks]
    /\ UNCHANGED <<clock, room, granted, counts, cleared, misled>>

\* release and releaseAll.
Release(p) ==
    /\ claims[p][p] # NoClaim
    /\ Change
    /\ RemoveClaim(p)
    /\ granted' = [granted EXCEPT ![p] = FALSE]
    /\ UNCHANGED <<clock, room, call, cleared, misled>>

\* The timer of scheduleExpiry.
ClaimExpires(p) ==
    /\ expiry[p] # None /\ clock >= expiry[p]
    /\ Reconcile(p, claims[p])
    /\ UNCHANGED <<clock, room, net, call, counts, history>>

-----------------------------------------------------------------------------
\* Signals of others.

Received(p, q, type) ==
    /\ link[p] = "up"
    /\ net[q][p] # <<>>
    /\ Head(net[q][p]).type = type

\* The signal is taken off the wire and answered with another one, or with none.
Answer(p, q, answer) ==
    net' = [[net EXCEPT ![q][p] = Tail(@)] EXCEPT ![p][q] =
               IF link[q] = "up" THEN @ \o answer ELSE @]

\* A slip: frames of peers that are not in the registry count.
HandleAnyLockFrame(p, q) ==
    LET m == Head(net[q][p])
    IN  /\ Received(p, q, "claim") \/ Received(p, q, "release")
        /\ Answer(p, q, <<>>)
        /\ IF m.type = "claim" THEN ApplyClaim(p, q, m.claim) ELSE DropClaim(p, q)
        /\ UNCHANGED <<clock, room, call, counts, history>>

HandleLockFrame(p, q) ==
    LET m == Head(net[q][p])
    IN  /\ Received(p, q, "claim") \/ Received(p, q, "release")
        /\ Answer(p, q, <<>>)
        /\ IF registry[p][q] = "absent"
           THEN UNCHANGED engine /\ disturbed' = TRUE
           ELSE /\ IF m.type = "claim" THEN ApplyClaim(p, q, m.claim) ELSE DropClaim(p, q)
                /\ UNCHANGED disturbed
        /\ UNCHANGED <<clock, room, call, granted, counts, cleared, misled>>

\* hello is answered with welcome, and welcome with presence:update.
HandlePresence(p, q) ==
    /\ \/ Received(p, q, "hello") /\ Answer(p, q, <<Message("welcome")>>)
       \/ Received(p, q, "welcome") /\ Answer(p, q, <<Message("presence")>>)
       \/ Received(p, q, "presence") /\ Answer(p, q, <<>>)
    /\ registry' = [registry EXCEPT ![p] = Upsert(@, q)]
    /\ UNCHANGED <<clock, link, departed, engine, call, counts, history>>

\* peer leaves the registry of p, and its claims go with it: onPeerLeave.
PeerLeaves(p, q) ==
    /\ registry' = [registry EXCEPT ![p] = Remove(@, q)]
    /\ IF registry[p][q] = "absent"
       THEN UNCHANGED <<engine, disturbed>>
       ELSE DropClaim(p, q) /\ disturbed' = TRUE

HandleLeave(p, q) ==
    /\ Received(p, q, "leave")
    /\ Answer(p, q, <<>>)
    /\ PeerLeaves(p, q)
    /\ UNCHANGED <<clock, link, departed, call, granted, counts, cleared, misled>>

\* 'peer-left' of the relay: the room waits for the peer to come back.
HandlePeerLeft(p, q) ==
    /\ Received(p, q, "peer-left")
    /\ Answer(p, q, <<>>)
    /\ registry' = [registry EXCEPT ![p] = MarkDisconnected(@, q)]
    /\ UNCHANGED <<clock, link, departed, engine, call, counts, history>>

\* The grace period ends: finalizeScheduledRemoval.
GraceEnds(p, q) ==
    /\ registry[p][q] = "leaving"
    /\ PeerLeaves(p, q)
    /\ UNCHANGED <<clock, link, departed, net, call, granted, counts, cleared, misled>>

-----------------------------------------------------------------------------
\* Connections.

\* p says something to the others, which is not lost if nobody hears it.
Connect(p) ==
    /\ link[p] = "off"
    /\ p \notin departed \/ LateNotices
    /\ link' = [link EXCEPT ![p] = "up"]
    /\ net' = [net EXCEPT ![p] = [q \in Others(p) |->
           IF link[q] = "up" THEN Append(@[q], Message("hello")) ELSE @[q]]]
    /\ misled' = misled \ {p}
    /\ UNCHANGED <<clock, departed, registry, engine, call, counts, granted, disturbed, cleared>>

\* Every PRESENCE_HEARTBEAT_MS, by which time what p sent before has arrived.
Heartbeat(p) ==
    /\ link[p] = "up"
    /\ \A q \in Others(p) : net[p][q] = <<>>
    /\ Change
    /\ net' = Sent(p, Message("presence"))
    /\ misled' = misled \ {p}
    /\ UNCHANGED <<clock, room, engine, call, granted, disturbed, cleared>>

LockFramesIn(signals) == \E i \in DOMAIN signals : IsLockFrame(signals[i])

\* The connection of p breaks.  What the relay has not passed on to p is lost, and
\* what p sent may be: what it passed on may as well have been received already.
Break(p) ==
    /\ link[p] = "up"
    /\ End
    /\ link' = [link EXCEPT ![p] = "dead"]
    /\ departed' = departed \cup {p}
    /\ \E lost \in BOOLEAN :
           LET cut == {pair \in Peers \X Peers :
                   pair[1] # pair[2] /\ (pair[2] = p \/ (pair[1] = p /\ lost))}
           IN  /\ net' = [q \in Peers |-> [r \in Others(q) |->
                      IF <<q, r>> \in cut THEN <<>> ELSE net[q][r]]]
               /\ disturbed' =
                      \/ disturbed
                      \/ \E pair \in cut : LockFramesIn(net[pair[1]][pair[2]])
    /\ UNCHANGED <<clock, registry, engine, call, granted, cleared, misled>>

HandleLoss(p) ==
    /\ link[p] = "dead"
    /\ link' = [link EXCEPT ![p] = "off"]
    /\ registry' = [registry EXCEPT ![p] = MarkAllDisconnected(@)]
    /\ UNCHANGED <<clock, departed, net, engine, call, counts, history>>

\* disconnect says leave and clears the registry: the locks hear nothing of it.
Disconnect(p) ==
    /\ End
    /\ link' = [link EXCEPT ![p] = "off"]
    /\ departed' = IF link[p] = "up" THEN departed \cup {p} ELSE departed
    /\ registry' = [registry EXCEPT ![p] = Clear(@)]
    /\ net' = [r \in Peers |-> [s \in Others(r) |->
           IF s = p THEN <<>> ELSE Sent(p, Message("leave"))[r][s]]]
    /\ disturbed' = TRUE
    /\ cleared' = cleared \cup {p}
    /\ UNCHANGED <<clock, engine, call, granted, misled>>

\* The relay has noticed, and tells those that are still there.
AnnounceDeparture(p) ==
    /\ p \in departed
    /\ departed' = departed \ {p}
    /\ net' = [net EXCEPT ![p] = [q \in Others(p) |->
           IF link[q] = "up" THEN Append(@[q], Message("peer-left")) ELSE @[q]]]
    /\ misled' = IF link[p] = "up" THEN misled \cup {p} ELSE misled
    /\ UNCHANGED <<clock, link, registry, engine, call, counts, granted, disturbed, cleared>>

-----------------------------------------------------------------------------
Dues == {call[c].due : c \in {d \in Calls : InProgress(d)}} \cup
            ({expiry[p] : p \in Peers} \ {None})

\* Time passes while something is still due, and nothing is due now.
Tick ==
    /\ Dues # {} /\ \A due \in Dues : clock < due
    /\ \A p \in Peers : \A q \in Others(p) : \A i \in DOMAIN net[p][q] :
           clock < net[p][q][i].sentAt + MaxDelay
    /\ clock' = clock + 1
    /\ UNCHANGED <<room, net, engine, call, counts, history>>

CallStep == \E c \in Calls : Settled(c) \/ Retry(c)

Receive ==
    \E p \in Peers : \E q \in Others(p) :
        \/ HandleLockFrame(p, q)
        \/ HandlePresence(p, q)
        \/ HandleLeave(p, q)
        \/ HandlePeerLeft(p, q)

Next ==
    \/ \E c \in Calls : Acquire(c)
    \/ CallStep
    \/ Receive
    \/ \E p \in Peers :
           \/ Release(p)
           \/ ClaimExpires(p)
           \/ Connect(p)
           \/ Heartbeat(p)
           \/ Break(p)
           \/ HandleLoss(p)
           \/ Disconnect(p)
           \/ AnnounceDeparture(p)
           \/ \E q \in Others(p) : GraceEnds(p, q)
    \/ Tick

Spec == Init /\ [][Next]_vars

-----------------------------------------------------------------------------
States == [holder : Peers \cup {None}, at : Nat, until : Nat]
ClaimType == [at : Nat, until : Nat]
Messages ==
    [type : {"hello", "welcome", "presence", "leave", "peer-left", "claim", "release"},
     sentAt : Nat, claim : ClaimType]

\* Types; the one timer of a key is due when the first of its claims ends.
TypeOK ==
    /\ clock \in Nat \ {0}
    /\ link \in [Peers -> {"up", "dead", "off"}]
    /\ departed \subseteq Peers
    /\ \A p \in Peers :
           /\ registry[p] \in [Others(p) -> Entries]
           /\ net[p] \in [Others(p) -> Seq(Messages)]
           /\ claims[p] \in [Peers -> ClaimType]
    /\ notified \in [Peers -> States]
    /\ \A p \in Peers : expiry[p] = Soonest(claims[p])
    /\ call \in [Calls ->
           [pc : {"new", "settling", "waiting", "true", "false"}, due : Nat, deadline : Nat]]
    /\ granted \in [Peers -> BOOLEAN]
    /\ ends \in 0..MaxEnds /\ changes \in 0..MaxChanges
    /\ disturbed \in BOOLEAN
    /\ cleared \subseteq Peers
    /\ misled \subseteq Peers

Quiet == \A p \in Peers : \A q \in Others(p) : net[p][q] = <<>>

\* acquire told p true, p has not released, and p still sees itself as the holder.
Holds(p) == granted[p] /\ Holder(p) = p

\* One holder at a time, if no signal takes as long as the settle window and none
\* is lost: through ties, renewals, expiries, releases, and outages short enough.
OneHolder == ~disturbed => \A p, q \in Peers : Holds(p) /\ Holds(q) => p = q

\* Once everything has arrived the peers agree on the holder, though one of them
\* may have lost its connection and come back within the grace period.
Agreement ==
    ~disturbed /\ Quiet => \A p, q \in Peers : Resolve(claims[p]) = Resolve(claims[q])

\* What subscribers were last told is the state of the lock, unless a timer is
\* about to tell them that it expired.
SubscribersCurrent ==
    \A p \in Peers :
        notified[p] = Resolve(claims[p]) \/ (expiry[p] # None /\ clock >= expiry[p])

\* A peer that is no longer in the room's registry claims nothing, except for a
\* room that was disconnected by its user.
ClaimsOfMembers ==
    \A p \in Peers : p \notin cleared =>
        \A q \in Others(p) : registry[p][q] = "absent" => claims[p][q] = NoClaim

\* A peer none of whose calls succeeded or goes on claims nothing: it would keep
\* the key from the others.
NoStrayClaim ==
    \A p \in Peers : Active(claims[p][p]) =>
        granted[p] \/ \E c \in Calls : Caller[c] = p /\ InProgress(c)

\* At rest the registries name the connected peers, whatever removal timers were
\* started and cancelled: if a departure is announced after the return, the next
\* heartbeat makes up for it.
RostersExact ==
    Quiet /\ departed = {} =>
        \A p \in Peers : \A q \in Others(p) \ misled :
            link[p] = "up" => (registry[p][q] = "present" <=> link[q] = "up")

\* acquire outlasts its timeout by less than one settle window, whatever claims,
\* releases and expiries the attempts run into.
PatienceBounded ==
    \A c \in Calls : InProgress(c) /\ call[c].deadline # None =>
        clock < call[c].deadline + SettleTicks
=============================================================================
