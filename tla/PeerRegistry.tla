----------------------------- MODULE PeerRegistry -----------------------------
(***************************************************************************)
(* The remote peers a room knows: packages/core/src/internal/              *)
(* peer-registry.ts.  An entry is "absent", "present", or "leaving" while  *)
(* its removal timer runs, which cancelRemoval clears for good.            *)
(***************************************************************************)
Entries == {"absent", "present", "leaving"}

\* A slip: the removal timer of a peer that is back runs on.
UpsertLeaving(registry, q) ==
    [registry EXCEPT ![q] = IF @ = "absent" THEN "present" ELSE @]

Upsert(registry, q) == [registry EXCEPT ![q] = "present"]

Remove(registry, q) == [registry EXCEPT ![q] = "absent"]

\* A removal that is scheduled already keeps its timer.
MarkDisconnected(registry, q) ==
    [registry EXCEPT ![q] = IF @ = "present" THEN "leaving" ELSE @]

MarkAllDisconnected(registry) ==
    [q \in DOMAIN registry |->
        IF registry[q] = "present" THEN "leaving" ELSE registry[q]]

\* Nobody is told of the peers that are cleared.
Clear(registry) == [q \in DOMAIN registry |-> "absent"]
=============================================================================
