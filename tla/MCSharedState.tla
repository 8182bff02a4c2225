--------------------------- MODULE MCSharedState ---------------------------
(* Instances of SharedState for TLC. *)
EXTENDS SharedState

\* Every clock tells the same time.
SameClock == [p \in Peers |-> 0]

\* The clock of peer 1 is ahead of the others by three writes.
FirstAhead == [p \in Peers |-> IF p = 1 THEN 3 ELSE 0]

\* What the applications of peers 1, 2 and, if there is one, 3 do.
KindsOfEach ==
    [p \in Peers |-> <<{"patch", "undo"}, {"set", "reset"}, {"reset"}>>[p]]
=============================================================================
