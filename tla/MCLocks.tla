------------------------------ MODULE MCLocks ------------------------------
(* An instance of Locks for TLC. *)
EXTENDS Locks

\* The first call asks for a time to live of 3 ticks, the second waits for 4 ticks:
\* long enough to try twice.
CallerOfEach == <<1, 2>>
TtlOfEach == <<3, 0>>
TimeoutOfEach == <<0, 4>>
=============================================================================
