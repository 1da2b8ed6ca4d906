------------------------------- MODULE MCPool -------------------------------
(* A small instance of ConnectionPool for TLC: more requests than          *)
(* connections, a probe, and calls to D365 that outlast the pool's timeout.*)
EXTENDS ConnectionPool, TLC

CONSTANTS r1, r2, r3, p1
=============================================================================
