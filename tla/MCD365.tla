------------------------------- MODULE MCD365 -------------------------------
(* Small instances of D365Client for TLC: concurrent calls, minutes as the *)
(* unit of time, and a skew of two of them in place of five.               *)
EXTENDS D365Client, TLC

CONSTANTS c1, c2, c3
=============================================================================
