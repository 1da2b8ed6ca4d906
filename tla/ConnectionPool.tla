--------------------------- MODULE ConnectionPool ---------------------------
(***************************************************************************)
(* The database connections of one backend process: the sessions of the    *)
(* requests to /me, /me/profile and /me/leave-balances and the readiness   *)
(* probe compete for the connections of the engine's pool.  A session has  *)
(* a connection from its first statement to its next commit or rollback,   *)
(* so also while the request waits for D365 in between.                    *)
(***************************************************************************)
EXTENDS Integers, FiniteSets

CONSTANTS
  Requests,
  Probes,       \* calls of /health/ready
  Limit,        \* pool_size + max_overflow
  PoolTimeout,  \* how long the pool lets a session wait for a connection
  CallTime,     \* the longest get_entity takes: every attempt timing out
  MaxCalls,     \* calls to D365 by one request
  MaxCommits,   \* commits by one request
  MaxOutages    \* bound: how often the database goes down

Actors == Requests \cup Probes

ASSUME PoolAssumption ==
  /\ Requests \cap Probes = {} /\ IsFiniteSet(Actors)
  /\ Limit \in Nat \ {0}
  /\ PoolTimeout \in Nat \ {0} /\ CallTime \in Nat \ {0}
  /\ MaxCalls \in Nat /\ MaxCommits \in Nat \ {0} /\ MaxOutages \in Nat

VARIABLES
  held,     \* who has a connection of the pool
  phase,    \* where each actor is
  waited,   \* for how long it has waited, for a connection or for D365
  calls,    \* how often a request has called D365
  commits,  \* how often it has ended a transaction
  up,       \* whether the database answers
  outages,  \* how often it went down
  troubled  \* auxiliary: the probes under way at some time of an outage

vars == <<held, phase, waited, calls, commits, up, outages, troubled>>

(* Without a session; wanting a connection; running statements; waiting    *)
(* for D365; ended well; ended by an exception, or "unavailable".          *)
Phases == {"new", "waiting", "working", "calling", "done", "failed"}

TypeOK ==
  /\ held \subseteq Actors /\ Cardinality(held) <= Limit
  /\ phase \in [Actors -> Phases]
  /\ waited \in [Actors -> Nat]
  /\ \A a \in Actors : phase[a] = "waiting" => waited[a] <= PoolTimeout
  /\ calls \in [Requests -> 0..MaxCalls]
  /\ commits \in [Requests -> 0..MaxCommits]
  /\ up \in BOOLEAN /\ outages \in 0..MaxOutages
  /\ troubled \subseteq Probes

Init ==
  /\ held = {}
  /\ phase = [a \in Actors |-> "new"]
  /\ waited = [a \in Actors |-> 0]
  /\ calls = [r \in Requests |-> 0]
  /\ commits = [r \in Requests |-> 0]
  /\ up = TRUE /\ outages = 0
  /\ troubled = {}
-----------------------------------------------------------------------------
(* A wait begins or ends. *)
Goes(a, p) ==
  /\ phase' = [phase EXCEPT ![a] = p]
  /\ waited' = [waited EXCEPT ![a] = 0]

Active(p) == phase[p] \in {"waiting", "working"}

(* The first statement of a request, or engine.connect of the probe. *)
Ask(a) ==
  /\ phase[a] = "new"
  /\ Goes(a, "waiting")
  /\ troubled' = IF a \in Probes /\ ~up THEN troubled \cup {a} ELSE troubled
  /\ UNCHANGED <<held, calls, commits, up, outages>>

(* Fault: the pool opens a connection for whoever asks. *)
Connect_Unbounded(a) ==
  /\ phase[a] = "waiting"
  /\ up
  /\ held' = held \cup {a}
  /\ Goes(a, "working")
  /\ UNCHANGED <<calls, commits, up, outages, troubled>>

(* The pool has a connection left; who of those that wait gets it is left  *)
(* open.  It is tested before use, so the database answers.                *)
Connect(a) ==
  /\ phase[a] = "waiting"
  /\ Cardinality(held) < Limit
  /\ up
  /\ held' = held \cup {a}
  /\ Goes(a, "working")
  /\ UNCHANGED <<calls, commits, up, outages, troubled>>

(* Fault: an asker that has timed out asks again. *)
ConnectFails_Again(a) ==
  /\ phase[a] = "waiting"
  /\ ~up \/ (waited[a] >= PoolTimeout /\ Cardinality(held) = Limit)
  /\ Goes(a, "waiting")
  /\ UNCHANGED <<held, calls, commits, up, outages, troubled>>

(* Fault: the pool does not wait when it is exhausted. *)
ConnectFails_AtOnce(a) ==
  /\ phase[a] = "waiting"
  /\ ~up \/ Cardinality(held) = Limit
  /\ Goes(a, "failed")
  /\ UNCHANGED <<held, calls, commits, up, outages, troubled>>

(* None can be opened, or the pool is exhausted when its timeout has       *)
(* passed: an exception, which the probe takes for an unavailable database.*)
ConnectFails(a) ==
  /\ phase[a] = "waiting"
  /\ ~up \/ (waited[a] >= PoolTimeout /\ Cardinality(held) = Limit)
  /\ Goes(a, "failed")
  /\ UNCHANGED <<held, calls, commits, up, outages, troubled>>

(* The request calls D365 in the middle of its transaction. *)
Call(r) ==
  /\ phase[r] = "working"
  /\ calls[r] < MaxCalls
  /\ calls' = [calls EXCEPT ![r] = @ + 1]
  /\ Goes(r, "calling")
  /\ UNCHANGED <<held, commits, up, outages, troubled>>

Return(r) ==
  /\ phase[r] = "calling"
  /\ Goes(r, "working")
  /\ UNCHANGED <<held, calls, commits, up, outages, troubled>>

(* A commit, or the rollback after an IntegrityError, gives the connection *)
(* back.  The request then ends, or its next statement asks for another.   *)
Commit(r) ==
  /\ phase[r] = "working"
  /\ up
  /\ commits[r] < MaxCommits
  /\ held' = held \ {r}
  /\ commits' = [commits EXCEPT ![r] = @ + 1]
  /\ Goes(r, "done") \/ Goes(r, "waiting")
  /\ UNCHANGED <<calls, up, outages, troubled>>

(* Fault: an exception ends the request and its session stays open. *)
Raise_KeepsSession(r) ==
  /\ phase[r] \in {"working", "calling"}
  /\ Goes(r, "failed")
  /\ UNCHANGED <<held, calls, commits, up, outages, troubled>>

(* Any exception of a request: leaving get_session closes the session. *)
Raise(r) ==
  /\ phase[r] \in {"working", "calling"}
  /\ held' = held \ {r}
  /\ Goes(r, "failed")
  /\ UNCHANGED <<calls, commits, up, outages, troubled>>

(* SELECT 1 of the probe, over a connection that an outage may have cut. *)
Ping(p) ==
  /\ phase[p] = "working"
  /\ held' = held \ {p}
  /\ \/ up /\ Goes(p, "done")
     \/ (~up \/ p \in troubled) /\ Goes(p, "failed")
  /\ UNCHANGED <<calls, commits, up, outages, troubled>>

Outage ==
  /\ up /\ outages < MaxOutages
  /\ up' = FALSE
  /\ outages' = outages + 1
  /\ troubled' = troubled \cup {p \in Probes : Active(p)}
  /\ UNCHANGED <<held, phase, waited, calls, commits>>

Recover ==
  /\ ~up
  /\ up' = TRUE
  /\ UNCHANGED <<held, phase, waited, calls, commits, outages, troubled>>

(* No wait outlasts its timeout.  A database that is up executes a         *)
(* statement, and a connection that is free is given out, in less than a   *)
(* unit of time: FalseAlarmNeedsEveryConnection is about such a database.  *)
Tick ==
  /\ \A a \in Actors :
       /\ phase[a] = "waiting" =>
            waited[a] < PoolTimeout /\ (up => Cardinality(held) = Limit)
       /\ phase[a] = "calling" => waited[a] < CallTime
       /\ phase[a] = "working" => ~up
  /\ waited' = [a \in Actors |-> IF phase[a] \in {"waiting", "calling"} THEN waited[a] + 1
                                 ELSE waited[a]]
  /\ UNCHANGED <<held, phase, calls, commits, up, outages, troubled>>

Serve(r) == Ask(r) \/ Connect(r) \/ ConnectFails(r) \/ Call(r) \/ Return(r) \/ Commit(r) \/ Raise(r)

Probe(p) == Ask(p) \/ Connect(p) \/ ConnectFails(p) \/ Ping(p)

Finished == (\A a \in Actors : phase[a] \in {"done", "failed"}) /\ UNCHANGED vars

Next ==
  \/ \E r \in Requests : Serve(r)
  \/ \E p \in Probes : Probe(p)
  \/ Outage
  \/ Recover
  \/ Tick
  \/ Finished

Spec == Init /\ [][Next]_vars

(* The event loop runs every ready coroutine; the pool and httpx give up   *)
(* when their timeouts have passed.                                        *)
FairSpec == Spec /\ (\A r \in Requests : WF_vars(Serve(r))) /\ (\A p \in Probes : WF_vars(Probe(p)))
-----------------------------------------------------------------------------
(* On every path out of a request or a probe, an exception in the middle   *)
(* of a transaction included, its connection is back in the pool           *)
(* (session.py lines 31-33 and 38).                                        *)
NothingLeaks == held = {a \in Actors : phase[a] \in {"working", "calling"}}

(* A probe finds the database unavailable while it is not only when as     *)
(* many requests have called D365 as the pool has connections: nothing     *)
(* less than every connection kept over a call does it (session.py lines   *)
(* 17-24 and 36-42).                                                       *)
FalseAlarmNeedsEveryConnection ==
  \A p \in Probes : phase[p] = "failed" /\ p \notin troubled =>
    Cardinality({r \in Requests : calls[r] > 0}) >= Limit

(* Every request and every probe ends, though they wait for each other's   *)
(* connections.                                                            *)
EveryoneEnds == \A a \in Actors : <>(phase[a] \in {"done", "failed"})

(* "D365 is deliberately excluded from readiness: an external outage       *)
(* should degrade D365-backed features" (README.md:250): the probe says    *)
(* that the database is unavailable only if it has been.                   *)
ReadinessIgnoresD365 ==
  \A p \in Probes : phase[p] = "failed" => p \in troubled
=============================================================================
