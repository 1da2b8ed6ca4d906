------------------------ MODULE ConnectionPoolProofs ------------------------
(* No connection leaks, and a probe is wrong about the database only when  *)
(* calls to D365 hold every connection: for any number of requests, probes *)
(* and connections and any timeouts.                                       *)
EXTENDS ConnectionPool, FiniteSetTheorems, TLAPS

Callers == {r \in Requests : calls[r] > 0}

(* Only requests wait for D365, and they have called it. *)
CallersCall == \A a \in Actors : phase[a] = "calling" => a \in Callers

(* A probe that is under way while the database is down is troubled. *)
OutagesTrouble == \A p \in Probes : Active(p) /\ ~up => p \in troubled

(* Time passes for a waiting probe that nothing troubles only while every  *)
(* connection is kept over a call.                                         *)
WaitsForCallers ==
  \A p \in Probes \ troubled :
    phase[p] = "failed" \/ (phase[p] = "waiting" /\ waited[p] > 0) =>
      Cardinality(Callers) >= Limit

Inv == TypeOK /\ NothingLeaks /\ CallersCall /\ OutagesTrouble /\ WaitsForCallers

LEMMA Finite ==
  /\ IsFiniteSet(Actors) /\ IsFiniteSet(Requests)
  /\ \A S \in SUBSET Actors : IsFiniteSet(S) /\ Cardinality(S) \in Nat
  /\ \A S \in SUBSET Actors : \A T \in SUBSET S : Cardinality(T) <= Cardinality(S)
<1>1. IsFiniteSet(Actors)
  BY PoolAssumption
<1>2. \A S \in SUBSET Actors : IsFiniteSet(S)
  BY <1>1, FS_Subset
<1>3. \A S \in SUBSET Actors : \A T \in SUBSET S : Cardinality(T) <= Cardinality(S)
  BY <1>2, FS_Subset
<1>4. Requests \in SUBSET Actors
  BY DEF Actors
<1> QED
  BY <1>1, <1>2, <1>3, <1>4, FS_CardinalityType

LEMMA CallersAreMany ==
  ASSUME TypeOK, TypeOK', Callers \subseteq Callers'
  PROVE  Cardinality(Callers') >= Cardinality(Callers)
<1>1. Callers' \in SUBSET Actors
  BY DEF Callers, Actors
<1> QED
  BY <1>1, Finite

LEMMA Initially ==
  ASSUME Init
  PROVE  Inv
<1>1. TypeOK
  BY FS_EmptySet, PoolAssumption DEF Init, TypeOK, Phases
<1> QED
  BY <1>1 DEF Init, Inv, NothingLeaks, CallersCall, OutagesTrouble, WaitsForCallers, Active, Actors

(* Types and connections, for a step of one actor. *)
LEMMA ActorTypes ==
  ASSUME Inv, NEW a \in Actors,
         \/ Ask(a) \/ Connect(a) \/ ConnectFails(a)
         \/ a \in Requests /\ (Call(a) \/ Return(a) \/ Commit(a) \/ Raise(a))
         \/ a \in Probes /\ Ping(a)
  PROVE  TypeOK' /\ NothingLeaks'
<1> USE DEF Inv
<1>1. PICK p \in Phases : Goes(a, p)
  BY DEF Ask, Connect, ConnectFails, Call, Return, Commit, Raise, Ping, Phases
<1>2. /\ phase' \in [Actors -> Phases] /\ waited' \in [Actors -> Nat]
      /\ \A b \in Actors : phase'[b] = "waiting" => waited'[b] <= PoolTimeout
      /\ \A b \in Actors \ {a} : phase'[b] = phase[b] /\ waited'[b] = waited[b]
      /\ phase'[a] = p /\ waited'[a] = 0
  BY <1>1, PoolAssumption DEF Goes, TypeOK
<1>3. CASE Connect(a)
  <2>1. a \notin held /\ held' = held \cup {a} /\ held' \subseteq Actors
    BY <1>3 DEF Connect, NothingLeaks
  <2>2. IsFiniteSet(held) /\ Cardinality(held) \in Nat
    BY Finite DEF TypeOK
  <2>3. Cardinality(held') = Cardinality(held) + 1
    BY <2>1, <2>2, FS_AddElement
  <2>4. Cardinality(held') <= Limit
    BY <2>2, <2>3, <1>3, PoolAssumption DEF Connect
  <2>5. phase'[a] = "working"
    BY <1>3 DEF Connect, Goes, TypeOK
  <2>6. NothingLeaks'
    BY <2>1, <2>5, <1>2 DEF NothingLeaks
  <2> QED
    BY <2>1, <2>4, <2>6, <1>2, <1>3 DEF Connect, TypeOK
<1>4. CASE ~Connect(a)
  <2>1. held' \subseteq held
    BY <1>4 DEF Ask, ConnectFails, Call, Return, Commit, Raise, Ping
  <2>2. held' \subseteq Actors /\ Cardinality(held') <= Limit
    <3>1. held \in SUBSET Actors /\ Cardinality(held) <= Limit
      BY DEF TypeOK
    <3>2. Cardinality(held') <= Cardinality(held) /\ Cardinality(held') \in Nat /\ Cardinality(held) \in Nat
      BY <2>1, <3>1, Finite
    <3> QED
      BY <2>1, <3>1, <3>2, PoolAssumption
  <2>3. /\ calls' \in [Requests -> 0..MaxCalls] /\ commits' \in [Requests -> 0..MaxCommits]
        /\ UNCHANGED <<up, outages>> /\ troubled' \subseteq Probes
    BY <1>4, PoolAssumption DEF Ask, ConnectFails, Call, Return, Commit, Raise, Ping, TypeOK
  <2>4. NothingLeaks'
    <3>1. held' = IF p \in {"working", "calling"} THEN held ELSE held \ {a}
      BY <1>1, <1>2, <1>4 DEF Ask, ConnectFails, Call, Return, Commit, Raise, Ping, Goes, NothingLeaks, TypeOK
    <3>2. p \in {"working", "calling"} => a \in held
      BY <1>2, <1>4 DEF Ask, ConnectFails, Call, Return, Commit, Raise, Ping, Goes, NothingLeaks, TypeOK
    <3> QED
      BY <3>1, <3>2, <1>2 DEF NothingLeaks, TypeOK
  <2> QED
    BY <2>2, <2>3, <2>4, <1>2 DEF TypeOK
<1> QED
  BY <1>3, <1>4

(* The same steps never make a caller of a probe, and fail a probe only    *)
(* for cause.                                                              *)
LEMMA ActorKeeps ==
  ASSUME Inv, NEW a \in Actors,
         \/ Ask(a) \/ Connect(a) \/ ConnectFails(a)
         \/ a \in Requests /\ (Call(a) \/ Return(a) \/ Commit(a) \/ Raise(a))
         \/ a \in Probes /\ Ping(a)
  PROVE  Inv'
<1> USE DEF Inv
<1>1. TypeOK' /\ NothingLeaks'
  BY ActorTypes
<1>2. /\ \A b \in Actors \ {a} : phase'[b] = phase[b] /\ waited'[b] = waited[b]
      /\ waited'[a] = 0
  BY DEF Ask, Connect, ConnectFails, Call, Return, Commit, Raise, Ping, Goes, TypeOK
<1>3. /\ \A r \in Requests : calls'[r] >= calls[r]
      /\ UNCHANGED up
      /\ troubled \subseteq troubled'
      /\ \A p \in Probes : p # a => (p \in troubled' <=> p \in troubled)
  BY DEF Ask, Connect, ConnectFails, Call, Return, Commit, Raise, Ping, TypeOK
<1>4. Callers \subseteq Callers'
  BY <1>1, <1>3 DEF Callers, TypeOK
<1>5. phase'[a] = "calling" => Call(a) /\ a \in Requests
  BY DEF Ask, Connect, ConnectFails, Call, Return, Commit, Raise, Ping, Goes, TypeOK
<1>6. Call(a) /\ a \in Requests => a \in Callers'
  BY DEF Call, Callers, TypeOK
<1>7. CallersCall'
  BY <1>2, <1>4, <1>5, <1>6 DEF CallersCall
<1>8. OutagesTrouble'
  <2> SUFFICES ASSUME NEW p \in Probes, Active(p)', ~up'
               PROVE  p \in troubled'
    BY DEF OutagesTrouble
  <2>1. p \in Actors
    BY DEF Actors
  <2>2. CASE p # a
    BY <2>1, <2>2, <1>2, <1>3 DEF OutagesTrouble, Active
  <2>3. CASE p = a /\ Ask(a)
    BY <2>3, <1>3 DEF Ask
  <2>4. CASE p = a /\ ~Ask(a)
    <3>1. Active(p)
      BY <2>1, <2>4, PoolAssumption DEF Active, Connect, ConnectFails, Call, Return, Commit, Raise, Ping, Goes, TypeOK
    <3> QED
      BY <3>1, <1>3 DEF OutagesTrouble
  <2> QED
    BY <2>2, <2>3, <2>4
<1>9. WaitsForCallers'
  <2> SUFFICES ASSUME NEW p \in Probes, p \notin troubled',
                      phase'[p] = "failed" \/ (phase'[p] = "waiting" /\ waited'[p] > 0)
               PROVE  Cardinality(Callers') >= Limit
    BY DEF WaitsForCallers
  <2>1. p \in Actors /\ p \notin troubled
    BY <1>3 DEF Actors
  <2>2. Cardinality(Callers) >= Limit
    <3>1. CASE p # a
      BY <2>1, <3>1, <1>2 DEF WaitsForCallers
    <3>2. CASE p = a
      <4>1. phase'[p] = "failed"
        BY <3>2, <1>2
      <4>2. ConnectFails(p) \/ Ping(p)
        BY <3>2, <4>1, <2>1, PoolAssumption DEF Ask, Connect, Call, Return, Commit, Raise, Goes, TypeOK
      <4>3. Active(p)
        BY <4>2 DEF ConnectFails, Ping, Active
      <4>4. up
        BY <4>3, <2>1 DEF OutagesTrouble
      <4>5. ~Ping(p)
        BY <4>1, <4>4, <2>1 DEF Ping, Goes, TypeOK
      <4>6. phase[p] = "waiting" /\ waited[p] >= PoolTimeout
        BY <4>2, <4>4, <4>5 DEF ConnectFails
      <4>7. waited[p] > 0
        BY <4>6, <2>1, PoolAssumption DEF TypeOK
      <4> QED
        BY <4>6, <4>7, <2>1 DEF WaitsForCallers
    <3> QED
      BY <3>1, <3>2
  <2>3. Cardinality(Callers') >= Cardinality(Callers)
    BY <1>1, <1>4, CallersAreMany
  <2>4. Callers \in SUBSET Actors /\ Callers' \in SUBSET Actors
    BY DEF Callers, Actors
  <2> QED
    BY <2>2, <2>3, <2>4, Finite, PoolAssumption
<1> QED
  BY <1>1, <1>7, <1>8, <1>9

LEMMA TickKeeps ==
  ASSUME Inv, Tick
  PROVE  Inv'
<1> USE DEF Inv
<1>1. UNCHANGED <<held, phase, calls, commits, up, outages, troubled>>
  BY DEF Tick
<1>2. \A a \in Actors : waited'[a] = IF phase[a] \in {"waiting", "calling"} THEN waited[a] + 1 ELSE waited[a]
  BY DEF Tick
<1>3. waited' \in [Actors -> Nat]
  BY DEF Tick, TypeOK
<1>4. \A a \in Actors : phase[a] = "waiting" => waited[a] < PoolTimeout
  BY DEF Tick
<1>5. TypeOK'
  BY <1>1, <1>2, <1>3, <1>4, PoolAssumption DEF TypeOK
<1>6. NothingLeaks' /\ CallersCall' /\ OutagesTrouble'
  BY <1>1 DEF NothingLeaks, CallersCall, OutagesTrouble, Active, Callers
<1>7. WaitsForCallers'
  <2> SUFFICES ASSUME NEW p \in Probes, p \notin troubled,
                      phase[p] = "failed" \/ (phase[p] = "waiting" /\ waited'[p] > 0)
               PROVE  Cardinality(Callers) >= Limit
    BY <1>1 DEF WaitsForCallers, Callers
  <2>1. CASE phase[p] = "failed"
    BY <2>1 DEF WaitsForCallers
  <2>2. CASE phase[p] = "waiting"
    <3>1. p \in Actors
      BY DEF Actors
    <3>2. up
      BY <2>2 DEF OutagesTrouble, Active
    <3>3. Cardinality(held) = Limit
      BY <2>2, <3>1, <3>2 DEF Tick
    <3>4. \A a \in Actors : phase[a] # "working"
      BY <3>2 DEF Tick
    <3>5. held \subseteq Callers
      BY <3>4 DEF NothingLeaks, CallersCall
    <3>6. Callers \in SUBSET Actors /\ held \in SUBSET Callers
      BY <3>5 DEF Callers, Actors
    <3> QED
      BY <3>3, <3>6, Finite
  <2> QED
    BY <2>1, <2>2
<1> QED
  BY <1>5, <1>6, <1>7

LEMMA DatabaseKeeps ==
  ASSUME Inv, Outage \/ Recover
  PROVE  Inv'
<1> USE DEF Inv
<1>1. UNCHANGED <<held, phase, waited, calls, commits>>
  BY DEF Outage, Recover
<1>2. troubled \subseteq troubled'
  BY DEF Outage, Recover
<1>3. TypeOK'
  <2>1. up' \in BOOLEAN
    BY DEF Outage, Recover
  <2>2. troubled' \subseteq Probes
    BY DEF Outage, Recover, TypeOK
  <2>3. outages' \in 0..MaxOutages
    <3>1. outages \in Nat /\ MaxOutages \in Nat /\ outages <= MaxOutages
      BY PoolAssumption DEF TypeOK
    <3>2. outages' = outages \/ (outages' = outages + 1 /\ outages < MaxOutages)
      BY DEF Outage, Recover
    <3> QED
      BY <3>1, <3>2
  <2> QED
    BY <1>1, <2>1, <2>2, <2>3 DEF TypeOK
<1>4. NothingLeaks' /\ CallersCall'
  BY <1>1 DEF NothingLeaks, CallersCall, Callers
<1>5. OutagesTrouble'
  BY DEF OutagesTrouble, Outage, Recover, Active
<1>6. WaitsForCallers'
  BY <1>1, <1>2 DEF WaitsForCallers, Callers
<1> QED
  BY <1>3, <1>4, <1>5, <1>6

LEMMA Invariance == Spec => []Inv
<1>1. Init => Inv
  BY Initially
<1>2. Inv /\ [Next]_vars => Inv'
  <2> SUFFICES ASSUME Inv, [Next]_vars
               PROVE  Inv'
    OBVIOUS
  <2>1. ASSUME NEW r \in Requests, Serve(r)
        PROVE  Inv'
    BY <2>1, ActorKeeps DEF Serve, Actors
  <2>2. ASSUME NEW p \in Probes, Probe(p)
        PROVE  Inv'
    BY <2>2, ActorKeeps DEF Probe, Actors
  <2>3. ASSUME UNCHANGED vars
        PROVE  Inv'
    BY <2>3 DEF vars, Inv, TypeOK, NothingLeaks, CallersCall, OutagesTrouble, WaitsForCallers,
                Callers, Active
  <2> QED
    BY <2>1, <2>2, <2>3, TickKeeps, DatabaseKeeps DEF Next, Finished
<1> QED
  BY <1>1, <1>2, PTL DEF Spec

(* Type correctness: the pool never gives out more than its limit. *)
THEOREM PoolIsBounded == Spec => []TypeOK
<1>1. Inv => TypeOK
  BY DEF Inv
<1> QED
  BY <1>1, Invariance, PTL

(* On every path out of a request or a probe its connection is back in the *)
(* pool (session.py lines 31-33 and 38).                                   *)
THEOREM ConnectionsReturn == Spec => []NothingLeaks
<1>1. Inv => NothingLeaks
  BY DEF Inv
<1> QED
  BY <1>1, Invariance, PTL

(* A probe is wrong about the database only if as many requests have       *)
(* called D365 as the pool has connections, whatever the timeouts          *)
(* (session.py lines 17-24 and 36-42).                                     *)
THEOREM FalseAlarmsAreCrowds == Spec => []FalseAlarmNeedsEveryConnection
<1>1. Inv => FalseAlarmNeedsEveryConnection
  BY DEF Inv, WaitsForCallers, FalseAlarmNeedsEveryConnection, Callers
<1> QED
  BY <1>1, Invariance, PTL
-----------------------------------------------------------------------------
(* Progress: the steps an actor has left.  A call and a commit take two:   *)
(* one to begin, and one to be back at work.                               *)

StepsFrom == [new |-> 3, waiting |-> 2, calling |-> 2, working |-> 1]

Ended(a) == phase[a] \in {"done", "failed"}

Budget(a) ==
  IF a \in Requests THEN (MaxCalls - calls[a]) + (MaxCommits - commits[a]) ELSE 0

StepsLeft(a) == IF Ended(a) THEN 0 ELSE 2 * Budget(a) + StepsFrom[phase[a]]

Untouched(a) ==
  /\ phase'[a] = phase[a] /\ (a \in held' <=> a \in held)
  /\ a \in Requests => calls'[a] = calls[a] /\ commits'[a] = commits[a]

(* Nobody waits for a connection while it has one, so whoever waits at an  *)
(* exhausted pool waits for somebody who runs or is called back by D365.   *)
NoHoldAndWait ==
  \A a \in Actors : phase[a] = "waiting" =>
    /\ a \notin held
    /\ Cardinality(held) = Limit => \E b \in held : phase[b] \in {"working", "calling"}

LEMMA BudgetType ==
  ASSUME TypeOK, NEW a \in Actors
  PROVE  Budget(a) \in 0..MaxCalls + MaxCommits /\ MaxCalls \in Nat /\ MaxCommits \in Nat
  BY PoolAssumption DEF TypeOK, Budget

LEMMA StepsAreLeft ==
  ASSUME TypeOK, NEW a \in Actors
  PROVE  /\ StepsLeft(a) \in 0..2 * (MaxCalls + MaxCommits) + 3
         /\ ~Ended(a) => StepsFrom[phase[a]] \in 1..3 /\ StepsLeft(a) > 0
<1>1. CASE Ended(a)
  BY <1>1, BudgetType DEF StepsLeft
<1>2. CASE ~Ended(a)
  <2>1. StepsFrom[phase[a]] \in 1..3
    BY <1>2 DEF TypeOK, Phases, Ended, StepsFrom
  <2>2. StepsLeft(a) = 2 * Budget(a) + StepsFrom[phase[a]]
    BY <1>2 DEF StepsLeft
  <2> QED BY <2>1, <2>2, BudgetType
<1> QED BY <1>1, <1>2

LEMMA StepsFall ==
  ASSUME Inv, Inv', NEW a \in Actors,
         \/ Ask(a) \/ Connect(a) \/ ConnectFails(a)
         \/ a \in Requests /\ (Call(a) \/ Return(a) \/ Commit(a) \/ Raise(a))
         \/ a \in Probes /\ Ping(a)
  PROVE  StepsLeft(a)' < StepsLeft(a) /\ \A b \in Actors \ {a} : Untouched(b)
<1>t. /\ TypeOK /\ TypeOK'
      /\ phase \in [Actors -> Phases]
      /\ calls \in [Requests -> 0..MaxCalls] /\ commits \in [Requests -> 0..MaxCommits]
      /\ MaxCalls \in Nat /\ MaxCommits \in Nat
  BY PoolAssumption DEF Inv, TypeOK
<1>1. ASSUME NEW b \in Actors \ {a} PROVE Untouched(b)
  BY <1>t DEF Untouched, Ask, Connect, ConnectFails, Call, Return, Commit, Raise, Ping, Goes
<1>2. ~Ended(a)
  BY DEF Ended, Ask, Connect, ConnectFails, Call, Return, Commit, Raise, Ping
<1>3. StepsLeft(a) = 2 * Budget(a) + StepsFrom[phase[a]] /\ StepsLeft(a) > 0
  BY <1>2, <1>t, StepsAreLeft DEF StepsLeft
<1>4. CASE Ended(a)'
  <2>1. StepsLeft(a)' = 0
    BY <1>4 DEF StepsLeft
  <2> QED BY <1>1, <1>3, <2>1
<1>5. CASE ~Ended(a)' /\ Budget(a)' = Budget(a)
  <2>1. \/ phase[a] = "new" /\ phase'[a] = "waiting"
        \/ phase[a] = "waiting" /\ phase'[a] = "working"
        \/ phase[a] = "calling" /\ phase'[a] = "working"
    <3>1. CASE Ask(a) \/ Connect(a) \/ ConnectFails(a) \/ Ping(a) \/ Return(a) \/ Raise(a)
      BY <1>t, <1>5, <3>1 DEF Ask, Connect, ConnectFails, Return, Raise, Ping, Goes, Ended
    <3>2. CASE a \in Requests /\ (Call(a) \/ Commit(a))
      <4>1. \/ calls'[a] = calls[a] + 1 /\ commits'[a] = commits[a]
            \/ calls'[a] = calls[a] /\ commits'[a] = commits[a] + 1
        BY <1>t, <3>2 DEF Call, Commit
      <4> QED BY <1>t, <1>5, <3>2, <4>1 DEF Budget
    <3> QED BY <3>1, <3>2
  <2>2. StepsFrom[phase'[a]] < StepsFrom[phase[a]]
        /\ StepsFrom[phase'[a]] \in 1..3 /\ StepsFrom[phase[a]] \in 1..3
    BY <2>1 DEF StepsFrom
  <2>3. StepsLeft(a)' = 2 * Budget(a) + StepsFrom[phase'[a]]
    BY <1>5 DEF StepsLeft
  <2> QED BY <1>1, <1>3, <1>t, <2>2, <2>3, BudgetType
<1>6. CASE ~Ended(a)' /\ Budget(a)' # Budget(a)
  <2>1. a \in Requests /\ (Call(a) \/ Commit(a))
    BY <1>6, <1>t DEF Ask, Connect, ConnectFails, Return, Raise, Ping, Budget
  <2>2. \/ calls'[a] = calls[a] + 1 /\ commits'[a] = commits[a]
        \/ calls'[a] = calls[a] /\ commits'[a] = commits[a] + 1
    BY <1>t, <2>1 DEF Call, Commit
  <2>3. phase[a] = "working" /\ phase'[a] \in {"calling", "waiting"}
    BY <1>t, <1>6, <2>1 DEF Call, Commit, Goes, Ended
  <2>4. StepsFrom[phase[a]] = 1 /\ StepsFrom[phase'[a]] = 2
    BY <2>3 DEF StepsFrom
  <2>5. Budget(a)' = Budget(a) - 1
    BY <1>t, <2>1, <2>2 DEF Budget
  <2>6. StepsLeft(a)' = 2 * Budget(a)' + StepsFrom[phase'[a]]
    BY <1>6 DEF StepsLeft
  <2> QED BY <1>1, <1>3, <1>t, <2>4, <2>5, <2>6, BudgetType
<1> QED BY <1>4, <1>5, <1>6

(* The safety half of EveryoneEnds: a request or a probe has a bounded     *)
(* number of steps left, each of its own is one of them, nothing that      *)
(* others, the database or the clock do adds any, and nobody who waits for *)
(* a connection keeps one from others (session.py lines 17-42).            *)
THEOREM ActorsOnlyAdvance ==
  Spec => /\ []NoHoldAndWait
          /\ [](\A a \in Actors : StepsLeft(a) \in 0..2 * (MaxCalls + MaxCommits) + 3)
          /\ [][\A a \in Actors : Untouched(a) \/ StepsLeft(a)' < StepsLeft(a)]_vars
<1>1. Inv => NoHoldAndWait
  <2> SUFFICES ASSUME Inv, NEW a \in Actors, phase[a] = "waiting"
               PROVE  /\ a \notin held
                      /\ Cardinality(held) = Limit =>
                           \E b \in held : phase[b] \in {"working", "calling"}
    BY DEF NoHoldAndWait
  <2>1. a \notin held /\ \A b \in held : phase[b] \in {"working", "calling"}
    BY DEF Inv, NothingLeaks
  <2>2. Cardinality(held) = Limit => held # {}
    BY FS_EmptySet, PoolAssumption
  <2> QED BY <2>1, <2>2
<1>2. Inv => \A a \in Actors : StepsLeft(a) \in 0..2 * (MaxCalls + MaxCommits) + 3
  BY StepsAreLeft DEF Inv
<1>3. Inv /\ Inv' /\ [Next]_vars => [\A a \in Actors : Untouched(a) \/ StepsLeft(a)' < StepsLeft(a)]_vars
  <2> SUFFICES ASSUME Inv, Inv', Next
               PROVE  \A a \in Actors : Untouched(a) \/ StepsLeft(a)' < StepsLeft(a)
    OBVIOUS
  <2>1. ASSUME NEW r \in Requests, Serve(r)
        PROVE  \A a \in Actors : Untouched(a) \/ StepsLeft(a)' < StepsLeft(a)
    BY <2>1, StepsFall DEF Serve, Actors
  <2>2. ASSUME NEW p \in Probes, Probe(p)
        PROVE  \A a \in Actors : Untouched(a) \/ StepsLeft(a)' < StepsLeft(a)
    BY <2>2, StepsFall DEF Probe, Actors
  <2>3. CASE UNCHANGED <<phase, held, calls, commits>>
    BY <2>3 DEF Untouched
  <2> QED BY <2>1, <2>2, <2>3 DEF Next, Outage, Recover, Tick, Finished, vars
<1> QED BY <1>1, <1>2, <1>3, Invariance, PTL DEF Spec
=============================================================================
