-------------------------- MODULE EntraKeysProofs ---------------------------
(***************************************************************************)
(* Proofs about EntraKeys, for any number of concurrent requests, any keys *)
(* and rotations and any cache life.                                       *)
(***************************************************************************)
EXTENDS EntraKeys, TLAPS

LEMMA LineShrinks == ASSUME NEW r, HasLock(r), line \in Seq(Requests)
                     PROVE  Tail(line) \in Seq(Requests)
  BY DEF HasLock

LEMMA LineGrows == ASSUME NEW r \in Requests, line \in Seq(Requests)
                   PROVE  Append(line, r) \in Seq(Requests)
  OBVIOUS

LEMMA TypeNext == TypeOK /\ [Next]_vars => TypeOK'
<1> SUFFICES ASSUME TypeOK, [Next]_vars PROVE TypeOK'
  OBVIOUS
<1> USE KeysAssumption
<1>1. ASSUME NEW r \in Requests, NEW k \in Kids, Look(r, k) PROVE TypeOK'
  <2>1. Append(line, r) \in Seq(Requests)
    BY LineGrows DEF TypeOK
  <2>2. line' \in Seq(Requests)
    BY <1>1, <2>1 DEF Look, TypeOK
  <2> QED BY <1>1, <2>2 DEF Look, End, TypeOK, cache, entra
<1>2. ASSUME NEW r \in Requests, ResumeUsing(r) PROVE TypeOK'
  <2>1. line' \in Seq(Requests)
    BY <1>2, LineShrinks DEF ResumeUsing, TypeOK
  <2> QED BY <1>2, <2>1 DEF ResumeUsing, LookUp, End, TypeOK, cache, entra
<1>3. ASSUME NEW r \in Requests, ResumeFetching(r) PROVE TypeOK'
  BY <1>3 DEF ResumeFetching, TypeOK, cache, entra
<1>4. ASSUME NEW r \in Requests, Answer(r) PROVE TypeOK'
  BY <1>4 DEF Answer, TypeOK, cache, entra
<1>5. ASSUME NEW r \in Requests, Store(r) PROVE TypeOK'
  <2>1. line' \in Seq(Requests)
    BY <1>5, LineShrinks DEF Store, TypeOK
  <2>2. consulted' \in SUBSET Requests
    BY <1>5 DEF Store, Unnamed, TypeOK
  <2>3. expiresAt' \in 0..now' + CacheLife /\ answeredAt' \in 0..now'
    BY <1>5 DEF Store, TypeOK
  <2> QED BY <1>5, <2>1, <2>2, <2>3 DEF Store, LookUp, End, TypeOK, entra
<1>6. ASSUME NEW r \in Requests, FetchFails(r) PROVE TypeOK'
  <2>1. line' \in Seq(Requests)
    BY <1>6, LineShrinks DEF FetchFails, TypeOK
  <2> QED BY <1>6, <2>1 DEF FetchFails, End, TypeOK, cache, entra
<1>7. CASE Rotate
  BY <1>7 DEF Rotate, TypeOK, cache
<1>8. CASE Tick
  BY <1>8 DEF Tick, TypeOK, cache, entra
<1>9. CASE UNCHANGED vars
  BY <1>9 DEF TypeOK, vars, cache, entra
<1>10. ASSUME NEW r \in Requests, Leave(r) PROVE TypeOK'
  BY <1>10 DEF Leave, TypeOK, cache, entra
<1> QED BY <1>1, <1>2, <1>3, <1>4, <1>5, <1>6, <1>7, <1>8, <1>9, <1>10 DEF Next, Proceed, Finished

(* Every variable has its type, for any constants. *)
THEOREM TypesHold == Spec => []TypeOK
<1>1. Init => TypeOK
  BY KeysAssumption DEF Init, TypeOK
<1> QED BY <1>1, TypeNext, PTL DEF Spec
-----------------------------------------------------------------------------
(* How old the keys are that the cache or an answer under way names: a key *)
(* was published when Entra answered, and an answer is stored in time.     *)
Dated ==
  /\ \A k \in Kids : lastPublished[k] <= now
  /\ \A k \in published : lastPublished[k] >= now
  /\ answer # None =>
       /\ now <= answeredAt + FetchTime
       /\ \A k \in answer : lastPublished[k] >= answeredAt
  /\ \A k \in keys : lastPublished[k] + FetchTime + CacheLife >= expiresAt

(* Time and rotations only make the dates of publication later. *)
LEMMA DatedKept ==
  ASSUME TypeOK, Dated, UNCHANGED <<keys, expiresAt, answer, answeredAt>>,
         now' \in Nat, published' \in SUBSET Kids,
         \A k \in published' : lastPublished'[k] = now',
         \A k \in Kids : lastPublished'[k] >= lastPublished[k] /\ lastPublished'[k] <= now'
                         /\ lastPublished'[k] \in Int /\ lastPublished[k] \in Int,
         answer # None => now' <= answeredAt + FetchTime
  PROVE  Dated'
<1>1. \A k \in published' : lastPublished'[k] >= now'
  OBVIOUS
<1>2. \A k \in keys : lastPublished'[k] + FetchTime + CacheLife >= expiresAt
  BY KeysAssumption DEF TypeOK, Dated
<1>3. answer # None => \A k \in answer : lastPublished'[k] >= answeredAt
  BY DEF TypeOK, Dated
<1> QED BY <1>1, <1>2, <1>3 DEF Dated

LEMMA DatedNext == TypeOK /\ Dated /\ [Next]_vars => Dated'
<1> SUFFICES ASSUME TypeOK, Dated, [Next]_vars PROVE Dated'
  OBVIOUS
<1> USE KeysAssumption
<1>1. ASSUME NEW r \in Requests, FetchFails(r) PROVE Dated'
  BY <1>1 DEF FetchFails, Dated, cache, entra
<1>2. ASSUME NEW r \in Requests, Answer(r) PROVE Dated'
  BY <1>2 DEF Answer, Dated, TypeOK, cache, entra
<1>3. ASSUME NEW r \in Requests, Store(r) PROVE Dated'
  <2>1. /\ keys' = answer /\ expiresAt' = now + CacheLife /\ answer' = None
        /\ UNCHANGED <<now, lastPublished, entra>>
    BY <1>3 DEF Store
  <2>2. ASSUME NEW k \in answer PROVE lastPublished[k] + FetchTime >= now
    <3>1. now <= answeredAt + FetchTime /\ lastPublished[k] >= answeredAt
      BY <1>3 DEF Store, Dated
    <3>2. now \in Nat /\ answeredAt \in Nat /\ lastPublished[k] \in Int
      BY <1>3 DEF Store, TypeOK
    <3> QED BY <3>1, <3>2
  <2>3. ASSUME NEW k \in keys' PROVE lastPublished'[k] + FetchTime + CacheLife >= expiresAt'
    <3>1. k \in answer /\ lastPublished[k] \in Int /\ now \in Nat
      BY <1>3, <2>1, <2>3 DEF Store, TypeOK
    <3> QED BY <2>1, <2>2, <3>1
  <2> QED BY <2>1, <2>3 DEF Dated, entra
<1>4. CASE Rotate
  <2>1. /\ lastPublished' = [k \in Kids |-> IF k \in published' THEN now ELSE lastPublished[k]]
        /\ published' \in SUBSET Kids /\ UNCHANGED <<now, keys, expiresAt, answer, answeredAt>>
    BY <1>4 DEF Rotate, cache
  <2>2. \A k \in published' : lastPublished'[k] = now
    BY <2>1
  <2>3. \A k \in Kids : lastPublished'[k] >= lastPublished[k] /\ lastPublished'[k] <= now
                        /\ lastPublished'[k] \in Int /\ lastPublished[k] \in Int
    BY <2>1 DEF TypeOK, Dated
  <2>4. now' \in Nat /\ (answer # None => now' <= answeredAt + FetchTime)
    BY <2>1 DEF TypeOK, Dated
  <2> QED BY <2>1, <2>2, <2>3, <2>4, DatedKept
<1>5. CASE Tick
  <2>1. /\ now' = now + 1 /\ (answer # None => now < answeredAt + FetchTime)
        /\ lastPublished' = [k \in Kids |-> IF k \in published THEN now + 1 ELSE lastPublished[k]]
        /\ published' = published /\ UNCHANGED <<keys, expiresAt, answer, answeredAt>>
    BY <1>5 DEF Tick, cache, entra
  <2>2. \A k \in published' : lastPublished'[k] = now'
    BY <2>1 DEF TypeOK
  <2>3. \A k \in Kids : lastPublished'[k] >= lastPublished[k] /\ lastPublished'[k] <= now'
                        /\ lastPublished'[k] \in Int /\ lastPublished[k] \in Int
    BY <2>1 DEF TypeOK, Dated
  <2>4. answer # None => now' <= answeredAt + FetchTime
    BY <2>1 DEF TypeOK
  <2> QED BY <2>1, <2>2, <2>3, <2>4, DatedKept DEF TypeOK
<1>6. CASE UNCHANGED <<now, keys, expiresAt, answer, answeredAt, published, lastPublished>>
  BY <1>6 DEF Dated
<1> QED BY <1>1, <1>2, <1>3, <1>4, <1>5, <1>6 DEF Next, Proceed, Finished, vars, cache, entra,
     Leave, Look, ResumeUsing, ResumeFetching

LEMMA DatedAlways == Spec => [](TypeOK /\ Dated)
<1>1. Init => Dated
  BY KeysAssumption DEF Init, Dated
<1>2. Init => TypeOK
  BY KeysAssumption DEF Init, TypeOK
<1> QED BY <1>1, <1>2, TypeNext, DatedNext, PTL DEF Spec

(* No outage, no interleaving of refreshes and no rotation prolongs the    *)
(* trust in a withdrawn key past the life of the cache.                    *)
THEOREM WithdrawnKeysEnd == Spec => TrustEnds
<1> DEFINE Trusted(r) == outcome'[r] = "key" /\ outcome[r] # "key" =>
             lastPublished[kid'[r]] + CacheLife + FetchTime > now
<1>1. ASSUME TypeOK, Dated, [Next]_vars, NEW r \in Requests PROVE Trusted(r)
  <2>1. ASSUME NEW k \in keys, ~Expired PROVE lastPublished[k] + CacheLife + FetchTime > now
    <3>1. /\ lastPublished[k] \in Int /\ now \in Nat /\ expiresAt \in Nat /\ now < expiresAt
          /\ lastPublished[k] + FetchTime + CacheLife >= expiresAt
      BY <1>1, <2>1, KeysAssumption DEF TypeOK, Dated, Expired
    <3> QED BY <3>1, KeysAssumption
  <2>2. ASSUME NEW k \in Kids, answer # None, k \in answer
        PROVE  lastPublished[k] + CacheLife + FetchTime > now
    <3>1. /\ lastPublished[k] \in Int /\ now \in Nat /\ answeredAt \in Nat
          /\ now <= answeredAt + FetchTime /\ lastPublished[k] >= answeredAt
      BY <1>1, <2>2 DEF TypeOK, Dated
    <3> QED BY <3>1, KeysAssumption
  <2>3. ASSUME NEW q \in Requests, NEW k \in Kids, Look(q, k) PROVE Trusted(r)
    BY <1>1, <2>1, <2>3 DEF Look, End, TypeOK
  <2>4. ASSUME NEW q \in Requests, ResumeUsing(q) PROVE Trusted(r)
    BY <1>1, <2>1, <2>4 DEF ResumeUsing, LookUp, End, TypeOK
  <2>5. ASSUME NEW q \in Requests, Store(q) PROVE Trusted(r)
    <3>1. /\ outcome' = [outcome EXCEPT ![q] = IF kid[q] \in answer THEN "key" ELSE "INVALID_TOKEN"]
          /\ kid' = kid /\ answer # None /\ answer \in SUBSET Kids
      BY <1>1, <2>5 DEF Store, LookUp, End, TypeOK
    <3> QED BY <1>1, <2>2, <3>1 DEF TypeOK
  <2>6. ASSUME NEW q \in Requests, FetchFails(q) PROVE Trusted(r)
    BY <1>1, <2>6 DEF FetchFails, End, TypeOK
  <2>7. CASE UNCHANGED outcome
    BY <2>7
  <2> QED BY <1>1, <2>3, <2>4, <2>5, <2>6, <2>7
          DEF Next, Proceed, Finished, Leave, ResumeFetching, Answer, Rotate, Tick, vars
<1>2. TypeOK /\ Dated /\ [Next]_vars => [\A r \in Requests : Trusted(r)]_vars
  BY <1>1
<1> QED BY <1>2, DatedAlways, PTL DEF Spec, TrustEnds
-----------------------------------------------------------------------------
(* Whoever waits without force met an expired cache.  If it is a live one  *)
(* by now, Entra has been heard in between.                                *)
Heard ==
  /\ RefusedAfterRefresh
  /\ \A r \in Requests : phase[r] = "waiting" /\ ~force[r] =>
       Expired \/ kid[r] \in keys \/ r \in consulted

LEMMA HeardNext == TypeOK /\ Heard /\ [Next]_vars => Heard'
<1> SUFFICES ASSUME TypeOK, Heard, [Next]_vars PROVE Heard'
  OBVIOUS
<1>1. ASSUME NEW q \in Requests, NEW k \in Kids, Look(q, k) PROVE Heard'
  BY <1>1 DEF Look, End, Heard, RefusedAfterRefresh, Expired, TypeOK, cache
<1>2. ASSUME NEW q \in Requests, ResumeUsing(q) PROVE Heard'
  BY <1>2 DEF ResumeUsing, LookUp, End, Heard, RefusedAfterRefresh, Expired, TypeOK, cache
<1>3. ASSUME NEW q \in Requests, ResumeFetching(q) PROVE Heard'
  BY <1>3 DEF ResumeFetching, Heard, RefusedAfterRefresh, Expired, TypeOK, cache
<1>4. ASSUME NEW q \in Requests, Store(q) PROVE Heard'
  <2>1. /\ phase[q] = "fetching" /\ keys' = answer /\ kid' = kid /\ force' = force
        /\ phase' = [phase EXCEPT ![q] = "done"]
        /\ outcome' = [outcome EXCEPT ![q] = IF kid[q] \in answer THEN "key" ELSE "INVALID_TOKEN"]
        /\ consulted' = consulted \cup Unnamed(answer)
    BY <1>4 DEF Store, LookUp, End
  <2>2. RefusedAfterRefresh'
    BY <2>1 DEF Heard, RefusedAfterRefresh, Unnamed, TypeOK
  <2>3. \A r \in Requests : phase'[r] = "waiting" => kid'[r] \in keys' \/ r \in consulted'
    BY <2>1 DEF Unnamed, TypeOK
  <2> QED BY <2>2, <2>3 DEF Heard
<1>5. ASSUME NEW q \in Requests, FetchFails(q) PROVE Heard'
  BY <1>5 DEF FetchFails, End, Heard, RefusedAfterRefresh, Expired, TypeOK, cache
<1>6. CASE Tick
  <2>1. now' = now + 1 /\ now \in Nat /\ expiresAt \in Nat
        /\ UNCHANGED <<keys, expiresAt, phase, kid, force, outcome, consulted>>
    BY <1>6, KeysAssumption DEF Tick, TypeOK, cache
  <2>2. Expired => Expired'
    BY <2>1 DEF Expired
  <2> QED BY <2>1, <2>2 DEF Heard, RefusedAfterRefresh
<1>7. CASE UNCHANGED <<now, keys, expiresAt, phase, kid, force, outcome, consulted>>
  BY <1>7 DEF Heard, RefusedAfterRefresh, Expired
<1>8. ASSUME NEW q \in Requests, Leave(q) PROVE Heard'
  BY <1>8 DEF Leave, Heard, RefusedAfterRefresh, Expired, TypeOK, cache
<1> QED BY <1>1, <1>2, <1>3, <1>4, <1>5, <1>6, <1>7, <1>8
        DEF Next, Proceed, Finished, Answer, Rotate, vars, cache

(* An unknown key is refused only after Entra has been heard about it.     *)
THEOREM RefusalsAreHeard == Spec => []RefusedAfterRefresh
<1>1. Init => Heard
  BY DEF Init, Heard, RefusedAfterRefresh
<1>2. Heard => RefusedAfterRefresh
  BY DEF Heard
<1> QED BY <1>1, <1>2, HeardNext, DatedAlways, PTL DEF Spec
-----------------------------------------------------------------------------
(* The line. *)
LEMMA LeavingKeepsLine ==
  ASSUME TypeOK, OneRefresh, NEW q \in Requests, HasLock(q),
         line' = Tail(line), phase' = [phase EXCEPT ![q] = "done"]
  PROVE  OneRefresh'
<1>1. line \in Seq(Requests) /\ line # <<>> /\ line[1] = q /\ Len(line) \in Nat /\ Len(line) >= 1
  BY DEF TypeOK, HasLock
<1>2. Len(line') = Len(line) - 1 /\ \A i \in 1..Len(line') : line'[i] = line[i + 1]
  BY <1>1
<1>3. phase'[q] = "done" /\ \A r \in Requests : r # q => phase'[r] = phase[r]
  BY DEF TypeOK
<1>4. \A i \in 1..Len(line') : i + 1 \in 1..Len(line) /\ line'[i] = line[i + 1] /\ line'[i] # q
  <2>1. \A i \in 1..Len(line') : i + 1 \in 1..Len(line) /\ i + 1 # 1 /\ 1 \in 1..Len(line)
    BY <1>1, <1>2
  <2> QED BY <1>1, <1>2, <2>1 DEF OneRefresh
<1>5. ASSUME NEW r \in Requests
      PROVE  phase'[r] \in {"waiting", "fetching"} <=> \E i \in 1..Len(line') : line'[i] = r
  <2>1. CASE r = q
    BY <1>3, <1>4, <2>1
  <2>2. ASSUME r # q, NEW i \in 1..Len(line), line[i] = r
        PROVE  \E j \in 1..Len(line') : line'[j] = r
    <3>1. i - 1 \in 1..Len(line') /\ i - 1 + 1 = i
      BY <1>1, <1>2, <2>2
    <3> QED BY <1>2, <2>2, <3>1
  <2>3. CASE r # q
    BY <1>3, <1>4, <2>2, <2>3 DEF OneRefresh
  <2> QED BY <2>1, <2>3
<1>6. ASSUME NEW i \in 1..Len(line'), NEW j \in 1..Len(line'), line'[i] = line'[j] PROVE i = j
  <2>1. i + 1 = j + 1
    BY <1>4, <1>6 DEF OneRefresh
  <2> QED BY <1>1, <1>2, <2>1
<1>7. \A r \in Requests : phase'[r] # "fetching"
  BY <1>3 DEF OneRefresh, HasLock
<1> QED BY <1>5, <1>6, <1>7 DEF OneRefresh

LEMMA OneRefreshNext == TypeOK /\ OneRefresh /\ [Next]_vars => OneRefresh'
<1> SUFFICES ASSUME TypeOK, OneRefresh, [Next]_vars PROVE OneRefresh'
  OBVIOUS
<1>t. phase \in [Requests -> {"new", "waiting", "fetching", "done"}] /\ line \in Seq(Requests)
      /\ Len(line) \in Nat
  BY DEF TypeOK
<1>1. ASSUME NEW q \in Requests, NEW k \in Kids, Look(q, k) PROVE OneRefresh'
  <2>1. phase[q] = "new" /\ \A i \in 1..Len(line) : line[i] # q
    BY <1>1 DEF Look, OneRefresh
  <2>2. CASE line' = line /\ phase' = [phase EXCEPT ![q] = "done"]
    BY <1>t, <2>1, <2>2 DEF OneRefresh, HasLock
  <2>3. CASE /\ line' = Append(line, q)
             /\ phase' = [phase EXCEPT ![q] = IF line = <<>> THEN "fetching" ELSE "waiting"]
    <3>1. /\ Len(line') = Len(line) + 1 /\ line'[Len(line) + 1] = q
          /\ \A i \in 1..Len(line) : line'[i] = line[i]
      BY <1>t, <2>3
    <3>2. ASSUME NEW r \in Requests, phase'[r] = "fetching" PROVE HasLock(r)'
      <4>1. CASE line = <<>>
        BY <1>t, <2>3, <3>2, <4>1 DEF OneRefresh, HasLock
      <4>2. CASE line # <<>>
        <5>1. r # q /\ HasLock(r)
          BY <1>t, <2>3, <3>2, <4>2 DEF OneRefresh
        <5>2. line' # <<>> /\ Head(line') = Head(line)
          BY <1>t, <2>3, <4>2
        <5> QED BY <5>1, <5>2 DEF HasLock
      <4> QED BY <4>1, <4>2
    <3>3. ASSUME NEW r \in Requests
          PROVE  phase'[r] \in {"waiting", "fetching"} <=> \E i \in 1..Len(line') : line'[i] = r
      <4>1. CASE r = q
        <5>1. phase'[q] \in {"waiting", "fetching"}
          BY <1>t, <2>3
        <5>2. Len(line) + 1 \in 1..Len(line')
          BY <1>t, <3>1
        <5> QED BY <3>1, <4>1, <5>1, <5>2
      <4>2. CASE r # q
        <5>1. phase'[r] = phase[r]
          BY <1>t, <2>3, <4>2
        <5>2. (\E i \in 1..Len(line') : line'[i] = r) <=> \E i \in 1..Len(line) : line[i] = r
          BY <1>t, <3>1, <4>2
        <5> QED BY <5>1, <5>2 DEF OneRefresh
      <4> QED BY <4>1, <4>2
    <3>4. \A i, j \in 1..Len(line') : line'[i] = line'[j] => i = j
      BY <1>t, <2>1, <3>1 DEF OneRefresh
    <3> QED BY <3>2, <3>3, <3>4 DEF OneRefresh
  <2> QED BY <1>1, <2>2, <2>3 DEF Look, End
<1>2. ASSUME NEW q \in Requests, ResumeUsing(q) \/ Store(q) \/ FetchFails(q) PROVE OneRefresh'
  BY <1>2, LeavingKeepsLine DEF ResumeUsing, Store, FetchFails, LookUp, End
<1>3. ASSUME NEW q \in Requests, ResumeFetching(q) PROVE OneRefresh'
  BY <1>t, <1>3 DEF ResumeFetching, OneRefresh, HasLock
<1>4. CASE UNCHANGED <<line, phase>>
  BY <1>4 DEF OneRefresh, HasLock
<1>5. ASSUME NEW q \in Requests, Leave(q) PROVE OneRefresh'
  BY <1>t, <1>5 DEF Leave, OneRefresh, HasLock
<1> QED BY <1>1, <1>2, <1>3, <1>4, <1>5
        DEF Next, Proceed, Finished, Answer, Rotate, Tick, vars

(* One refresh at a time, and nobody is lost from the line or twice in it. *)
THEOREM RefreshesAreSerial == Spec => []OneRefresh
<1>1. Init => OneRefresh
  BY DEF Init, OneRefresh
<1> QED BY <1>1, OneRefreshNext, DatedAlways, PTL DEF Spec
-----------------------------------------------------------------------------
(* Entra always publishes something (an answer without a key is refused),  *)
(* so that the cache is empty only before the first answer.                *)
Stocked ==
  /\ published # {} /\ answer # {}
  /\ keys = {} => expiresAt = 0

LEMMA NoneIsNoAnswer == None # {}
  BY {} \in SUBSET Kids, KeysAssumption

LEMMA StockedNext == Stocked /\ [Next]_vars => Stocked'
<1> SUFFICES ASSUME Stocked, [Next]_vars PROVE Stocked'
  OBVIOUS
<1>1. None # {}
  BY NoneIsNoAnswer
<1>2. CASE UNCHANGED <<published, answer, keys, expiresAt>>
  BY <1>2 DEF Stocked
<1>3. ASSUME NEW q \in Requests, Answer(q) PROVE Stocked'
  BY <1>3 DEF Answer, Stocked, cache, entra
<1>4. ASSUME NEW q \in Requests, Store(q) PROVE Stocked'
  BY <1>1, <1>4 DEF Store, Stocked, entra
<1>5. ASSUME NEW q \in Requests, FetchFails(q) PROVE Stocked'
  BY <1>1, <1>5 DEF FetchFails, Stocked, cache, entra
<1>6. CASE Rotate
  BY <1>6 DEF Rotate, Stocked, cache
<1> QED BY <1>2, <1>3, <1>4, <1>5, <1>6
        DEF Next, Proceed, Finished, Leave, Look, ResumeUsing, ResumeFetching, Tick, vars, cache, entra

(* Of the requests that meet an expired cache one refreshes it; the others *)
(* look again when they have the lock, and fetch only if that failed.      *)
THEOREM RefreshIsShared == Spec => ExpiryRefreshesOnce
<1> DEFINE Excused(r) == phase[r] # "fetching" /\ phase'[r] = "fetching" /\ ~force'[r] => Expired
<1>1. ASSUME TypeOK, Stocked, [Next]_vars, NEW r \in Requests PROVE Excused(r)
  <2>1. ASSUME NEW q \in Requests, NEW k \in Kids, Look(q, k) PROVE Excused(r)
    BY <1>1, <2>1 DEF Look, End, TypeOK
  <2>2. ASSUME NEW q \in Requests, ResumeFetching(q) PROVE Excused(r)
    <3>1. keys = {} => Expired
      BY <1>1 DEF Stocked, Expired, TypeOK
    <3> QED BY <1>1, <2>2, <3>1 DEF ResumeFetching, TypeOK
  <2>3. ASSUME NEW q \in Requests, phase' = [phase EXCEPT ![q] = "done"] PROVE Excused(r)
    BY <1>1, <2>3 DEF TypeOK
  <2>4. CASE UNCHANGED phase
    BY <2>4
  <2> QED BY <1>1, <2>1, <2>2, <2>3, <2>4 DEF Next, Proceed, Finished, Leave, ResumeUsing, LookUp,
       End, Answer, Store, FetchFails, Rotate, Tick, vars
<1>2. TypeOK /\ Stocked /\ [Next]_vars => [\A r \in Requests : Excused(r)]_vars
  BY <1>1
<1>3. Init => Stocked
  BY NoneIsNoAnswer DEF Init, Stocked
<1> QED BY <1>2, <1>3, StockedNext, DatedAlways, PTL DEF Spec, ExpiryRefreshesOnce
-----------------------------------------------------------------------------
(* Progress: how many steps a request has left, one of them a fetch.       *)

StepsFrom == [new |-> 4, waiting |-> 3, fetching |-> 2, done |-> 0]

StepsLeft(r) == IF phase[r] = "fetching" /\ answer # None THEN 1 ELSE StepsFrom[phase[r]]

Untouched(r) ==
  /\ UNCHANGED <<phase[r], kid[r], force[r], outcome[r]>>
  /\ phase[r] = "fetching" => answer' = answer

(* An answer is always that of the one who fetches. *)
AnswerIsHis == answer # None => line # <<>> /\ phase[Head(line)] = "fetching"

(* Whoever waits has somebody at the head of the line that has a step of   *)
(* its own there.                                                          *)
HeadGoesOn ==
  \A r \in Requests : phase[r] \in {"waiting", "fetching"} =>
    /\ line # <<>> /\ Head(line) \in Requests
    /\ phase[Head(line)] \in {"waiting", "fetching"}

(* The line is left at its head, by one that ends, and joined at its end.  *)
LineKept ==
  \/ \A i \in 1..Len(line) : i \in 1..Len(line') /\ line'[i] = line[i]
  \/ /\ phase'[line[1]] = "done"
     /\ \A i \in 2..Len(line) : i - 1 \in 1..Len(line') /\ line'[i - 1] = line[i]

LEMMA HeadOfLine ==
  ASSUME TypeOK, OneRefresh, line # <<>>
  PROVE  Head(line) \in Requests /\ phase[Head(line)] \in {"waiting", "fetching"}
<1>1. line[1] \in Requests /\ Head(line) = line[1] /\ 1 \in 1..Len(line)
  BY DEF TypeOK
<1> QED BY <1>1 DEF OneRefresh

LEMMA AnswerNext ==
  ASSUME TypeOK, OneRefresh, AnswerIsHis, [Next]_vars
  PROVE  AnswerIsHis'
<1>t. line \in Seq(Requests) /\ phase \in [Requests -> {"new", "waiting", "fetching", "done"}]
  BY DEF TypeOK
<1>1. ASSUME NEW q \in Requests, NEW k \in Kids, Look(q, k) PROVE AnswerIsHis'
  <2> SUFFICES ASSUME answer # None PROVE line' # <<>> /\ phase'[Head(line')] = "fetching"
    BY <1>1 DEF Look, AnswerIsHis
  <2>1. line # <<>> /\ Head(line) \in Requests /\ phase[Head(line)] = "fetching"
    BY HeadOfLine DEF AnswerIsHis
  <2>2. line' = line \/ line' = Append(line, q)
    BY <1>1 DEF Look
  <2>3. line' # <<>> /\ Head(line') = Head(line)
    BY <2>1, <2>2, <1>t
  <2>4. phase[q] = "new" /\ phase'[Head(line)] = phase[Head(line)]
    BY <1>1, <1>t, <2>1 DEF Look, End
  <2> QED BY <2>1, <2>3, <2>4
<1>2. ASSUME NEW q \in Requests, Store(q) \/ FetchFails(q) PROVE AnswerIsHis'
  BY <1>2 DEF Store, FetchFails, AnswerIsHis
<1>3. ASSUME NEW q \in Requests, Answer(q) PROVE AnswerIsHis'
  BY <1>3 DEF Answer, HasLock, AnswerIsHis
<1>4. ASSUME NEW q \in Requests, ResumeUsing(q) PROVE AnswerIsHis'
  BY <1>4 DEF ResumeUsing, HasLock, AnswerIsHis
<1>5. ASSUME NEW q \in Requests, Leave(q) \/ ResumeFetching(q) PROVE AnswerIsHis'
  BY <1>5, <1>t DEF Leave, ResumeFetching, HasLock, AnswerIsHis
<1>6. CASE UNCHANGED <<answer, line, phase>>
  BY <1>6 DEF AnswerIsHis
<1> QED BY <1>1, <1>2, <1>3, <1>4, <1>5, <1>6 DEF Next, Proceed, Finished, Rotate, Tick, vars

LEMMA AnswerAlways == Spec => []AnswerIsHis
<1>1. Init => AnswerIsHis
  BY DEF Init, AnswerIsHis
<1> QED BY <1>1, AnswerNext, RefreshesAreSerial, DatedAlways, PTL DEF Spec

LEMMA StepsFall ==
  ASSUME TypeOK, OneRefresh, NEW q \in Requests, Proceed(q)
  PROVE  StepsLeft(q)' < StepsLeft(q) /\ \A r \in Requests \ {q} : Untouched(r)
<1>t. /\ phase \in [Requests -> {"new", "waiting", "fetching", "done"}]
      /\ kid \in [Requests -> Kids \cup {None}] /\ force \in [Requests -> BOOLEAN]
      /\ outcome \in [Requests -> {"none", "key", "INVALID_TOKEN", "UNAVAILABLE"}]
  BY DEF TypeOK
<1>0. None \notin SUBSET Kids
  BY KeysAssumption
<1>1. ASSUME NEW r \in Requests \ {q} PROVE Untouched(r)
  <2>1. /\ phase'[r] = phase[r] /\ kid'[r] = kid[r] /\ force'[r] = force[r]
        /\ outcome'[r] = outcome[r]
    BY <1>t DEF Proceed, Leave, Look, ResumeUsing, ResumeFetching, Answer, Store, FetchFails,
       LookUp, End
  <2>2. HasLock(q) /\ phase[q] = "fetching" => phase[r] # "fetching"
    BY DEF OneRefresh, HasLock
  <2>3. answer' = answer \/ (HasLock(q) /\ phase[q] = "fetching")
    BY DEF Proceed, Leave, Look, ResumeUsing, ResumeFetching, Answer, Store, FetchFails
  <2> QED BY <2>1, <2>2, <2>3 DEF Untouched
<1>2. CASE Leave(q) \/ ResumeUsing(q) \/ Store(q) \/ FetchFails(q)
  <2>1. phase[q] # "done" /\ phase'[q] = "done"
    BY <1>2, <1>t DEF Leave, ResumeUsing, Store, FetchFails, LookUp, End
  <2> QED BY <1>1, <2>1, <1>t DEF StepsLeft, StepsFrom
<1>3. ASSUME NEW k \in Kids, Look(q, k) PROVE StepsLeft(q)' < StepsLeft(q)
  <2>1. phase[q] = "new" /\ phase'[q] \in {"waiting", "fetching", "done"}
    BY <1>3, <1>t DEF Look, End
  <2> QED BY <2>1 DEF StepsLeft, StepsFrom
<1>4. CASE ResumeFetching(q)
  <2>1. phase[q] = "waiting" /\ phase'[q] = "fetching"
    BY <1>4, <1>t DEF ResumeFetching
  <2> QED BY <1>1, <2>1 DEF StepsLeft, StepsFrom
<1>5. CASE Answer(q)
  <2>1. phase[q] = "fetching" /\ phase'[q] = "fetching" /\ answer = None /\ answer' # None
    BY <1>5, <1>0 DEF Answer, TypeOK
  <2> QED BY <1>1, <2>1 DEF StepsLeft, StepsFrom
<1> QED BY <1>1, <1>2, <1>3, <1>4, <1>5 DEF Proceed

LEMMA LineKeeps == ASSUME TypeOK, OneRefresh, [Next]_vars PROVE LineKept
<1>t. line \in Seq(Requests) /\ phase \in [Requests -> {"new", "waiting", "fetching", "done"}]
  BY DEF TypeOK
<1>1. CASE line' = line
  BY <1>1, <1>t DEF LineKept
<1>2. ASSUME NEW q \in Requests, line' = Append(line, q) PROVE LineKept
  BY <1>2, <1>t DEF LineKept
<1>3. ASSUME NEW q \in Requests, ResumeUsing(q) \/ Store(q) \/ FetchFails(q) PROVE LineKept
  <2>1. line' = Tail(line) /\ line # <<>> /\ line[1] = q /\ phase'[q] = "done"
    BY <1>3, <1>t DEF ResumeUsing, Store, FetchFails, HasLock, LookUp, End
  <2>2. \A i \in 2..Len(line) : i - 1 \in 1..Len(line') /\ line'[i - 1] = line[i]
    BY <2>1, <1>t
  <2> QED BY <2>1, <2>2 DEF LineKept
<1> QED BY <1>1, <1>2, <1>3
        DEF Next, Proceed, Finished, Leave, Look, ResumeFetching, Answer, Rotate, Tick, vars

(* The safety half of EveryRequestEnds: a request takes four steps at most *)
(* and fetches at most once, nothing that others do sets it back, nobody   *)
(* is overtaken in the line, and whoever waits there has one before it     *)
(* that can go on.  So many requests with keys nobody knows cost as many   *)
(* fetches and no more (service.py lines 94-141).                          *)
THEOREM RequestsOnlyAdvance ==
  Spec => /\ [](AnswerIsHis /\ HeadGoesOn)
          /\ [](\A r \in Requests : StepsLeft(r) \in 0..4)
          /\ [][/\ \A r \in Requests : Untouched(r) \/ StepsLeft(r)' < StepsLeft(r)
                /\ LineKept]_vars
<1>1. TypeOK /\ OneRefresh => HeadGoesOn
  <2> SUFFICES ASSUME TypeOK, OneRefresh, NEW r \in Requests, phase[r] \in {"waiting", "fetching"}
               PROVE  line # <<>>
    BY HeadOfLine DEF HeadGoesOn
  <2>1. PICK i \in 1..Len(line) : line[i] = r
    BY DEF OneRefresh
  <2> QED BY <2>1
<1>2. TypeOK /\ OneRefresh /\ [Next]_vars =>
        [/\ \A r \in Requests : Untouched(r) \/ StepsLeft(r)' < StepsLeft(r)
         /\ LineKept]_vars
  <2> SUFFICES ASSUME TypeOK, OneRefresh, [Next]_vars
               PROVE  /\ \A r \in Requests : Untouched(r) \/ StepsLeft(r)' < StepsLeft(r)
                      /\ LineKept
    OBVIOUS
  <2>1. LineKept
    BY LineKeeps
  <2>2. ASSUME NEW q \in Requests, Proceed(q)
        PROVE  \A r \in Requests : Untouched(r) \/ StepsLeft(r)' < StepsLeft(r)
    BY <2>2, StepsFall
  <2>3. ASSUME UNCHANGED <<phase, kid, force, outcome, answer>>
        PROVE  \A r \in Requests : Untouched(r)
    BY <2>3 DEF Untouched
  <2> QED BY <2>1, <2>2, <2>3 DEF Next, Finished, Rotate, Tick, vars
<1>3. TypeOK => \A r \in Requests : StepsLeft(r) \in 0..4
  BY DEF TypeOK, StepsLeft, StepsFrom
<1> QED BY <1>1, <1>2, <1>3, AnswerAlways, RefreshesAreSerial, DatedAlways, PTL DEF Spec
=============================================================================
