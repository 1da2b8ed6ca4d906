----------------------------- MODULE EntraKeys ------------------------------
(***************************************************************************)
(* The signing-key cache of EntraTokenValidator, of one backend process:   *)
(* _get_key and _refresh_keys, run by concurrent requests under one        *)
(* asyncio.Lock while Entra rotates its keys.  A coroutine runs in one     *)
(* step up to where it waits for the lock or for Entra.  Here a request is *)
(* a key id; TokenValidation has what is checked of a token with the key.  *)
(***************************************************************************)
EXTENDS Integers, Sequences

CONSTANTS
  Requests,
  Kids,          \* key ids, those of Entra and those a token merely claims
  CacheLife,     \* ENTRA_METADATA_CACHE_SECONDS
  FetchTime,     \* how long an answer of Entra may be under way
  MaxTime,       \* bound: the last minute
  MaxRotations,  \* bound: how often Entra changes what it publishes
  None

ASSUME KeysAssumption ==
  /\ CacheLife \in Nat \ {0} /\ FetchTime \in Nat
  /\ MaxTime \in Nat /\ MaxRotations \in Nat
  /\ None \notin Kids /\ \A ks \in SUBSET Kids : ks # None

VARIABLES
  now,            \* the monotonic clock
  keys,           \* the ids in self._keys
  expiresAt,      \* self._expires_at
  line,           \* the requests in or at self._lock; the first one has it
  phase,          \* where each request is
  kid,            \* the key id in its token's header
  force,          \* the argument of its _refresh_keys
  answer,         \* the key ids Entra has answered with, or None
  published,      \* Entra: the keys it publishes
  rotations,      \* Entra: how often that changed
  outcome,        \* of each request
  answeredAt,     \* auxiliary: when Entra answered
  lastPublished,  \* auxiliary: when each key was last published
  consulted       \* auxiliary: requests for whose keys Entra has answered, in
                  \* time and without naming it

cache == <<keys, expiresAt>>
entra == <<published, rotations>>
vars == <<now, cache, line, phase, kid, force, answer, entra, outcome,
          answeredAt, lastPublished, consulted>>

TypeOK ==
  /\ now \in 0..MaxTime
  /\ keys \in SUBSET Kids /\ expiresAt \in 0..now + CacheLife
  /\ line \in Seq(Requests)
  /\ phase \in [Requests -> {"new", "waiting", "fetching", "done"}]
  /\ kid \in [Requests -> Kids \cup {None}]
  /\ force \in [Requests -> BOOLEAN]
  /\ answer = None \/ answer \in SUBSET Kids
  /\ published \in SUBSET Kids /\ rotations \in 0..MaxRotations
  /\ outcome \in [Requests -> {"none", "key", "INVALID_TOKEN", "UNAVAILABLE"}]
  /\ answeredAt \in 0..now
  /\ lastPublished \in [Kids -> Int]
  /\ consulted \in SUBSET Requests

Init ==
  /\ now = 0
  /\ keys = {} /\ expiresAt = 0
  /\ line = <<>>
  /\ phase = [r \in Requests |-> "new"]
  /\ kid = [r \in Requests |-> None]
  /\ force = [r \in Requests |-> FALSE]
  /\ answer = None
  /\ published \in (SUBSET Kids) \ {{}} /\ rotations = 0
  /\ outcome = [r \in Requests |-> "none"]
  /\ answeredAt = 0
  /\ lastPublished = [k \in Kids |-> IF k \in published THEN 0
                                     ELSE -(CacheLife + FetchTime)]
  /\ consulted = {}
-----------------------------------------------------------------------------
Expired == now >= expiresAt

End(r, how) ==
  /\ phase' = [phase EXCEPT ![r] = "done"]
  /\ outcome' = [outcome EXCEPT ![r] = how]

(* self._keys.get(kid) of _get_key, when the cache holds the keys ks. *)
LookUp(r, ks) == End(r, IF kid[r] \in ks THEN "key" ELSE "INVALID_TOKEN")

HasLock(r) == line # <<>> /\ Head(line) = r

(* A request whose token names no key ends before one is looked up. *)
Leave(r) ==
  /\ phase[r] = "new"
  /\ phase' = [phase EXCEPT ![r] = "done"]
  /\ UNCHANGED <<now, cache, line, kid, force, answer, entra, outcome,
                 answeredAt, lastPublished, consulted>>

(* Fault: a refresh does not take the lock. *)
Look_Unlocked(r, k) ==
  /\ phase[r] = "new"
  /\ kid' = [kid EXCEPT ![r] = k]
  /\ IF ~Expired /\ k \in keys
     THEN End(r, "key") /\ UNCHANGED <<line, force>>
     ELSE /\ force' = [force EXCEPT ![r] = ~Expired]
          /\ phase' = [phase EXCEPT ![r] = "fetching"]
          /\ UNCHANGED <<line, outcome>>
  /\ UNCHANGED <<now, cache, answer, entra, answeredAt, lastPublished, consulted>>

(* Fault: an id that is not cached does not force a refresh. *)
Look_Unforced(r, k) ==
  /\ phase[r] = "new"
  /\ kid' = [kid EXCEPT ![r] = k]
  /\ IF ~Expired
     THEN End(r, IF k \in keys THEN "key" ELSE "INVALID_TOKEN") /\ UNCHANGED <<line, force>>
     ELSE /\ line' = Append(line, r)
          /\ force' = [force EXCEPT ![r] = FALSE]
          /\ phase' = [phase EXCEPT ![r] = IF line = <<>> THEN "fetching" ELSE "waiting"]
          /\ UNCHANGED outcome
  /\ UNCHANGED <<now, cache, answer, entra, answeredAt, lastPublished, consulted>>

(* _get_key: the cached key is used while the cache lives.  If not, the    *)
(* lock is asked for, and when it is free the second look inside finds     *)
(* what the first one found.                                               *)
Look(r, k) ==
  /\ phase[r] = "new"
  /\ kid' = [kid EXCEPT ![r] = k]
  /\ \/ /\ ~Expired /\ k \in keys
        /\ End(r, "key")
        /\ UNCHANGED <<line, force>>
     \/ /\ Expired \/ k \notin keys
        /\ force' = [force EXCEPT ![r] = ~Expired]
        /\ line' = Append(line, r)
        /\ phase' = [phase EXCEPT ![r] = IF line = <<>> THEN "fetching" ELSE "waiting"]
        /\ UNCHANGED outcome
  /\ UNCHANGED <<now, cache, answer, entra, answeredAt, lastPublished, consulted>>

(* Fault: the second look is for keys, of whatever age. *)
ResumeUsing_Stale(r) ==
  /\ phase[r] = "waiting" /\ HasLock(r)
  /\ ~force[r] /\ keys # {}
  /\ line' = Tail(line)
  /\ LookUp(r, keys)
  /\ UNCHANGED <<now, cache, kid, force, answer, entra, answeredAt, lastPublished, consulted>>

(* The lock is there and, without force, so are keys by now. *)
ResumeUsing(r) ==
  /\ phase[r] = "waiting" /\ HasLock(r)
  /\ ~force[r] /\ ~Expired /\ keys # {}
  /\ line' = Tail(line)
  /\ LookUp(r, keys)
  /\ UNCHANGED <<now, cache, kid, force, answer, entra, answeredAt, lastPublished, consulted>>

(* Fault: there is no second look. *)
ResumeFetching_Blind(r) ==
  /\ phase[r] = "waiting" /\ HasLock(r)
  /\ phase' = [phase EXCEPT ![r] = "fetching"]
  /\ UNCHANGED <<now, cache, line, kid, force, answer, entra, outcome,
                 answeredAt, lastPublished, consulted>>

ResumeFetching(r) ==
  /\ phase[r] = "waiting" /\ HasLock(r)
  /\ force[r] \/ Expired \/ keys = {}
  /\ phase' = [phase EXCEPT ![r] = "fetching"]
  /\ UNCHANGED <<now, cache, line, kid, force, answer, entra, outcome,
                 answeredAt, lastPublished, consulted>>

(* Entra answers for its keys, which it may change before that arrives. *)
Answer(r) ==
  /\ phase[r] = "fetching" /\ HasLock(r)
  /\ answer = None
  /\ answer' = published
  /\ answeredAt' = now
  /\ UNCHANGED <<now, cache, line, phase, kid, force, entra, outcome,
                 lastPublished, consulted>>

(* Who waits when keys ks arrive, for a key that is not among them. *)
Unnamed(ks) == {r \in Requests : phase[r] \in {"waiting", "fetching"} /\ kid[r] \notin ks}

(* Fault: an answer prolongs the life of what was cached before. *)
Store_Prolong(r) ==
  /\ phase[r] = "fetching" /\ HasLock(r)
  /\ answer # None
  /\ keys' = answer
  /\ expiresAt' = expiresAt + CacheLife
  /\ answer' = None
  /\ consulted' = consulted \cup Unnamed(answer)
  /\ line' = Tail(line)
  /\ LookUp(r, answer)
  /\ UNCHANGED <<now, kid, force, entra, answeredAt, lastPublished>>

(* The answer replaces the cached keys, whose life begins when it is here. *)
Store(r) ==
  /\ phase[r] = "fetching" /\ HasLock(r)
  /\ answer # None
  /\ keys' = answer
  /\ expiresAt' = now + CacheLife
  /\ answer' = None
  /\ consulted' = consulted \cup Unnamed(answer)
  /\ line' = Tail(line)
  /\ LookUp(r, answer)
  /\ UNCHANGED <<now, kid, force, entra, answeredAt, lastPublished>>

(* Fault: the keys cached before are good enough when Entra is away. *)
FetchFails_Stale(r) ==
  /\ phase[r] = "fetching" /\ HasLock(r)
  /\ answer' = None
  /\ line' = Tail(line)
  /\ LookUp(r, keys)
  /\ UNCHANGED <<now, cache, kid, force, entra, answeredAt, lastPublished, consulted>>

(* Fault: an error leaves the lock behind. *)
FetchFails_KeepsLock(r) ==
  /\ phase[r] = "fetching" /\ HasLock(r)
  /\ answer' = None
  /\ End(r, "UNAVAILABLE")
  /\ UNCHANGED <<now, cache, line, kid, force, entra, answeredAt, lastPublished, consulted>>

(* No answer, or one the checks refuse: the request ends with 503 and the  *)
(* cache stays as it is.  A key that PyJWK refuses, or JSON of an odd      *)
(* shape, raises what the code does not catch and ends it with 500: the    *)
(* lock is given back and the cache stays all the same, so it is no case   *)
(* of its own.                                                             *)
FetchFails(r) ==
  /\ phase[r] = "fetching" /\ HasLock(r)
  /\ answer' = None
  /\ line' = Tail(line)
  /\ End(r, "UNAVAILABLE")
  /\ UNCHANGED <<now, cache, kid, force, entra, answeredAt, lastPublished, consulted>>

(* Entra begins or ceases to publish a key. *)
Rotate ==
  /\ rotations < MaxRotations
  /\ published' \in (SUBSET Kids) \ {{}, published}
  /\ rotations' = rotations + 1
  /\ lastPublished' = [k \in Kids |-> IF k \in published' THEN now ELSE lastPublished[k]]
  /\ UNCHANGED <<now, cache, line, phase, kid, force, answer, outcome, answeredAt, consulted>>

Tick ==
  /\ now < MaxTime
  /\ answer # None => now < answeredAt + FetchTime
  /\ now' = now + 1
  /\ lastPublished' = [k \in Kids |-> IF k \in published THEN now + 1 ELSE lastPublished[k]]
  /\ UNCHANGED <<cache, line, phase, kid, force, answer, entra, outcome, answeredAt, consulted>>

Proceed(r) ==
  \/ Leave(r)
  \/ \E k \in Kids : Look(r, k)
  \/ ResumeUsing(r)
  \/ ResumeFetching(r)
  \/ Answer(r)
  \/ Store(r)
  \/ FetchFails(r)

Finished == (\A r \in Requests : phase[r] = "done") /\ UNCHANGED vars

Next ==
  \/ \E r \in Requests : Proceed(r)
  \/ Rotate
  \/ Tick
  \/ Finished

Spec == Init /\ [][Next]_vars

(* The event loop runs every ready coroutine, and httpx gives up a request *)
(* to Entra when its timeouts have passed.                                 *)
FairSpec == Spec /\ \A r \in Requests : WF_vars(Proceed(r))
-----------------------------------------------------------------------------
(* The keys are fetched by one request at a time, and everyone who waits   *)
(* is in the line exactly once (service.py line 104).                      *)
OneRefresh ==
  /\ \A r \in Requests : phase[r] = "fetching" => HasLock(r)
  /\ \A r \in Requests : phase[r] \in {"waiting", "fetching"} <=>
                           \E i \in 1..Len(line) : line[i] = r
  /\ \A i, j \in 1..Len(line) : line[i] = line[j] => i = j

(* A key that Entra has withdrawn vouches for nobody once the cache has    *)
(* had its life, whatever fails, and whoever refreshes meanwhile: no       *)
(* outage of Entra prolongs its trust (lines 95, 105, 131-137).            *)
TrustEnds ==
  [][\A r \in Requests : outcome'[r] = "key" /\ outcome[r] # "key" =>
       lastPublished[kid'[r]] + CacheLife + FetchTime > now]_vars

(* No token is refused for an unknown key on the strength of what was      *)
(* cached before: Entra has been heard meanwhile, and did not name the     *)
(* key (lines 97-105).                                                     *)
RefusedAfterRefresh ==
  \A r \in Requests : outcome[r] = "INVALID_TOKEN" => r \in consulted

(* When the cache has expired the requests that met it refresh it once:    *)
(* those that waited use what the first one brought (lines 105-106).       *)
ExpiryRefreshesOnce ==
  [][\A r \in Requests :
       phase[r] # "fetching" /\ phase'[r] = "fetching" /\ ~force'[r] => Expired]_vars

(* Nobody waits for ever, for the lock or for Entra. *)
EveryRequestEnds == \A r \in Requests : <>(phase[r] = "done")
=============================================================================
