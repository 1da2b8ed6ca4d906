-------------------------- MODULE D365TokenService --------------------------
(***************************************************************************)
(* The token service of one backend process: a cached app-only token, and  *)
(* an asyncio.Lock around its acquisition.  A coroutine runs from one      *)
(* await to the next in one step: get_access_token suspends where it waits *)
(* for the lock and where it waits for the thread that runs MSAL.          *)
(*                                                                         *)
(* The actions take the caller that performs them and constrain only the   *)
(* variables of this module; D365Client composes them with its own.        *)
(* Time is counted in minutes.                                             *)
(***************************************************************************)
EXTENDS Integers, Sequences, FiniteSetsExt

CONSTANTS
  Calls,      \* the coroutines that use the service
  Skew,       \* _REFRESH_SKEW_SECONDS
  MinLife,    \* the least expires_in the service believes
  Lifetimes,  \* how long the tokens live that Entra issues
  MaxTime,    \* bound: the last minute
  MaxIssued,  \* bound: the number of tokens Entra issues
  None

ASSUME TokenAssumption ==
  /\ Skew \in Nat \ {0} /\ MinLife \in Nat /\ MinLife <= Skew
  /\ Lifetimes \subseteq Nat
  /\ MaxTime \in Nat /\ MaxIssued \in Nat
  /\ None \notin Calls \cup Nat
  /\ None \notin [value : Nat, expires : Int]

VARIABLES
  now,     \* the clock
  token,   \* self._token, or None
  holder,  \* the coroutine that has self._lock, or is next to run with it
  queue,   \* the coroutines that wait for it, first come, first served
  phase,   \* where each coroutine is in get_access_token
  forced,  \* its force_refresh
  since,   \* the time read by the one that acquires
  msal,    \* the token in MSAL's own cache, or None
  expiry   \* when each token issued so far expires, as Entra knows it

service == <<token, holder, queue, phase, forced, since, msal, expiry>>

Token == [value : 1..MaxIssued, expires : Nat]

ServiceTypeOK ==
  /\ now \in 0..MaxTime
  /\ token \in Token \cup {None}
  /\ holder \in Calls \cup {None}
  /\ queue \in Seq(Calls)
  /\ phase \in [Calls -> {"out", "queued", "acquiring"}]
  /\ forced \in [Calls -> BOOLEAN]
  /\ since \in 0..now
  /\ msal \in Token \cup {None}
  /\ expiry \in Seq(Nat) /\ Len(expiry) <= MaxIssued

ServiceInit ==
  /\ now = 0
  /\ token = None
  /\ holder = None /\ queue = <<>>
  /\ phase = [c \in Calls |-> "out"]
  /\ forced = [c \in Calls |-> FALSE]
  /\ since = 0
  /\ msal = None
  /\ expiry = <<>>

(* Fault: the skew is counted on the wrong side. *)
Fresh_Late(t) == t # None /\ t.expires + Skew > now

(* The cached token may be used: it is not within the skew of its end. *)
Fresh(t) == t # None /\ t.expires - Skew > now

(* get_access_token up to where it first suspends, called when the cached  *)
(* token is t.  Without a suspension it has returned t.value.              *)
Reuse(force, t) == ~force /\ Fresh(t)

(* Fault: the lock is not taken. *)
Ask_Unlocked(c, force, t) ==
  /\ phase[c] = "out"
  /\ token' = t
  /\ forced' = [forced EXCEPT ![c] = force]
  /\ IF Reuse(force, t)
     THEN UNCHANGED <<holder, phase, since>>
     ELSE /\ holder' = c
          /\ phase' = [phase EXCEPT ![c] = "acquiring"]
          /\ since' = now
  /\ UNCHANGED <<queue, msal, expiry>>

Ask(c, force, t) ==
  /\ phase[c] = "out"
  /\ token' = t
  /\ forced' = [forced EXCEPT ![c] = force]
  /\ \/ /\ Reuse(force, t)
        /\ UNCHANGED <<holder, queue, phase, since>>
     \/ /\ ~Reuse(force, t)
        /\ holder = None
        /\ holder' = c
        /\ phase' = [phase EXCEPT ![c] = "acquiring"]
        /\ since' = now
        /\ UNCHANGED queue
     \/ /\ ~Reuse(force, t)
        /\ holder # None
        /\ queue' = Append(queue, c)
        /\ phase' = [phase EXCEPT ![c] = "queued"]
        /\ UNCHANGED <<holder, since>>
  /\ UNCHANGED <<msal, expiry>>

(* Leaving the lock wakes the first waiter, before whom nobody gets it. *)
Release(c) ==
  /\ phase' = [phase EXCEPT ![c] = "out"]
  /\ holder' = IF queue = <<>> THEN None ELSE Head(queue)
  /\ queue' = IF queue = <<>> THEN <<>> ELSE Tail(queue)

(* The second look at the cached token, under the lock. *)
ResumeReusing(c) ==
  /\ phase[c] = "queued" /\ holder = c
  /\ Reuse(forced[c], token)
  /\ Release(c)
  /\ UNCHANGED <<token, forced, since, msal, expiry>>

(* Fault: a waiter that gets the lock acquires without a second look. *)
ResumeAcquiring_Blind(c) ==
  /\ phase[c] = "queued" /\ holder = c
  /\ phase' = [phase EXCEPT ![c] = "acquiring"]
  /\ since' = now
  /\ UNCHANGED <<token, holder, queue, forced, msal, expiry>>

ResumeAcquiring(c) ==
  /\ phase[c] = "queued" /\ holder = c
  /\ ~Reuse(forced[c], token)
  /\ phase' = [phase EXCEPT ![c] = "acquiring"]
  /\ since' = now
  /\ UNCHANGED <<token, holder, queue, forced, msal, expiry>>

(* acquire_token_for_client of MSAL, which is given scopes and nothing     *)
(* else: it may answer from its cache while that token has five minutes    *)
(* left.  It asks Entra when it has none, and may ask before, when the     *)
(* token came with an advice to; an error is no answer to that.            *)
MsalHit == msal # None /\ msal.expires - now >= Skew

Issued(life) == [value |-> Len(expiry) + 1, expires |-> now + life]

(* The result t of MSAL is cached; its life is counted from when the lock  *)
(* was taken and never taken for less than a minute.  Entra names a life   *)
(* with every token, so the default of 3600 s never comes to bear.         *)
Keep(t) ==
  token' = [value |-> t.value, expires |-> since + Max({t.expires - now, MinLife})]

ObtainCached(c) ==
  /\ phase[c] = "acquiring"
  /\ MsalHit
  /\ Keep(msal)
  /\ Release(c)
  /\ UNCHANGED <<forced, since, msal, expiry>>

ObtainNew(c) ==
  /\ phase[c] = "acquiring"
  /\ Len(expiry) < MaxIssued
  /\ \E life \in Lifetimes :
       /\ expiry' = Append(expiry, now + life)
       /\ msal' = Issued(life)
       /\ Keep(Issued(life))
  /\ Release(c)
  /\ UNCHANGED <<forced, since>>

(* Fault: a result without an access token is cached like any other. *)
Fail_Cached(c) ==
  /\ phase[c] = "acquiring"
  /\ ~MsalHit
  /\ token' = [value |-> None, expires |-> since + MinLife]
  /\ Release(c)
  /\ UNCHANGED <<forced, since, msal, expiry>>

(* Fault: an error leaves the lock behind. *)
Fail_KeepsLock(c) ==
  /\ phase[c] = "acquiring"
  /\ ~MsalHit
  /\ phase' = [phase EXCEPT ![c] = "out"]
  /\ UNCHANGED <<token, holder, queue, forced, since, msal, expiry>>

(* MSAL reports an error, or raises: the lock is left on the way out. *)
Fail(c) ==
  /\ phase[c] = "acquiring"
  /\ ~MsalHit
  /\ Release(c)
  /\ UNCHANGED <<token, forced, since, msal, expiry>>

Tick ==
  /\ now < MaxTime
  /\ now' = now + 1
  /\ UNCHANGED service
-----------------------------------------------------------------------------
(* Properties of the service.                                              *)

(* At most one coroutine acquires a token, it has the lock, and a waiter   *)
(* always has someone before it who will leave the lock: no wake-up is     *)
(* lost and none is given twice (token_service.py line 57).                *)
SingleFlight ==
  /\ \A c \in Calls : phase[c] = "acquiring" => holder = c
  /\ \A c \in Calls : phase[c] = "queued" =>
       holder = c \/ (holder # None /\ \E i \in 1..Len(queue) : queue[i] = c)
  /\ holder # None => phase[holder] # "out"
  /\ \A i \in 1..Len(queue) :
       /\ phase[queue[i]] = "queued" /\ queue[i] # holder
       /\ \A j \in 1..Len(queue) : queue[i] = queue[j] => i = j
  /\ holder = None => queue = <<>>

(* A cached token that may be used without asking anybody outlives the     *)
(* skew by Entra's own reckoning, however long the acquisition took and    *)
(* however short a life Entra gave it (lines 58, 82, 83).                  *)
FreshMeansValid == Fresh(token) => expiry[token.value] - Skew > now

(* Nobody asks MSAL while a token that may be used is cached, unless D365  *)
(* has rejected one of its own: whoever waited for the lock takes what the *)
(* one before it brought (lines 57-64).                                    *)
NoNeedlessAcquisition ==
  [][\A c \in Calls :
       phase[c] # "acquiring" /\ phase'[c] = "acquiring" =>
         forced'[c] \/ ~(token' # None /\ token'.expires - Skew > now)]_<<now, service>>
=============================================================================
