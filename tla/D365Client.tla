----------------------------- MODULE D365Client -----------------------------
(***************************************************************************)
(* D365Client._get: concurrent calls to D365 of one backend process, each  *)
(* with a bounded number of attempts, over the token service they share.   *)
(* How long a call sleeps between two attempts is left out; that others    *)
(* run meanwhile is not.                                                   *)
(***************************************************************************)
EXTENDS D365TokenService

CONSTANTS
  MaxRetries,  \* D365_MAX_RETRIES
  MaxRevoked   \* bound: tokens that D365 stops accepting before their time

ASSUME ClientAssumption == MaxRetries \in Nat /\ MaxRevoked \in Nat

VARIABLES
  at,         \* where each call is
  attempt,    \* its loop variable
  refreshed,  \* authentication_refreshed
  bearer,     \* the token its current request carries, or None
  result,     \* how it ended
  sent,       \* auxiliary: the number of requests it has sent
  rejected,   \* auxiliary: the tokens it was answered 401 for, in order
  revoked     \* D365: the tokens it does not accept any more

call == <<at, attempt, refreshed, bearer, result, sent, rejected>>
vars == <<now, service, call, revoked>>

(* How a call ends: with a response, with a credential that D365 rejected, *)
(* or with any other exception of d365/exceptions.py or of a library.      *)
Results == {"none", "response", "rejected", "failed"}

TypeOK ==
  /\ ServiceTypeOK
  /\ at \in [Calls -> {"ready", "token", "http", "done"}]
  /\ attempt \in [Calls -> 0..MaxRetries]
  /\ refreshed \in [Calls -> BOOLEAN]
  /\ bearer \in [Calls -> (1..MaxIssued) \cup {None}]
  /\ result \in [Calls -> Results]
  /\ sent \in [Calls -> 0..MaxRetries + 1]
  /\ rejected \in [Calls -> Seq(1..MaxIssued)]
  /\ revoked \subseteq 1..MaxIssued

Init ==
  /\ ServiceInit
  /\ at = [c \in Calls |-> "ready"]
  /\ attempt = [c \in Calls |-> 0]
  /\ refreshed = [c \in Calls |-> FALSE]
  /\ bearer = [c \in Calls |-> None]
  /\ result = [c \in Calls |-> "none"]
  /\ sent = [c \in Calls |-> 0]
  /\ rejected = [c \in Calls |-> <<>>]
  /\ revoked = {}
-----------------------------------------------------------------------------
(* The request leaves as soon as there is a token. *)
Send(c, value) ==
  /\ at' = [at EXCEPT ![c] = "http"]
  /\ bearer' = [bearer EXCEPT ![c] = value]
  /\ sent' = [sent EXCEPT ![c] = @ + 1]

AskAndSend(c, force, t) ==
  /\ Ask(c, force, t)
  /\ IF Reuse(force, t)
     THEN Send(c, t.value)
     ELSE at' = [at EXCEPT ![c] = "token"] /\ UNCHANGED <<bearer, sent>>

End(c, how) ==
  /\ at' = [at EXCEPT ![c] = "done"]
  /\ bearer' = [bearer EXCEPT ![c] = None]
  /\ result' = [result EXCEPT ![c] = how]

(* Fault: the token is fetched before the loop and kept for every attempt. *)
Begin_Once(c) ==
  /\ at[c] = "ready"
  /\ IF bearer[c] = None
     THEN AskAndSend(c, FALSE, token)
     ELSE Send(c, bearer[c]) /\ UNCHANGED service
  /\ UNCHANGED <<now, attempt, refreshed, result, rejected, revoked>>

(* An attempt begins, the first one or one after a sleep. *)
Begin(c) ==
  /\ at[c] = "ready"
  /\ AskAndSend(c, FALSE, token)
  /\ UNCHANGED <<now, attempt, refreshed, result, rejected, revoked>>

(* get_access_token goes on: it waits for MSAL, or returns ... *)
WaitForMsal(c) ==
  /\ at[c] = "token"
  /\ ResumeAcquiring(c)
  /\ UNCHANGED <<now, call, revoked>>

GetToken(c) ==
  /\ at[c] = "token"
  /\ ResumeReusing(c) \/ ObtainCached(c) \/ ObtainNew(c)
  /\ Send(c, token'.value)
  /\ UNCHANGED <<now, attempt, refreshed, result, rejected, revoked>>

(* ... or raises, as it is when MSAL raises. *)
GetNoToken(c) ==
  /\ at[c] = "token"
  /\ Fail(c)
  /\ End(c, "failed")
  /\ UNCHANGED <<now, attempt, refreshed, sent, rejected, revoked>>
-----------------------------------------------------------------------------
(* The answer of D365 to a request, or none.                               *)

Accepts(v) == v \notin revoked /\ expiry[v] > now

(* A response; or 403, any other status that is not retried, a body that   *)
(* is no JSON object, or an exception that the loop does not catch.        *)
Conclude(c) ==
  /\ at[c] = "http"
  /\ \/ Accepts(bearer[c]) /\ End(c, "response")
     \/ End(c, "failed")
  /\ UNCHANGED <<now, service, attempt, refreshed, sent, rejected, revoked>>

(* 429; a timeout, a network error or a 5xx: the call sleeps and tries     *)
(* again while it has an attempt left, and raises after that.              *)
BackOff(c) ==
  /\ at[c] = "http"
  /\ \/ /\ attempt[c] < MaxRetries
        /\ at' = [at EXCEPT ![c] = "ready"]
        /\ attempt' = [attempt EXCEPT ![c] = @ + 1]
        /\ UNCHANGED <<bearer, result>>
     \/ /\ attempt[c] = MaxRetries
        /\ End(c, "failed")
        /\ UNCHANGED attempt
  /\ UNCHANGED <<now, service, refreshed, sent, rejected, revoked>>

Note401(c) == rejected' = [rejected EXCEPT ![c] = Append(@, bearer[c])]

(* Fault: the call forgets that it has refreshed. *)
Refresh_Again(c) ==
  /\ at[c] = "http"
  /\ ~Accepts(bearer[c])
  /\ attempt[c] < MaxRetries
  /\ Note401(c)
  /\ AskAndSend(c, TRUE, None)
  /\ attempt' = [attempt EXCEPT ![c] = @ + 1]
  /\ UNCHANGED <<now, refreshed, result, revoked>>

(* The first 401: the cached token is dropped, whichever it is by now, and *)
(* the loop goes on at once, unless it is over.                            *)
Refresh(c) ==
  /\ at[c] = "http"
  /\ ~Accepts(bearer[c])
  /\ ~refreshed[c]
  /\ refreshed' = [refreshed EXCEPT ![c] = TRUE]
  /\ Note401(c)
  /\ \/ /\ attempt[c] < MaxRetries
        /\ AskAndSend(c, TRUE, None)
        /\ attempt' = [attempt EXCEPT ![c] = @ + 1]
        /\ UNCHANGED result
     \/ /\ attempt[c] = MaxRetries
        /\ token' = None
        /\ End(c, "failed")
        /\ UNCHANGED <<attempt, sent, holder, queue, phase, forced, since,
                       msal, expiry>>
  /\ UNCHANGED <<now, revoked>>

(* The second 401 of a call ends it. *)
GiveUp(c) ==
  /\ at[c] = "http"
  /\ ~Accepts(bearer[c])
  /\ refreshed[c]
  /\ Note401(c)
  /\ End(c, "rejected")
  /\ UNCHANGED <<now, service, attempt, refreshed, sent, revoked>>

(* D365 stops accepting a token before it has expired. *)
Revoke ==
  /\ Cardinality(revoked) < MaxRevoked
  /\ \E v \in 1..Len(expiry) : revoked' = revoked \cup {v}
  /\ UNCHANGED <<now, service, call>>
-----------------------------------------------------------------------------
Proceed(c) ==
  \/ Begin(c)
  \/ WaitForMsal(c)
  \/ GetToken(c)
  \/ GetNoToken(c)
  \/ Conclude(c)
  \/ BackOff(c)
  \/ Refresh(c)
  \/ GiveUp(c)

Finished == (\A c \in Calls : at[c] = "done") /\ UNCHANGED vars

Next ==
  \/ \E c \in Calls : Proceed(c)
  \/ Tick /\ UNCHANGED <<call, revoked>>
  \/ Revoke
  \/ Finished

Spec == Init /\ [][Next]_vars

(* The event loop runs every ready coroutine, the thread that runs MSAL    *)
(* ends, and httpx gives up a request when its timeouts have passed.       *)
FairSpec == Spec /\ \A c \in Calls : WF_vars(Proceed(c))
-----------------------------------------------------------------------------
(* Whatever the order of 401s, throttling, errors and outages, and         *)
(* whatever other calls do to the shared token, a call sends one request   *)
(* for each attempt it has and refreshes once (client.py lines 76-100).    *)
BoundedRequests ==
  \A c \in Calls :
    /\ sent[c] <= MaxRetries + 1
    /\ Len(rejected[c]) <= 2
    /\ Len(rejected[c]) = 2 <=> result[c] = "rejected"

(* What a refresh is worth: the token a call is rejected for the second    *)
(* time is never an older one than the first, and the same only if D365    *)
(* stopped accepting it before its time.  For a token that has expired the *)
(* retry always carries another, whichever other calls refreshed meanwhile *)
(* and whatever the two caches hold (client.py lines 84-98,                *)
(* token_service.py lines 57-84).                                          *)
RefreshAdvances ==
  \A c \in Calls : Len(rejected[c]) = 2 =>
    \/ rejected[c][1] < rejected[c][2]
    \/ rejected[c][1] = rejected[c][2] /\ rejected[c][1] \in revoked

(* One refresh for each call, and one that is of use unless the token was  *)
(* revoked (client.py lines 79-100, token_service.py lines 57-84).         *)
OneUsefulRefresh == BoundedRequests /\ RefreshAdvances

(* No call waits for ever, for the lock, for a token or for D365.          *)
EveryCallEnds == \A c \in Calls : <>(at[c] = "done")

(* "one legitimate 401 refresh" (README.md:13), "invalidated once after a  *)
(* D365 401" (SECURITY.md:13): the request after a refresh carries another *)
(* token than the one that D365 has rejected.                              *)
RefreshBringsAnother ==
  \A c \in Calls : Len(rejected[c]) = 2 => rejected[c][1] # rejected[c][2]
-----------------------------------------------------------------------------
(* The service and its calls, seen as the cache that TokenCache describes. *)

Acquiring == {c \in Calls : phase[c] = "acquiring"}
Pending == {c \in Calls : phase[c] # "out"}
Filler == IF Acquiring = {} THEN None ELSE CHOOSE c \in Acquiring : TRUE
Held == [c \in Calls |-> IF at[c] = "http" THEN bearer[c] ELSE None]

Cache == INSTANCE TokenCache WITH
  issued <- Len(expiry), pending <- Pending, filler <- Filler, held <- Held

(* However acquisitions, waits for the lock, failures, 401s and repeated   *)
(* attempts interleave, one call at a time asks Entra, and every request   *)
(* leaves with the newest token issued by then (token_service.py lines     *)
(* 48-84, client.py lines 41-101).                                         *)
ImplementsCache == Cache!Spec
=============================================================================
