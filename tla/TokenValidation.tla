--------------------------- MODULE TokenValidation ---------------------------
(***************************************************************************)
(* What becomes of a caller's access token: get_current_user, validate and *)
(* require_roles, with the signing key from EntraKeys, for which a request *)
(* may have to wait.  The checks after that are one step with the look at  *)
(* the key, there being no await between them.  Of a claim the model has   *)
(* whether it is the right one; a token's flaws are those that are not.    *)
(* The clock of the key cache and that of the claims are one.              *)
(***************************************************************************)
EXTENDS EntraKeys

CONSTANTS
  Tokens,   \* the tokens there are
  Carries,  \* what each request may come with
  Leeway    \* how far the clocks of Entra and of the backend may differ

(* A claim may be "missing" (or null) of those that jwt.decode requires;   *)
(* the flaw "oid" is an object id that is there, but empty or no string.   *)
Flaws == {"issuer", "audience", "missing", "tenant", "version", "client", "scope", "oid", "role"}

(* The key its header names (None: it has no usable header), the key it    *)
(* was signed with (None: none of Entra's), and its times.                 *)
Token == [kid : Kids \cup {None}, signer : Kids \cup {None},
          from : Int, exp : Int, flaws : SUBSET Flaws]

ASSUME TokensAssumption ==
  /\ Tokens \subseteq Token /\ None \notin Tokens
  /\ Carries \in [Requests -> (SUBSET (Tokens \cup {None})) \ {{}}]
  /\ Leeway \in Nat

VARIABLES
  token,      \* what each request came with, None being no credentials
  verdict,    \* what it was told, or that it may go on
  arrived,    \* auxiliary: when it came, while it is waiting
  lastHidden  \* auxiliary: when each key was last not published

tvars == <<token, verdict, arrived, lastHidden>>
allVars == <<vars, tvars>>

Told == {"ADMITTED", "CLIENT_NOT_ALLOWED", "SCOPE_DENIED", "ROLE_DENIED"}

Verdicts == Told \cup {"none", "AUTHENTICATION_REQUIRED", "INVALID_TOKEN", "UNAVAILABLE"}

ValidationTypeOK ==
  /\ TypeOK
  /\ token \in [Requests -> Tokens \cup {None}]
  /\ verdict \in [Requests -> Verdicts]
  /\ arrived \in [Requests -> 0..now]
  /\ lastHidden \in [Kids -> Int]
  /\ \A r \in Requests :
       /\ phase[r] = "done" <=> verdict[r] # "none"
       /\ phase[r] # "done" => outcome[r] = "none"
       /\ phase[r] \in {"waiting", "fetching"} =>
            kid[r] # None /\ token[r] # None /\ token[r].kid = kid[r]

ValidationInit ==
  /\ Init
  /\ token = [r \in Requests |-> None]
  /\ verdict = [r \in Requests |-> "none"]
  /\ arrived = [r \in Requests |-> 0]
  /\ lastHidden = [k \in Kids |-> IF k \in published THEN -(FetchTime + 1) ELSE 0]
-----------------------------------------------------------------------------
(* When a request came that comes in this step or has come before. *)
Since(r) == IF phase[r] = "new" THEN now ELSE arrived[r]

(* Fault: the time that counts is when the request came. *)
Decodes_OnArrival(r, t) ==
  /\ t.signer = t.kid
  /\ Since(r) - Leeway < t.exp /\ t.from <= Since(r) + Leeway
  /\ {"issuer", "audience", "missing"} \cap t.flaws = {}

(* jwt.decode, with the key that the header names. *)
Decodes(r, t) ==
  /\ t.signer = t.kid
  /\ now - Leeway < t.exp /\ t.from <= now + Leeway
  /\ {"issuer", "audience", "missing"} \cap t.flaws = {}

(* The checks of a token in their order, when its key is there. *)
Judge(r, t) ==
  IF ~Decodes(r, t) \/ {"tenant", "version"} \cap t.flaws # {} THEN "INVALID_TOKEN"
  ELSE IF "client" \in t.flaws THEN "CLIENT_NOT_ALLOWED"
  ELSE IF "scope" \in t.flaws THEN "SCOPE_DENIED"
  ELSE IF "oid" \in t.flaws THEN "INVALID_TOKEN"
  ELSE IF "role" \in t.flaws THEN "ROLE_DENIED"
  ELSE "ADMITTED"

(* What a step that may end the look for the key means for the request. *)
Conclude(r) ==
  /\ verdict' = [verdict EXCEPT ![r] =
       IF outcome'[r] = "key" THEN Judge(r, token'[r]) ELSE outcome'[r]]
  /\ arrived' = [arrived EXCEPT ![r] = IF phase'[r] = "done" THEN 0 ELSE Since(r)]

(* No credentials, or a token without a usable header. *)
Reject(r) ==
  /\ Leave(r)
  /\ \E t \in Carries[r] :
       /\ \/ t = None /\ verdict' = [verdict EXCEPT ![r] = "AUTHENTICATION_REQUIRED"]
          \/ t # None /\ t.kid = None /\ verdict' = [verdict EXCEPT ![r] = "INVALID_TOKEN"]
       /\ token' = [token EXCEPT ![r] = t]
  /\ UNCHANGED <<arrived, lastHidden>>

Arrive(r) ==
  /\ \E t \in Carries[r] \ {None} :
       /\ t.kid # None
       /\ Look(r, t.kid)
       /\ token' = [token EXCEPT ![r] = t]
  /\ Conclude(r)
  /\ UNCHANGED lastHidden

GoOn(r) ==
  /\ ResumeUsing(r) \/ ResumeFetching(r) \/ Answer(r) \/ Store(r) \/ FetchFails(r)
  /\ UNCHANGED <<token, lastHidden>>
  /\ Conclude(r)

(* Entra and the clock, with what is noted of them. *)
Elsewhere ==
  /\ Rotate \/ Tick
  /\ lastHidden' = [k \in Kids |-> IF k \in published' THEN lastHidden[k] ELSE now']
  /\ UNCHANGED <<token, verdict, arrived>>

Serve(r) == Reject(r) \/ Arrive(r) \/ GoOn(r)

ValidationFinished == Finished /\ UNCHANGED tvars

ValidationNext == (\E r \in Requests : Serve(r)) \/ Elsewhere \/ ValidationFinished

ValidationSpec == ValidationInit /\ [][ValidationNext]_allVars

(* As in EntraKeys, of whose Proceed every step of Serve is one. *)
FairValidationSpec == ValidationSpec /\ \A r \in Requests : WF_vars(Proceed(r))
-----------------------------------------------------------------------------
(* A whole token of Entra for this tenant and API, at the time given. *)
Genuine(t, time) ==
  /\ t.kid # None /\ t.signer = t.kid
  /\ t.from - Leeway <= time /\ time < t.exp + Leeway
  /\ t.flaws \cap {"issuer", "audience", "missing", "tenant", "version"} = {}

(* Only the bearer of a genuine token is let in, or is told why not; and   *)
(* it is genuine then, though the request may have waited for its key, and *)
(* by a key that Entra published lately.  Who is let in has no flaw at all *)
(* (service.py lines 42-92, dependencies.py lines 32-42).                  *)
OnlyTheGenuineAreTold ==
  [][\A r \in Requests : verdict'[r] \in Told /\ verdict[r] # verdict'[r] =>
       /\ token'[r] # None /\ Genuine(token'[r], now)
       /\ lastPublished[token'[r].kid] + CacheLife + FetchTime > now
       /\ verdict'[r] = "ADMITTED" => token'[r].flaws = {}]_allVars

(* A flawless genuine token is refused as invalid only because of a key    *)
(* that Entra did not publish at some time since an answer's delay before  *)
(* the request came: early returns with keys fetched for others, failures  *)
(* of theirs and expired caches cost nobody a token whose key was there    *)
(* all the time (lines 95-106).                                            *)
GoodTokensPass ==
  [][\A r \in Requests :
       /\ verdict'[r] = "INVALID_TOKEN" /\ verdict[r] # verdict'[r]
       /\ Genuine(token'[r], now) /\ "oid" \notin token'[r].flaws
       => lastHidden[token'[r].kid] >= Since(r) - FetchTime]_allVars
=============================================================================
