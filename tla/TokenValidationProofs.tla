------------------------ MODULE TokenValidationProofs ------------------------
(***************************************************************************)
(* Theorems about TokenValidation, for any tokens, requests, keys and      *)
(* rotations.  A request's steps are those of EntraKeys, whose theorems    *)
(* therefore hold here too.                                                *)
(***************************************************************************)
EXTENDS TokenValidation, EntraKeysProofs

(* A token has the parts of one. *)
LEMMA Carried ==
  ASSUME NEW r \in Requests, NEW t \in Carries[r] \ {None}
  PROVE  t \in Tokens /\ t \in Token
BY TokensAssumption

LEMMA StepOfKeys == [ValidationNext]_allVars => [Next]_vars
<1> SUFFICES ASSUME [ValidationNext]_allVars PROVE [Next]_vars
  OBVIOUS
<1>1. ASSUME NEW r \in Requests, Arrive(r) PROVE Next
  <2>1. PICK t \in Carries[r] \ {None} : t.kid # None /\ Look(r, t.kid)
    BY <1>1 DEF Arrive
  <2>2. t.kid \in Kids
    BY <2>1, Carried DEF Token
  <2> QED BY <2>1, <2>2 DEF Next, Proceed
<1>2. ASSUME NEW r \in Requests, Reject(r) \/ GoOn(r) PROVE Next
  BY <1>2 DEF Reject, GoOn, Next, Proceed
<1>3. CASE Elsewhere
  BY <1>3 DEF Elsewhere, Next
<1>4. CASE ValidationFinished \/ UNCHANGED allVars
  BY <1>4 DEF ValidationFinished, Finished, allVars
<1> QED BY <1>1, <1>2, <1>3, <1>4 DEF ValidationNext, Serve

(* The requests of TokenValidation keep to EntraKeys. *)
THEOREM ValidationKeepsToKeys == ValidationSpec => Spec
<1>1. ValidationInit => Init
  BY DEF ValidationInit
<1> QED BY <1>1, StepOfKeys, PTL DEF ValidationSpec, Spec

(* What is proved of the key cache therefore holds while tokens are        *)
(* validated: one refresh at a time, shared by those who meet an expired   *)
(* cache, an end of trust, and no refusal of a key that was not asked for. *)
THEOREM KeysKeepTheirPromises ==
  ValidationSpec => /\ [](OneRefresh /\ RefusedAfterRefresh /\ HeadGoesOn)
                    /\ TrustEnds
                    /\ ExpiryRefreshesOnce
<1>1. Spec => [](OneRefresh /\ RefusedAfterRefresh /\ HeadGoesOn)
  BY RefreshesAreSerial, RefusalsAreHeard, RequestsOnlyAdvance, PTL
<1> QED BY <1>1, ValidationKeepsToKeys, WithdrawnKeysEnd, RefreshIsShared
-----------------------------------------------------------------------------
LEMMA Judged == ASSUME NEW r, NEW t PROVE Judge(r, t) \in Verdicts \ {"none", "UNAVAILABLE"}
BY DEF Judge, Verdicts, Told

(* What a step of one request's look for its key leaves behind. *)
LEMMA Looked ==
  ASSUME ValidationTypeOK, TypeOK', NEW r \in Requests, NEW t \in Tokens,
         t.kid # None, Look(r, t.kid),
         token' = [token EXCEPT ![r] = t], Conclude(r), UNCHANGED lastHidden
  PROVE  ValidationTypeOK'
<1>1. /\ phase[r] = "new" /\ now' = now /\ kid' = [kid EXCEPT ![r] = t.kid]
      /\ \/ /\ phase' = [phase EXCEPT ![r] = "done"]
            /\ outcome' = [outcome EXCEPT ![r] = "key"]
         \/ /\ phase' = [phase EXCEPT ![r] = "fetching"] \/ phase' = [phase EXCEPT ![r] = "waiting"]
            /\ outcome' = outcome
  BY DEF Look, End
<1>2. now \in Nat /\ outcome[r] = "none"
  BY <1>1, KeysAssumption DEF ValidationTypeOK, TypeOK
<1>3. verdict' = [verdict EXCEPT ![r] = IF outcome'[r] = "key" THEN Judge(r, token'[r]) ELSE outcome'[r]]
      /\ arrived' = [arrived EXCEPT ![r] = IF phase'[r] = "done" THEN 0 ELSE now]
  BY <1>1 DEF Conclude, Since
<1>4. outcome'[r] \in {"none", "key"} /\ (outcome'[r] = "key" <=> phase'[r] = "done")
  BY <1>1, <1>2 DEF ValidationTypeOK, TypeOK
<1>5. verdict' \in [Requests -> Verdicts] /\ (phase'[r] = "done" <=> verdict'[r] # "none")
  BY <1>3, <1>4, Judged DEF ValidationTypeOK, Verdicts
<1>6. arrived' \in [Requests -> 0..now]
  BY <1>2, <1>3 DEF ValidationTypeOK
<1>7. token' \in [Requests -> Tokens \cup {None}] /\ token'[r] = t /\ t # None
  BY TokensAssumption DEF ValidationTypeOK
<1>8. ASSUME NEW q \in Requests
      PROVE  /\ phase'[q] = "done" <=> verdict'[q] # "none"
             /\ phase'[q] # "done" => outcome'[q] = "none"
             /\ phase'[q] \in {"waiting", "fetching"} =>
                  kid'[q] # None /\ token'[q] # None /\ token'[q].kid = kid'[q]
  <2>1. CASE q = r
    BY <1>1, <1>4, <1>5, <1>7, <2>1 DEF ValidationTypeOK, TypeOK
  <2>2. CASE q # r
    BY <1>1, <1>3, <2>2 DEF ValidationTypeOK, TypeOK
  <2> QED BY <2>1, <2>2
<1> QED BY <1>1, <1>5, <1>6, <1>7, <1>8 DEF ValidationTypeOK

(* What a step of a request that waits or fetches does with it. *)
LEMMA WentOn ==
  ASSUME TypeOK, NEW r \in Requests, GoOn(r)
  PROVE  /\ phase[r] \in {"waiting", "fetching"}
         /\ now' = now /\ kid' = kid /\ token' = token /\ lastHidden' = lastHidden
         /\ \/ /\ phase' = [phase EXCEPT ![r] = "done"]
               /\ \E how \in {"key", "INVALID_TOKEN", "UNAVAILABLE"} :
                    outcome' = [outcome EXCEPT ![r] = how]
            \/ /\ phase' = phase \/ phase' = [phase EXCEPT ![r] = "fetching"]
               /\ outcome' = outcome
BY DEF GoOn, ResumeUsing, ResumeFetching, Answer, Store, FetchFails, LookUp, End

LEMMA ValidationTypeNext == ValidationTypeOK /\ [ValidationNext]_allVars => ValidationTypeOK'
<1> SUFFICES ASSUME ValidationTypeOK, [ValidationNext]_allVars PROVE ValidationTypeOK'
  OBVIOUS
<1>t. TypeOK /\ TypeOK'
  BY StepOfKeys, TypeNext DEF ValidationTypeOK
<1>1. ASSUME NEW r \in Requests, Arrive(r) PROVE ValidationTypeOK'
  <2>1. PICK t \in Carries[r] \ {None} :
          t.kid # None /\ Look(r, t.kid) /\ token' = [token EXCEPT ![r] = t]
    BY <1>1 DEF Arrive
  <2>2. t \in Tokens /\ Conclude(r) /\ UNCHANGED lastHidden
    BY <1>1, Carried DEF Arrive
  <2> QED BY <2>1, <2>2, <1>t, Looked
<1>2. ASSUME NEW r \in Requests, Reject(r) PROVE ValidationTypeOK'
  <2>1. PICK t \in Carries[r] : /\ token' = [token EXCEPT ![r] = t]
                                /\ \/ verdict' = [verdict EXCEPT ![r] = "AUTHENTICATION_REQUIRED"]
                                   \/ verdict' = [verdict EXCEPT ![r] = "INVALID_TOKEN"]
    BY <1>2 DEF Reject
  <2>2. t \in Tokens \cup {None}
    BY TokensAssumption
  <2>3. phase' = [phase EXCEPT ![r] = "done"] /\ UNCHANGED <<now, kid, outcome, arrived, lastHidden>>
    BY <1>2 DEF Reject, Leave
  <2>4. token' \in [Requests -> Tokens \cup {None}] /\ verdict' \in [Requests -> Verdicts]
    BY <2>1, <2>2 DEF ValidationTypeOK, Verdicts
  <2>5. ASSUME NEW q \in Requests
        PROVE  /\ phase'[q] = "done" <=> verdict'[q] # "none"
               /\ phase'[q] # "done" => outcome'[q] = "none"
               /\ phase'[q] \in {"waiting", "fetching"} =>
                    kid'[q] # None /\ token'[q] # None /\ token'[q].kid = kid'[q]
    <3>1. CASE q = r
      BY <2>1, <2>3, <3>1, <1>t DEF ValidationTypeOK, TypeOK
    <3>2. CASE q # r
      BY <2>1, <2>3, <3>2, <1>t DEF ValidationTypeOK, TypeOK
    <3> QED BY <3>1, <3>2
  <2> QED BY <2>3, <2>4, <2>5, <1>t DEF ValidationTypeOK
<1>3. ASSUME NEW r \in Requests, GoOn(r) PROVE ValidationTypeOK'
  <2>1. /\ phase[r] \in {"waiting", "fetching"} /\ now' = now /\ kid' = kid /\ token' = token
        /\ lastHidden' = lastHidden
        /\ \/ /\ phase' = [phase EXCEPT ![r] = "done"]
              /\ \E how \in {"key", "INVALID_TOKEN", "UNAVAILABLE"} :
                   outcome' = [outcome EXCEPT ![r] = how]
           \/ /\ phase' = phase \/ phase' = [phase EXCEPT ![r] = "fetching"]
              /\ outcome' = outcome
    BY <1>3, <1>t, WentOn
  <2>2. /\ verdict' = [verdict EXCEPT ![r] = IF outcome'[r] = "key" THEN Judge(r, token'[r]) ELSE outcome'[r]]
        /\ arrived' = [arrived EXCEPT ![r] = IF phase'[r] = "done" THEN 0 ELSE arrived[r]]
    BY <1>3, <2>1 DEF GoOn, Conclude, Since
  <2>3. now \in Nat /\ outcome[r] = "none"
    BY <2>1, KeysAssumption DEF ValidationTypeOK, TypeOK
  <2>4. /\ outcome'[r] \in {"none", "key", "INVALID_TOKEN", "UNAVAILABLE"}
        /\ outcome'[r] = "none" <=> phase'[r] # "done"
    BY <2>1, <2>3, <1>t DEF TypeOK
  <2>5. verdict' \in [Requests -> Verdicts] /\ (phase'[r] = "done" <=> verdict'[r] # "none")
    BY <2>2, <2>4, Judged DEF ValidationTypeOK, Verdicts
  <2>6. arrived' \in [Requests -> 0..now]
    BY <2>2, <2>3 DEF ValidationTypeOK
  <2>7. ASSUME NEW q \in Requests
        PROVE  /\ phase'[q] = "done" <=> verdict'[q] # "none"
               /\ phase'[q] # "done" => outcome'[q] = "none"
               /\ phase'[q] \in {"waiting", "fetching"} =>
                    kid'[q] # None /\ token'[q] # None /\ token'[q].kid = kid'[q]
    <3>1. CASE q = r
      BY <2>1, <2>4, <2>5, <3>1 DEF ValidationTypeOK
    <3>2. CASE q # r
      BY <2>1, <2>2, <3>2, <1>t DEF ValidationTypeOK, TypeOK
    <3> QED BY <3>1, <3>2
  <2> QED BY <1>t, <2>1, <2>5, <2>6, <2>7 DEF ValidationTypeOK
<1>4. CASE Elsewhere
  <2>1. now' \in {now, now + 1} /\ UNCHANGED <<phase, kid, outcome, token, verdict, arrived>>
    BY <1>4 DEF Elsewhere, Rotate, Tick
  <2>2. now \in Nat /\ now' \in Nat
    BY <1>t, KeysAssumption DEF TypeOK
  <2>3. arrived' \in [Requests -> 0..now']
    BY <2>1, <2>2 DEF ValidationTypeOK
  <2>4. lastHidden' \in [Kids -> Int]
    BY <1>4, <2>2 DEF Elsewhere, ValidationTypeOK
  <2> QED BY <1>t, <2>1, <2>3, <2>4 DEF ValidationTypeOK
<1>5. CASE ValidationFinished \/ UNCHANGED allVars
  BY <1>5, <1>t DEF ValidationFinished, Finished, allVars, tvars, vars, ValidationTypeOK
<1> QED BY <1>1, <1>2, <1>3, <1>4, <1>5 DEF ValidationNext, Serve

(* The types, and that a request is judged when its look for the key ends, *)
(* for any constants.                                                      *)
THEOREM ValidationTypesHold == ValidationSpec => []ValidationTypeOK
<1>1. ValidationInit => ValidationTypeOK
  <2> SUFFICES ASSUME ValidationInit PROVE ValidationTypeOK
    OBVIOUS
  <2>1. TypeOK
    BY KeysAssumption DEF ValidationInit, Init, TypeOK
  <2> QED BY <2>1, KeysAssumption DEF ValidationInit, Init, ValidationTypeOK, Verdicts
<1> QED BY <1>1, ValidationTypeNext, PTL DEF ValidationSpec
-----------------------------------------------------------------------------
(* Who gives a request its verdict. *)
LEMMA VerdictOfOne ==
  ASSUME ValidationTypeOK, [ValidationNext]_allVars, NEW r \in Requests, verdict'[r] # verdict[r]
  PROVE  Reject(r) \/ Arrive(r) \/ GoOn(r)
<1>1. ASSUME NEW q \in Requests, Serve(q), q # r PROVE verdict'[r] = verdict[r]
  BY <1>1 DEF Serve, Reject, Arrive, GoOn, Conclude, ValidationTypeOK
<1> QED
  BY <1>1 DEF ValidationNext, Serve, Elsewhere, ValidationFinished, allVars, tvars

(* A verdict other than on the way to it comes of the key, or of its lack. *)
LEMMA VerdictOfKey ==
  ASSUME ValidationTypeOK, ValidationTypeOK', NEW r \in Requests, verdict'[r] # verdict[r],
         Arrive(r) \/ GoOn(r)
  PROVE  /\ outcome[r] = "none" /\ outcome'[r] \in {"key", "INVALID_TOKEN", "UNAVAILABLE"}
         /\ verdict'[r] = IF outcome'[r] = "key" THEN Judge(r, token'[r]) ELSE outcome'[r]
         /\ token'[r] # None /\ token'[r].kid = kid'[r] /\ kid'[r] \in Kids /\ now' = now
         /\ Since(r) \in 0..now
<1>s. now \in Nat
  BY KeysAssumption DEF ValidationTypeOK, TypeOK
<1>1. verdict'[r] = IF outcome'[r] = "key" THEN Judge(r, token'[r]) ELSE outcome'[r]
  BY DEF Arrive, GoOn, Conclude, ValidationTypeOK
<1>2. CASE Arrive(r)
  <2>1. PICK t \in Carries[r] \ {None} :
          t.kid # None /\ Look(r, t.kid) /\ token' = [token EXCEPT ![r] = t]
    BY <1>2 DEF Arrive
  <2>2. t \in Tokens /\ t # None /\ t.kid \in Kids
    BY <2>1, Carried DEF Token
  <2>3. token'[r] = t /\ kid'[r] = t.kid /\ phase[r] = "new" /\ now' = now
    BY <2>1 DEF Look, ValidationTypeOK, TypeOK
  <2>4. outcome[r] = "none" /\ outcome'[r] \in {"none", "key"}
    BY <2>1, <2>3 DEF Look, End, ValidationTypeOK, TypeOK
  <2>5. outcome'[r] # "none"
    BY <1>1, <2>3 DEF ValidationTypeOK
  <2> QED BY <1>1, <1>s, <2>2, <2>3, <2>4, <2>5 DEF Since
<1>3. CASE GoOn(r)
  <2>1. phase[r] \in {"waiting", "fetching"} /\ now' = now /\ kid' = kid /\ token' = token
    BY <1>3, WentOn DEF ValidationTypeOK
  <2>2. outcome[r] = "none" /\ kid[r] \in Kids /\ token[r] # None /\ token[r].kid = kid[r]
    BY <2>1 DEF ValidationTypeOK, TypeOK
  <2>3. outcome'[r] \in {"none", "key", "INVALID_TOKEN", "UNAVAILABLE"}
    BY <1>3, <2>2, WentOn DEF ValidationTypeOK, TypeOK
  <2>4. outcome'[r] # "none"
    BY <1>1, <2>1 DEF ValidationTypeOK
  <2> QED BY <1>1, <2>1, <2>2, <2>3, <2>4 DEF Since, ValidationTypeOK
<1> QED BY <1>2, <1>3

(* What a judgement says of the token. *)
LEMMA JudgedGenuine ==
  ASSUME NEW r, NEW t \in Token, t.kid # None, now \in Nat
  PROVE  /\ Judge(r, t) \in Told => Genuine(t, now)
         /\ Judge(r, t) = "ADMITTED" => t.flaws = {}
         /\ Judge(r, t) = "INVALID_TOKEN" => ~Genuine(t, now) \/ "oid" \in t.flaws
<1> USE TokensAssumption
<1>1. t.from \in Int /\ t.exp \in Int /\ t.flaws \subseteq Flaws
  BY DEF Token
<1>2. now - Leeway < t.exp /\ t.from <= now + Leeway <=> t.from - Leeway <= now /\ now < t.exp + Leeway
  BY <1>1
<1>3. Genuine(t, now) <=> Decodes(r, t) /\ {"tenant", "version"} \cap t.flaws = {}
  BY <1>2 DEF Genuine, Decodes
<1>4. Judge(r, t) \in Told => Genuine(t, now)
  BY <1>3 DEF Judge, Told
<1>5. ASSUME Judge(r, t) = "ADMITTED" PROVE t.flaws = {}
  <2>1. /\ {"issuer", "audience", "missing"} \cap t.flaws = {} /\ {"tenant", "version"} \cap t.flaws = {}
        /\ "client" \notin t.flaws /\ "scope" \notin t.flaws
        /\ "oid" \notin t.flaws /\ "role" \notin t.flaws
    BY <1>5 DEF Judge, Decodes
  <2> QED BY <1>1, <2>1 DEF Flaws
<1>6. Judge(r, t) = "INVALID_TOKEN" => ~Genuine(t, now) \/ "oid" \in t.flaws
  BY <1>3 DEF Judge
<1> QED BY <1>4, <1>5, <1>6

(* Only genuine tokens get more than a 401, by a key Entra published       *)
(* lately, however long the request waited.                                *)
THEOREM TheToldAreGenuine == ValidationSpec => OnlyTheGenuineAreTold
<1> DEFINE Fair(r) == verdict'[r] \in Told /\ verdict[r] # verdict'[r] =>
             /\ token'[r] # None /\ Genuine(token'[r], now)
             /\ lastPublished[token'[r].kid] + CacheLife + FetchTime > now
             /\ verdict'[r] = "ADMITTED" => token'[r].flaws = {}
           Trusted == \A r \in Requests : outcome'[r] = "key" /\ outcome[r] # "key" =>
             lastPublished[kid'[r]] + CacheLife + FetchTime > now
<1>1. ASSUME ValidationTypeOK, ValidationTypeOK', [ValidationNext]_allVars, [Trusted]_vars,
             NEW r \in Requests
      PROVE  Fair(r)
  <2> SUFFICES ASSUME verdict'[r] \in Told, verdict[r] # verdict'[r]
               PROVE  /\ token'[r] # None /\ Genuine(token'[r], now)
                      /\ lastPublished[token'[r].kid] + CacheLife + FetchTime > now
                      /\ verdict'[r] = "ADMITTED" => token'[r].flaws = {}
    OBVIOUS
  <2>1. ~Reject(r)
    <3> SUFFICES ASSUME Reject(r) PROVE FALSE
      OBVIOUS
    <3>1. \/ verdict' = [verdict EXCEPT ![r] = "AUTHENTICATION_REQUIRED"]
          \/ verdict' = [verdict EXCEPT ![r] = "INVALID_TOKEN"]
      BY DEF Reject
    <3>2. verdict'[r] \in {"AUTHENTICATION_REQUIRED", "INVALID_TOKEN"}
      BY <1>1, <3>1 DEF ValidationTypeOK
    <3> QED BY <3>2 DEF Told
  <2>2. Arrive(r) \/ GoOn(r)
    BY <1>1, <2>1, VerdictOfOne
  <2>3. /\ outcome[r] = "none" /\ outcome'[r] \in {"key", "INVALID_TOKEN", "UNAVAILABLE"}
        /\ verdict'[r] = IF outcome'[r] = "key" THEN Judge(r, token'[r]) ELSE outcome'[r]
        /\ token'[r] # None /\ token'[r].kid = kid'[r] /\ kid'[r] \in Kids /\ now' = now
    BY <1>1, <2>2, VerdictOfKey
  <2>4. outcome'[r] = "key" /\ verdict'[r] = Judge(r, token'[r])
    BY <2>3 DEF Told
  <2>5. lastPublished[kid'[r]] + CacheLife + FetchTime > now
    BY <1>1, <2>3, <2>4 DEF vars
  <2>6. token'[r] \in Token /\ token'[r].kid # None /\ now \in Nat
    BY <1>1, <2>3, TokensAssumption, KeysAssumption DEF ValidationTypeOK, TypeOK
  <2> QED BY <2>3, <2>4, <2>5, <2>6, JudgedGenuine
<1>2. ValidationTypeOK /\ ValidationTypeOK' /\ [ValidationNext]_allVars /\ [Trusted]_vars =>
        [\A r \in Requests : Fair(r)]_allVars
  BY <1>1
<1>3. ValidationSpec => [][Trusted]_vars
  BY ValidationKeepsToKeys, WithdrawnKeysEnd, PTL DEF TrustEnds
<1> QED BY <1>2, <1>3, ValidationTypesHold, PTL DEF ValidationSpec, OnlyTheGenuineAreTold
-----------------------------------------------------------------------------
(* What is not in an answer of Entra, or in the cache of those that wait   *)
(* for one, was not published when that answer was made.                   *)
Hidden ==
  /\ \A k \in Kids \ published : lastHidden[k] >= now
  /\ answer # None => \A k \in Kids \ answer : lastHidden[k] >= answeredAt
  /\ \A r \in Requests : phase[r] = "waiting" /\ ~force[r] =>
       Expired \/ \A k \in Kids \ keys : lastHidden[k] >= arrived[r] - FetchTime

(* What is fetched for one request is new enough for all that wait.        *)
LEMMA FetchedInTime ==
  ASSUME ValidationTypeOK, Dated, Hidden, answer # None, NEW r \in Requests,
         NEW k \in Kids \ answer
  PROVE  lastHidden[k] >= now - FetchTime /\ lastHidden[k] >= arrived[r] - FetchTime
<1>1. lastHidden[k] >= answeredAt /\ now <= answeredAt + FetchTime
  BY DEF Hidden, Dated
<1>2. now \in Nat /\ answeredAt \in Nat /\ lastHidden[k] \in Int /\ arrived[r] \in 0..now
  BY KeysAssumption DEF ValidationTypeOK, TypeOK
<1> QED BY <1>1, <1>2, KeysAssumption

LEMMA HiddenNext ==
  ValidationTypeOK /\ Dated /\ Hidden /\ [ValidationNext]_allVars => Hidden'
<1> SUFFICES ASSUME ValidationTypeOK, Dated, Hidden, [ValidationNext]_allVars PROVE Hidden'
  OBVIOUS
<1>t. /\ TypeOK /\ now \in Nat /\ expiresAt \in Nat /\ answeredAt \in Nat
      /\ lastHidden \in [Kids -> Int]
  BY KeysAssumption DEF ValidationTypeOK, TypeOK
<1>1. ASSUME NEW r \in Requests, Arrive(r) PROVE Hidden'
  <2>1. PICK t \in Carries[r] \ {None} : t.kid # None /\ Look(r, t.kid)
    BY <1>1 DEF Arrive
  <2>2. /\ UNCHANGED <<now, keys, expiresAt, answer, published, answeredAt, lastHidden>>
        /\ \A q \in Requests : q # r => arrived'[q] = arrived[q] /\ phase'[q] = phase[q] /\ force'[q] = force[q]
    BY <1>1, <2>1, <1>t DEF Arrive, Conclude, Look, End, cache, entra, ValidationTypeOK, TypeOK
  <2>3. phase'[r] = "waiting" /\ ~force'[r] => Expired
    BY <2>1, <1>t DEF Look, End, TypeOK
  <2> QED BY <2>2, <2>3 DEF Hidden, Expired
<1>2. ASSUME NEW r \in Requests, Reject(r) PROVE Hidden'
  <2>1. /\ UNCHANGED <<now, keys, expiresAt, answer, published, answeredAt, lastHidden, force, arrived>>
        /\ phase' = [phase EXCEPT ![r] = "done"]
    BY <1>2 DEF Reject, Leave, cache, entra
  <2> QED BY <2>1, <1>t DEF Hidden, Expired, TypeOK
<1>3. ASSUME NEW r \in Requests, GoOn(r), ~Store(r), ~Answer(r) PROVE Hidden'
  <2>1. /\ UNCHANGED <<now, keys, expiresAt, published, answeredAt, lastHidden, force>>
        /\ answer' \in {answer, None}
    BY <1>3 DEF GoOn, ResumeUsing, ResumeFetching, FetchFails, cache, entra
  <2>2. \A q \in Requests : phase'[q] = "waiting" => phase[q] = "waiting" /\ arrived'[q] = arrived[q]
    BY <1>3, <1>t, WentOn DEF GoOn, Conclude, Since, ValidationTypeOK, TypeOK
  <2> QED BY <2>1, <2>2 DEF Hidden, Expired
<1>4. ASSUME NEW r \in Requests, GoOn(r), Answer(r) PROVE Hidden'
  <2>1. /\ UNCHANGED <<now, keys, expiresAt, published, lastHidden, force, phase>>
        /\ answer' = published /\ answeredAt' = now
    BY <1>4 DEF GoOn, Answer, cache, entra
  <2>2. \A q \in Requests : phase[q] = "waiting" => arrived'[q] = arrived[q]
    BY <1>4, <2>1 DEF GoOn, Conclude, Since, Answer, ValidationTypeOK
  <2> QED BY <2>1, <2>2 DEF Hidden, Expired
<1>5. ASSUME NEW r \in Requests, GoOn(r), Store(r) PROVE Hidden'
  <2>1. /\ UNCHANGED <<now, published, answeredAt, lastHidden, force>>
        /\ answer # None /\ keys' = answer /\ answer' = None
    BY <1>5 DEF GoOn, Store, entra
  <2>2. \A q \in Requests : phase'[q] = "waiting" => arrived'[q] = arrived[q]
    BY <1>5, <1>t, WentOn DEF GoOn, Conclude, Since, ValidationTypeOK, TypeOK
  <2>3. \A q \in Requests : \A k \in Kids \ answer : lastHidden[k] >= arrived[q] - FetchTime
    BY <2>1, FetchedInTime
  <2> QED BY <2>1, <2>2, <2>3 DEF Hidden
<1>6. CASE Elsewhere
  <2>1. /\ now' \in {now, now + 1} /\ published' \in SUBSET Kids
        /\ UNCHANGED <<keys, expiresAt, answer, answeredAt, phase, force, arrived>>
        /\ lastHidden' = [k \in Kids |-> IF k \in published' THEN lastHidden[k] ELSE now']
    BY <1>6, <1>t DEF Elsewhere, Rotate, Tick, cache, entra, TypeOK
  <2>2. Expired => Expired'
    BY <2>1, <1>t DEF Expired
  <2>3. \A k \in Kids \ published' : lastHidden'[k] >= now'
    BY <2>1, <1>t
  <2>4. \A k \in Kids : lastHidden'[k] >= lastHidden[k] \/ lastHidden'[k] = now'
    BY <2>1, <1>t
  <2>5. answer # None => \A k \in Kids \ answer : lastHidden'[k] >= answeredAt
    <3>1. answeredAt <= now'
      BY <2>1, <1>t DEF TypeOK
    <3> QED BY <2>1, <3>1, <1>t DEF Hidden
  <2>6. \A r \in Requests : \A k \in Kids :
          lastHidden[k] >= arrived[r] - FetchTime => lastHidden'[k] >= arrived[r] - FetchTime
    <3>1. \A r \in Requests : arrived[r] \in Nat /\ arrived[r] <= now
      BY <1>t DEF ValidationTypeOK
    <3> QED BY <2>1, <3>1, <1>t, KeysAssumption
  <2> QED BY <2>1, <2>2, <2>3, <2>5, <2>6 DEF Hidden
<1>7. CASE ValidationFinished \/ UNCHANGED allVars
  BY <1>7 DEF ValidationFinished, Finished, allVars, tvars, vars, cache, entra, Hidden, Expired
<1> QED BY <1>1, <1>2, <1>3, <1>4, <1>5, <1>6, <1>7 DEF ValidationNext, Serve

(* A good token whose key has been published since an answer's delay       *)
(* before its request is never refused as invalid, whatever the others'    *)
(* refreshes bring or fail to bring.                                       *)
THEOREM GoodTokensAreHeard == ValidationSpec => GoodTokensPass
<1> DEFINE Passes(r) ==
             /\ verdict'[r] = "INVALID_TOKEN" /\ verdict[r] # verdict'[r]
             /\ Genuine(token'[r], now) /\ "oid" \notin token'[r].flaws
             => lastHidden[token'[r].kid] >= Since(r) - FetchTime
<1>1. ASSUME ValidationTypeOK, ValidationTypeOK', Dated, Hidden, [ValidationNext]_allVars,
             NEW r \in Requests
      PROVE  Passes(r)
  <2> SUFFICES ASSUME verdict'[r] = "INVALID_TOKEN", verdict[r] # verdict'[r],
                      Genuine(token'[r], now), "oid" \notin token'[r].flaws
               PROVE  lastHidden[token'[r].kid] >= Since(r) - FetchTime
    OBVIOUS
  <2>1. ~Reject(r)
    <3> SUFFICES ASSUME Reject(r) PROVE FALSE
      OBVIOUS
    <3>1. PICK t \in Carries[r] :
            /\ \/ t = None /\ verdict' = [verdict EXCEPT ![r] = "AUTHENTICATION_REQUIRED"]
               \/ t # None /\ t.kid = None
            /\ token' = [token EXCEPT ![r] = t]
      BY DEF Reject
    <3>2. token'[r] = t
      BY <1>1, <3>1 DEF ValidationTypeOK
    <3>3. t.kid = None
      BY <1>1, <3>1 DEF ValidationTypeOK
    <3> QED BY <3>2, <3>3 DEF Genuine
  <2>2. Arrive(r) \/ GoOn(r)
    BY <1>1, <2>1, VerdictOfOne
  <2>3. /\ outcome[r] = "none" /\ outcome'[r] \in {"key", "INVALID_TOKEN", "UNAVAILABLE"}
        /\ verdict'[r] = IF outcome'[r] = "key" THEN Judge(r, token'[r]) ELSE outcome'[r]
        /\ token'[r] # None /\ token'[r].kid = kid'[r] /\ kid'[r] \in Kids /\ now' = now
        /\ Since(r) \in 0..now
    BY <1>1, <2>2, VerdictOfKey
  <2>4. token'[r] \in Token /\ token'[r].kid # None /\ now \in Nat
    BY <1>1, <2>3, TokensAssumption, KeysAssumption DEF ValidationTypeOK, TypeOK
  <2>5. outcome'[r] = "INVALID_TOKEN"
    <3>1. CASE outcome'[r] = "key"
      BY <2>3, <2>4, <3>1, JudgedGenuine
    <3> QED BY <2>3, <3>1
  <2>6. ~Arrive(r)
    <3> SUFFICES ASSUME Arrive(r) PROVE FALSE
      OBVIOUS
    <3>1. outcome'[r] \in {"none", "key"}
      BY <1>1, <2>3 DEF Arrive, Look, End, ValidationTypeOK, TypeOK
    <3> QED BY <2>5, <3>1
  <2>7. GoOn(r) /\ Since(r) = arrived[r] /\ kid' = kid
    BY <1>1, <2>2, <2>6, WentOn DEF Since, ValidationTypeOK
  <2>8. CASE ResumeUsing(r)
    BY <1>1, <2>3, <2>5, <2>7, <2>8 DEF ResumeUsing, LookUp, End, Hidden, ValidationTypeOK, TypeOK
  <2>9. CASE Store(r)
    <3>1. answer # None /\ kid[r] \in Kids \ answer
      BY <1>1, <2>3, <2>5, <2>7, <2>9 DEF Store, LookUp, End, ValidationTypeOK, TypeOK
    <3> QED BY <1>1, <2>3, <2>7, <3>1, FetchedInTime
  <2>10. CASE ResumeFetching(r) \/ Answer(r) \/ FetchFails(r)
    BY <1>1, <2>3, <2>5, <2>10 DEF ResumeFetching, Answer, FetchFails, End, ValidationTypeOK, TypeOK
  <2> QED BY <2>7, <2>8, <2>9, <2>10 DEF GoOn
<1>2. ValidationTypeOK /\ ValidationTypeOK' /\ Dated /\ Hidden /\ [ValidationNext]_allVars =>
        [\A r \in Requests : Passes(r)]_allVars
  BY <1>1
<1>3. ValidationInit => Hidden
  BY KeysAssumption DEF ValidationInit, Init, Hidden
<1>4. ValidationSpec => [](TypeOK /\ Dated)
  BY ValidationKeepsToKeys, DatedAlways, PTL
<1> QED
  BY <1>2, <1>3, <1>4, HiddenNext, ValidationTypesHold, PTL DEF ValidationSpec, GoodTokensPass
=============================================================================
