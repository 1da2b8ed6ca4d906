----------------------------- MODULE D365Proofs -----------------------------
(***************************************************************************)
(* Proofs about D365Client and the token service under it, for any number  *)
(* of concurrent calls, any skew and token lifetimes and any retry budget. *)
(***************************************************************************)
EXTENDS D365Client, TLAPS

(* CHOOSE gives the greater of two numbers. *)
LEMMA MaxOfTwo ==
  ASSUME NEW x \in Int, NEW y \in Int
  PROVE  Max({x, y}) \in {x, y} /\ Max({x, y}) >= x /\ Max({x, y}) >= y
<1>1. \E m \in {x, y} : \A n \in {x, y} : m >= n
  OBVIOUS
<1> QED BY <1>1 DEF Max
-----------------------------------------------------------------------------
(* Which variables of the service each step of it may change.              *)

LEMMA ReleaseType ==
  ASSUME NEW c \in Calls, Release(c), ServiceTypeOK
  PROVE  /\ holder' \in Calls \cup {None} /\ queue' \in Seq(Calls)
         /\ phase' \in [Calls -> {"out", "queued", "acquiring"}]
  BY DEF Release, ServiceTypeOK

LEMMA KeepType ==
  ASSUME ServiceTypeOK, NEW t \in Token, Keep(t)
  PROVE  /\ token' \in Token
         /\ token'.value = t.value
         /\ token'.expires <= t.expires \/ token'.expires <= now + MinLife
<1> DEFINE d == t.expires - now
<1>1. d \in Int /\ MinLife \in Int /\ MinLife \in Nat /\ since \in Nat /\ now \in Nat /\ since <= now
  BY TokenAssumption DEF ServiceTypeOK, Token
<1>2. Max({d, MinLife}) \in {d, MinLife} /\ Max({d, MinLife}) >= MinLife
  BY <1>1, MaxOfTwo
<1>3. token' = [value |-> t.value, expires |-> since + Max({d, MinLife})]
  BY DEF Keep
<1> QED BY <1>1, <1>2, <1>3 DEF Token

LEMMA AskType ==
  ASSUME ServiceTypeOK, NEW c \in Calls, NEW force \in BOOLEAN,
         NEW t \in Token \cup {None}, Ask(c, force, t), now' = now
  PROVE  ServiceTypeOK'
<1>1. CASE Reuse(force, t)
  <2>1. /\ token' = t /\ forced' = [forced EXCEPT ![c] = force]
        /\ UNCHANGED <<now, holder, queue, phase, since, msal, expiry>>
    BY <1>1 DEF Ask
  <2> QED BY <2>1 DEF ServiceTypeOK
<1>2. CASE ~Reuse(force, t) /\ holder = None
  BY <1>2 DEF ServiceTypeOK, Ask
<1>3. CASE ~Reuse(force, t) /\ holder # None
  <2>1. queue' = Append(queue, c) /\ queue \in Seq(Calls)
    BY <1>3 DEF ServiceTypeOK, Ask
  <2>2. queue' \in Seq(Calls)
    BY <2>1
  <2> QED BY <1>3, <2>2 DEF ServiceTypeOK, Ask
<1> QED BY <1>1, <1>2, <1>3
-----------------------------------------------------------------------------
ServiceStep(c) ==
  \/ ResumeReusing(c) \/ ResumeAcquiring(c) \/ ObtainCached(c) \/ ObtainNew(c) \/ Fail(c)

LEMMA ServiceStepType ==
  ASSUME ServiceTypeOK, NEW c \in Calls, ServiceStep(c), now' = now
  PROVE  ServiceTypeOK'
<1>1. CASE ResumeReusing(c) \/ Fail(c)
  BY <1>1, ReleaseType DEF ServiceTypeOK, ResumeReusing, Fail
<1>2. CASE ResumeAcquiring(c)
  BY <1>2 DEF ServiceTypeOK, ResumeAcquiring
<1>3. CASE ObtainCached(c)
  <2>1. msal \in Token /\ Keep(msal)
    BY <1>3 DEF ObtainCached, MsalHit, ServiceTypeOK
  <2> QED BY <1>3, <2>1, ReleaseType, KeepType DEF ServiceTypeOK, ObtainCached
<1>4. CASE ObtainNew(c)
  <2>1. PICK life \in Lifetimes : /\ expiry' = Append(expiry, now + life)
                                  /\ msal' = Issued(life) /\ Keep(Issued(life))
    BY <1>4 DEF ObtainNew
  <2>2. now + life \in Nat /\ Len(expiry) + 1 \in 1..MaxIssued
    BY <1>4, TokenAssumption DEF ObtainNew, ServiceTypeOK
  <2>3. Issued(life) \in Token
    BY <2>2 DEF Issued, Token
  <2>4. expiry' \in Seq(Nat) /\ Len(expiry') <= MaxIssued
    BY <1>4, <2>1, <2>2, TokenAssumption DEF ServiceTypeOK, ObtainNew
  <2> QED BY <1>4, <2>1, <2>3, <2>4, ReleaseType, KeepType DEF ServiceTypeOK, ObtainNew
<1> QED BY <1>1, <1>2, <1>3, <1>4 DEF ServiceStep

(* A step of the program is, for the service, one of five kinds. *)
Kinds ==
  \/ now' = now /\ \E c \in Calls : \E force \in BOOLEAN : \E t \in {token, None} : Ask(c, force, t)
  \/ now' = now /\ \E c \in Calls : ServiceStep(c)
  \/ UNCHANGED <<now, service>>
  \/ Tick
  \/ /\ token' = None
     /\ UNCHANGED <<now, holder, queue, phase, forced, since, msal, expiry>>

LEMMA StepKinds == [Next]_vars => Kinds
<1> SUFFICES ASSUME [Next]_vars PROVE Kinds
  OBVIOUS
<1>1. ASSUME NEW c \in Calls, Begin(c) PROVE Kinds
  BY <1>1 DEF Kinds, Begin, AskAndSend
<1>2. ASSUME NEW c \in Calls, WaitForMsal(c) \/ GetToken(c) \/ GetNoToken(c) PROVE Kinds
  BY <1>2 DEF Kinds, WaitForMsal, GetToken, GetNoToken, ServiceStep
<1>3. ASSUME NEW c \in Calls, Refresh(c) PROVE Kinds
  BY <1>3 DEF Kinds, Refresh, AskAndSend
<1>4. ASSUME NEW c \in Calls, Conclude(c) \/ BackOff(c) \/ GiveUp(c) PROVE Kinds
  BY <1>4 DEF Kinds, Conclude, BackOff, GiveUp
<1>5. CASE Tick \/ Revoke \/ UNCHANGED vars
  BY <1>5 DEF Kinds, Revoke, vars
<1> QED BY <1>1, <1>2, <1>3, <1>4, <1>5 DEF Next, Proceed, Finished

LEMMA ServiceTypeNext == ServiceTypeOK /\ [Next]_vars => ServiceTypeOK'
<1> SUFFICES ASSUME ServiceTypeOK, [Next]_vars PROVE ServiceTypeOK'
  OBVIOUS
<1>1. ASSUME NEW c \in Calls, NEW force \in BOOLEAN, NEW t \in {token, None},
             Ask(c, force, t), now' = now
      PROVE  ServiceTypeOK'
  <2>1. t \in Token \cup {None}
    BY DEF ServiceTypeOK
  <2> QED BY <1>1, <2>1, AskType
<1>2. ASSUME NEW c \in Calls, ServiceStep(c), now' = now PROVE ServiceTypeOK'
  BY <1>2, ServiceStepType
<1>3. CASE UNCHANGED <<now, service>>
  BY <1>3 DEF ServiceTypeOK, service
<1>4. CASE Tick
  BY <1>4, TokenAssumption DEF ServiceTypeOK, service, Tick
<1>5. CASE token' = None /\ UNCHANGED <<now, holder, queue, phase, forced, since, msal, expiry>>
  BY <1>5 DEF ServiceTypeOK
<1> QED BY StepKinds, <1>1, <1>2, <1>3, <1>4, <1>5 DEF Kinds

LEMMA ServiceTypeAlways == Spec => []ServiceTypeOK
<1>1. Init => ServiceTypeOK
  BY TokenAssumption DEF Init, ServiceInit, ServiceTypeOK
<1> QED BY <1>1, ServiceTypeNext, PTL DEF Spec
-----------------------------------------------------------------------------
(* The lock.                                                               *)

LEMMA ReleaseKeepsFlight ==
  ASSUME ServiceTypeOK, SingleFlight, NEW c \in Calls, holder = c, Release(c)
  PROVE  SingleFlight'
<1>1. phase \in [Calls -> {"out", "queued", "acquiring"}] /\ queue \in Seq(Calls)
      /\ None \notin Calls
  BY TokenAssumption DEF ServiceTypeOK
<1>2. CASE queue = <<>>
  <2>1. holder' = None /\ queue' = <<>> /\ phase' = [phase EXCEPT ![c] = "out"]
    BY <1>2 DEF Release
  <2> QED BY <1>1, <1>2, <2>1 DEF SingleFlight
<1>3. CASE queue # <<>>
  <2>1. /\ holder' = queue[1] /\ phase' = [phase EXCEPT ![c] = "out"]
        /\ queue' = Tail(queue) /\ Len(queue) \in Nat /\ Len(queue) >= 1
    BY <1>1, <1>3 DEF Release
  <2>2. Len(queue') = Len(queue) - 1 /\ \A i \in 1..Len(queue') : queue'[i] = queue[i + 1]
    BY <1>1, <1>3, <2>1
  <2>3. \A i \in 1..Len(queue) : queue[i] \in Calls /\ queue[i] # c /\ phase[queue[i]] = "queued"
    BY <1>1 DEF SingleFlight
  <2>4. \A d \in Calls : phase'[d] = "acquiring" => holder' = d
    BY <1>1, <2>1, <2>3 DEF SingleFlight
  <2>5. ASSUME NEW d \in Calls, phase'[d] = "queued"
        PROVE  holder' = d \/ (holder' # None /\ \E i \in 1..Len(queue') : queue'[i] = d)
    <3>1. d # c /\ phase[d] = "queued"
      BY <1>1, <2>1, <2>5
    <3>2. PICK i \in 1..Len(queue) : queue[i] = d
      BY <3>1 DEF SingleFlight
    <3>3. CASE i = 1
      BY <2>1, <3>2, <3>3
    <3>4. CASE i # 1
      <4>1. i - 1 \in 1..Len(queue') /\ queue'[i - 1] = d
        BY <2>1, <2>2, <3>2, <3>4
      <4>2. holder' # None
        BY <1>1, <2>1, <2>3
      <4> QED BY <4>1, <4>2
    <3> QED BY <3>3, <3>4
  <2>6. holder' # None /\ phase'[holder'] # "out"
    BY <1>1, <2>1, <2>3
  <2>7. ASSUME NEW i \in 1..Len(queue')
        PROVE  /\ phase'[queue'[i]] = "queued" /\ queue'[i] # holder'
               /\ \A j \in 1..Len(queue') : queue'[i] = queue'[j] => i = j
    <3>1. i + 1 \in 1..Len(queue) /\ queue'[i] = queue[i + 1] /\ 1 \in 1..Len(queue)
      BY <2>1, <2>2
    <3>2. queue[i + 1] # queue[1]
      BY <3>1 DEF SingleFlight
    <3>3. \A j \in 1..Len(queue') : j + 1 \in 1..Len(queue) /\ queue'[j] = queue[j + 1]
      BY <2>1, <2>2
    <3>4. \A j \in 1..Len(queue') : queue[i + 1] = queue[j + 1] => i + 1 = j + 1
      BY <3>1, <3>3 DEF SingleFlight
    <3> QED BY <1>1, <2>1, <2>3, <3>1, <3>2, <3>3, <3>4
  <2> QED BY <2>4, <2>5, <2>6, <2>7 DEF SingleFlight
<1> QED BY <1>2, <1>3

LEMMA FlightNext == ServiceTypeOK /\ SingleFlight /\ [Next]_vars => SingleFlight'
<1> SUFFICES ASSUME ServiceTypeOK, SingleFlight, [Next]_vars PROVE SingleFlight'
  OBVIOUS
<1>t. phase \in [Calls -> {"out", "queued", "acquiring"}] /\ queue \in Seq(Calls)
      /\ None \notin Calls
  BY TokenAssumption DEF ServiceTypeOK
<1>1. ASSUME NEW c \in Calls, NEW force \in BOOLEAN, NEW t \in {token, None}, Ask(c, force, t)
      PROVE  SingleFlight'
  <2>1. CASE Reuse(force, t)
    BY <1>1, <2>1 DEF Ask, SingleFlight
  <2>2. CASE ~Reuse(force, t) /\ holder = None
    <3>1. queue = <<>> /\ queue' = <<>> /\ holder' = c
          /\ phase' = [phase EXCEPT ![c] = "acquiring"]
      BY <1>1, <2>2 DEF Ask, SingleFlight
    <3> QED BY <1>t, <2>2, <3>1 DEF SingleFlight
  <2>3. CASE ~Reuse(force, t) /\ holder # None
    <3>1. /\ queue' = Append(queue, c) /\ phase' = [phase EXCEPT ![c] = "queued"]
          /\ holder' = holder /\ phase[c] = "out"
      BY <1>1, <2>3 DEF Ask
    <3>2. /\ Len(queue) \in Nat /\ Len(queue') = Len(queue) + 1
          /\ queue'[Len(queue) + 1] = c /\ \A i \in 1..Len(queue) : queue'[i] = queue[i]
      BY <1>t, <3>1
    <3>3. \A i \in 1..Len(queue) : queue[i] # c /\ queue[i] \in Calls
      BY <1>t, <3>1 DEF SingleFlight
    <3>4. holder # c
      BY <2>3, <3>1 DEF SingleFlight
    <3>5. \A d \in Calls : phase'[d] = "queued" =>
            holder' = d \/ (holder' # None /\ \E i \in 1..Len(queue') : queue'[i] = d)
      BY <1>t, <2>3, <3>1, <3>2 DEF SingleFlight
    <3>6. \A i \in 1..Len(queue') :
            /\ phase'[queue'[i]] = "queued" /\ queue'[i] # holder'
            /\ \A j \in 1..Len(queue') : queue'[i] = queue'[j] => i = j
      BY <1>t, <3>1, <3>2, <3>3, <3>4 DEF SingleFlight
    <3>7. holder' # None /\ phase'[holder'] # "out"
      BY <1>t, <2>3, <3>1, <3>4 DEF SingleFlight, ServiceTypeOK
    <3>8. \A d \in Calls : phase'[d] = "acquiring" => holder' = d
      BY <1>t, <3>1 DEF SingleFlight
    <3> QED BY <3>5, <3>6, <3>7, <3>8 DEF SingleFlight
  <2> QED BY <2>1, <2>2, <2>3
<1>2. ASSUME NEW c \in Calls, ServiceStep(c) PROVE SingleFlight'
  <2>1. CASE ResumeAcquiring(c)
    BY <1>t, <2>1 DEF ResumeAcquiring, SingleFlight
  <2>2. CASE ResumeReusing(c) \/ ObtainCached(c) \/ ObtainNew(c) \/ Fail(c)
    <3>1. holder = c /\ Release(c)
      BY <2>2 DEF ResumeReusing, ObtainCached, ObtainNew, Fail, SingleFlight
    <3> QED BY <3>1, ReleaseKeepsFlight
  <2> QED BY <1>2, <2>1, <2>2 DEF ServiceStep
<1>3. CASE UNCHANGED <<holder, queue, phase>>
  BY <1>3 DEF SingleFlight
<1> QED BY StepKinds, <1>1, <1>2, <1>3 DEF Kinds, Tick, service

(* One acquisition at a time, and no waiter is forgotten or woken twice,   *)
(* for any number of concurrent calls.                                     *)
THEOREM AcquisitionsAreSerial == Spec => []SingleFlight
<1>1. Init => SingleFlight
  BY DEF Init, ServiceInit, SingleFlight
<1> QED BY <1>1, FlightNext, ServiceTypeAlways, PTL DEF Spec

(* No call asks MSAL while a usable token is cached, for any number of     *)
(* concurrent calls and any interleaving of 401s and acquisitions.         *)
THEOREM AcquisitionsAreNeeded == Spec => NoNeedlessAcquisition
<1> DEFINE Needed(c) == phase[c] # "acquiring" /\ phase'[c] = "acquiring" =>
             forced'[c] \/ ~(token' # None /\ token'.expires - Skew > now)
<1>1. ASSUME ServiceTypeOK, [Next]_vars, NEW c \in Calls PROVE Needed(c)
  <2>t. phase \in [Calls -> {"out", "queued", "acquiring"}] /\ forced \in [Calls -> BOOLEAN]
    BY <1>1 DEF ServiceTypeOK
  <2>1. ASSUME NEW d \in Calls, NEW force \in BOOLEAN, NEW t \in {token, None}, Ask(d, force, t)
        PROVE  Needed(c)
    BY <2>t, <2>1 DEF Ask, Reuse, Fresh
  <2>2. ASSUME NEW d \in Calls, ServiceStep(d) PROVE Needed(c)
    BY <2>t, <2>2 DEF ServiceStep, ResumeReusing, ResumeAcquiring, ObtainCached, ObtainNew,
                      Fail, Release, Reuse, Fresh
  <2>3. CASE UNCHANGED phase
    BY <2>3
  <2> QED BY <1>1, StepKinds, <2>1, <2>2, <2>3 DEF Kinds, Tick, service
<1>2. ServiceTypeOK /\ [Next]_vars => [\A c \in Calls : Needed(c)]_<<now, service>>
  BY <1>1
<1> QED BY <1>2, ServiceTypeAlways, PTL DEF Spec, NoNeedlessAcquisition
-----------------------------------------------------------------------------
(* What the two caches hold.  The service may believe a token to live      *)
(* longer than it does, but for a minute at most.                          *)
Believed ==
  /\ token # None =>
       /\ token.value <= Len(expiry)
       /\ token.expires <= expiry[token.value] \/ token.expires <= now + MinLife
  /\ msal # None => msal.value <= Len(expiry) /\ msal.expires = expiry[msal.value]

LEMMA BelievedStep ==
  ASSUME ServiceTypeOK, Believed, NEW c \in Calls, ServiceStep(c), now' = now
  PROVE  Believed'
<1>1. CASE ResumeReusing(c) \/ ResumeAcquiring(c) \/ Fail(c)
  BY <1>1 DEF Believed, ResumeReusing, ResumeAcquiring, Fail
<1>2. CASE ObtainCached(c)
  <2>1. msal \in Token /\ Keep(msal) /\ UNCHANGED <<msal, expiry>>
    BY <1>2 DEF ObtainCached, MsalHit, ServiceTypeOK
  <2>2. /\ token'.value = msal.value
        /\ token'.expires <= msal.expires \/ token'.expires <= now + MinLife
    BY <2>1, KeepType
  <2>3. msal # None /\ msal.expires = expiry[msal.value] /\ msal.value <= Len(expiry)
    BY <1>2 DEF ObtainCached, MsalHit, Believed
  <2> QED BY <2>1, <2>2, <2>3 DEF Believed
<1>3. CASE ObtainNew(c)
  <2>1. PICK life \in Lifetimes : /\ expiry' = Append(expiry, now + life)
                                  /\ msal' = Issued(life) /\ Keep(Issued(life))
    BY <1>3 DEF ObtainNew
  <2>2. now + life \in Nat /\ Len(expiry) + 1 \in 1..MaxIssued /\ expiry \in Seq(Nat)
    BY <1>3, TokenAssumption DEF ObtainNew, ServiceTypeOK
  <2>3. Issued(life) \in Token
    BY <2>2 DEF Issued, Token
  <2>4. Len(expiry') = Len(expiry) + 1 /\ expiry'[Len(expiry) + 1] = now + life
    BY <2>1, <2>2
  <2>5. /\ token'.value = Len(expiry) + 1
        /\ token'.expires <= now + life \/ token'.expires <= now + MinLife
    BY <2>1, <2>3, KeepType DEF Issued
  <2> QED BY <2>1, <2>2, <2>4, <2>5 DEF Believed, Issued
<1> QED BY <1>1, <1>2, <1>3 DEF ServiceStep

LEMMA BelievedNext == ServiceTypeOK /\ Believed /\ [Next]_vars => Believed'
<1> SUFFICES ASSUME ServiceTypeOK, Believed, [Next]_vars PROVE Believed'
  OBVIOUS
<1>1. ASSUME NEW c \in Calls, NEW force \in BOOLEAN, NEW t \in {token, None},
             Ask(c, force, t), now' = now
      PROVE  Believed'
  BY <1>1 DEF Believed, Ask
<1>2. ASSUME NEW c \in Calls, ServiceStep(c), now' = now PROVE Believed'
  BY <1>2, BelievedStep
<1>3. CASE UNCHANGED <<now, service>>
  BY <1>3 DEF Believed, service
<1>4. CASE Tick
  <2>1. now' = now + 1 /\ UNCHANGED <<token, msal, expiry>>
    BY <1>4 DEF Tick, service
  <2>2. MinLife \in Nat /\ now \in Nat /\ (token # None => token.expires \in Nat)
    BY TokenAssumption DEF ServiceTypeOK, Token
  <2> QED BY <2>1, <2>2 DEF Believed
<1>5. CASE token' = None /\ UNCHANGED <<now, holder, queue, phase, forced, since, msal, expiry>>
  BY <1>5 DEF Believed
<1> QED BY StepKinds, <1>1, <1>2, <1>3, <1>4, <1>5 DEF Kinds

LEMMA BelievedAlways == Spec => []Believed
<1>1. Init => Believed
  BY DEF Init, ServiceInit, Believed
<1> QED BY <1>1, BelievedNext, ServiceTypeAlways, PTL DEF Spec

(* Whatever lifetimes Entra gives its tokens and however long acquiring    *)
(* them takes, a token that is used from the cache outlives the skew.      *)
THEOREM CachedTokensLive == Spec => []FreshMeansValid
<1>2. ServiceTypeOK /\ Believed => FreshMeansValid
  <2> SUFFICES ASSUME ServiceTypeOK, Believed, Fresh(token)
               PROVE  expiry[token.value] - Skew > now
    BY DEF FreshMeansValid
  <2>1. /\ token \in Token /\ token.value \in 1..Len(expiry) /\ token.expires \in Nat
        /\ expiry[token.value] \in Nat
        /\ now \in Nat /\ Skew \in Nat /\ MinLife \in Nat /\ MinLife <= Skew
    BY TokenAssumption DEF Fresh, ServiceTypeOK, Believed, Token
  <2>2. token.expires <= expiry[token.value] \/ token.expires <= now + MinLife
    BY DEF Fresh, Believed
  <2> QED BY <2>1, <2>2 DEF Fresh
<1> QED BY <1>2, BelievedAlways, ServiceTypeAlways, PTL
-----------------------------------------------------------------------------
(* The account each call keeps of its attempts, which bounds its requests. *)
Accounts ==
  \A c \in Calls :
    /\ sent[c] <= attempt[c] + 1
    /\ at[c] \in {"ready", "token"} => sent[c] <= attempt[c]
    /\ at[c] # "done" => result[c] = "none"
    /\ at[c] = "http" => bearer[c] # None
    /\ refreshed[c] <=> rejected[c] # <<>>
    /\ Len(rejected[c]) <= 2
    /\ Len(rejected[c]) = 2 <=> result[c] = "rejected"

(* The variables of the calls have their types. *)
CallTypeOK ==
  /\ at \in [Calls -> {"ready", "token", "http", "done"}]
  /\ attempt \in [Calls -> 0..MaxRetries]
  /\ refreshed \in [Calls -> BOOLEAN]
  /\ bearer \in [Calls -> (1..MaxIssued) \cup {None}]
  /\ result \in [Calls -> Results]
  /\ sent \in [Calls -> 0..MaxRetries + 1]
  /\ rejected \in [Calls -> Seq(1..MaxIssued)]
  /\ revoked \subseteq 1..MaxIssued

LEMMA SendTypes ==
  ASSUME CallTypeOK, NEW c \in Calls, NEW v \in 1..MaxIssued, Send(c, v),
         sent[c] < MaxRetries + 1
  PROVE  /\ at' \in [Calls -> {"ready", "token", "http", "done"}]
         /\ bearer' \in [Calls -> (1..MaxIssued) \cup {None}]
         /\ sent' \in [Calls -> 0..MaxRetries + 1]
         /\ \A d \in Calls : d # c => at'[d] = at[d] /\ sent'[d] = sent[d] /\ bearer'[d] = bearer[d]
         /\ at'[c] = "http" /\ sent'[c] = sent[c] + 1 /\ bearer'[c] = v
<1>1. sent[c] + 1 \in 0..MaxRetries + 1
  BY ClientAssumption DEF CallTypeOK
<1> QED BY <1>1 DEF CallTypeOK, Send

LEMMA EndTypes ==
  ASSUME CallTypeOK, NEW c \in Calls, NEW how \in Results, End(c, how)
  PROVE  /\ at' \in [Calls -> {"ready", "token", "http", "done"}]
         /\ bearer' \in [Calls -> (1..MaxIssued) \cup {None}]
         /\ result' \in [Calls -> Results]
  BY DEF CallTypeOK, End

LEMMA Note401Types ==
  ASSUME CallTypeOK, Accounts, NEW c \in Calls, at[c] = "http", Note401(c)
  PROVE  /\ rejected' \in [Calls -> Seq(1..MaxIssued)]
         /\ rejected[c] \in Seq(1..MaxIssued) /\ Len(rejected[c]) \in Nat
         /\ rejected'[c] # <<>> /\ Len(rejected'[c]) = Len(rejected[c]) + 1
         /\ \A d \in Calls : d # c => rejected'[d] = rejected[d]
<1>1. bearer[c] \in 1..MaxIssued /\ rejected[c] \in Seq(1..MaxIssued)
  BY DEF CallTypeOK, Accounts
<1>2. /\ Append(rejected[c], bearer[c]) \in Seq(1..MaxIssued)
      /\ Len(Append(rejected[c], bearer[c])) = Len(rejected[c]) + 1
      /\ Append(rejected[c], bearer[c]) # <<>>
  BY <1>1
<1> QED BY <1>1, <1>2 DEF CallTypeOK, Note401

(* Asking for a token, by a call that has one more attempt than requests.  *)
LEMMA AskAndSendTypes ==
  ASSUME CallTypeOK, NEW c \in Calls, NEW force \in BOOLEAN, NEW t \in Token \cup {None},
         AskAndSend(c, force, t), sent[c] < MaxRetries + 1
  PROVE  /\ at' \in [Calls -> {"ready", "token", "http", "done"}]
         /\ bearer' \in [Calls -> (1..MaxIssued) \cup {None}]
         /\ sent' \in [Calls -> 0..MaxRetries + 1]
         /\ \A d \in Calls : d # c => at'[d] = at[d] /\ sent'[d] = sent[d] /\ bearer'[d] = bearer[d]
         /\ \/ at'[c] = "token" /\ sent'[c] = sent[c]
            \/ at'[c] = "http" /\ sent'[c] = sent[c] + 1 /\ bearer'[c] # None
<1>1. CASE Reuse(force, t)
  <2>1. t.value \in 1..MaxIssued /\ t.value # None
    BY <1>1, TokenAssumption DEF Reuse, Fresh, Token
  <2> QED BY <1>1, <2>1, SendTypes DEF AskAndSend, CallTypeOK, Send
<1>2. CASE ~Reuse(force, t)
  BY <1>2 DEF AskAndSend, CallTypeOK
<1> QED BY <1>1, <1>2

(* Each step of a call keeps its types and its accounts. *)
CallOK == CallTypeOK /\ Accounts

LEMMA BeginKeeps ==
  ASSUME CallOK, ServiceTypeOK, NEW c \in Calls, Begin(c)
  PROVE  CallOK'
<1>1. /\ at[c] = "ready" /\ AskAndSend(c, FALSE, token) /\ token \in Token \cup {None}
      /\ UNCHANGED <<attempt, refreshed, result, rejected, revoked>>
  BY DEF Begin, ServiceTypeOK
<1>2. sent[c] <= attempt[c] /\ attempt[c] <= MaxRetries /\ MaxRetries \in Nat
      /\ sent[c] \in Nat /\ attempt[c] \in Nat
  BY <1>1, ClientAssumption DEF CallOK, CallTypeOK, Accounts
<1>3. sent[c] < MaxRetries + 1
  BY <1>2
<1>4. /\ at' \in [Calls -> {"ready", "token", "http", "done"}]
      /\ bearer' \in [Calls -> (1..MaxIssued) \cup {None}]
      /\ sent' \in [Calls -> 0..MaxRetries + 1]
      /\ \A d \in Calls : d # c => at'[d] = at[d] /\ sent'[d] = sent[d] /\ bearer'[d] = bearer[d]
      /\ \/ at'[c] = "token" /\ sent'[c] = sent[c]
         \/ at'[c] = "http" /\ sent'[c] = sent[c] + 1 /\ bearer'[c] # None
  BY <1>1, <1>3, AskAndSendTypes DEF CallOK
<1>5. CallTypeOK'
  BY <1>1, <1>4 DEF CallOK, CallTypeOK
<1>6. Accounts'
  BY <1>1, <1>2, <1>4 DEF CallOK, Accounts
<1> QED BY <1>5, <1>6 DEF CallOK

LEMMA ObtainType ==
  ASSUME ServiceTypeOK, NEW c \in Calls, ObtainCached(c) \/ ObtainNew(c)
  PROVE  token' \in Token
<1>1. CASE ObtainCached(c)
  <2>1. msal \in Token /\ Keep(msal)
    BY <1>1 DEF ObtainCached, MsalHit, ServiceTypeOK
  <2> QED BY <2>1, KeepType
<1>2. CASE ObtainNew(c)
  <2>1. PICK life \in Lifetimes : Keep(Issued(life))
    BY <1>2 DEF ObtainNew
  <2>2. now + life \in Nat /\ Len(expiry) + 1 \in 1..MaxIssued
    BY <1>2, TokenAssumption DEF ObtainNew, ServiceTypeOK
  <2>3. Issued(life) \in Token
    BY <2>2 DEF Issued, Token
  <2> QED BY <2>1, <2>3, KeepType
<1> QED BY <1>1, <1>2

LEMMA GetTokenKeeps ==
  ASSUME CallOK, ServiceTypeOK, NEW c \in Calls, GetToken(c)
  PROVE  CallOK'
<1>1. token' \in Token
  <2>1. CASE ResumeReusing(c)
    BY <2>1 DEF ResumeReusing, Reuse, Fresh, ServiceTypeOK
  <2>2. CASE ObtainCached(c) \/ ObtainNew(c)
    BY <2>2, ObtainType
  <2> QED BY <2>1, <2>2 DEF GetToken
<1>2. /\ at[c] = "token" /\ Send(c, token'.value) /\ token'.value \in 1..MaxIssued
      /\ token'.value # None
      /\ UNCHANGED <<attempt, refreshed, result, rejected, revoked>>
  BY <1>1, TokenAssumption DEF GetToken, Token
<1>3. sent[c] <= attempt[c] /\ attempt[c] <= MaxRetries /\ MaxRetries \in Nat
      /\ sent[c] \in Nat /\ attempt[c] \in Nat
  BY <1>2, ClientAssumption DEF CallOK, CallTypeOK, Accounts
<1>4. sent[c] < MaxRetries + 1
  BY <1>3
<1>5. /\ at' \in [Calls -> {"ready", "token", "http", "done"}]
      /\ bearer' \in [Calls -> (1..MaxIssued) \cup {None}]
      /\ sent' \in [Calls -> 0..MaxRetries + 1]
      /\ \A d \in Calls : d # c => at'[d] = at[d] /\ sent'[d] = sent[d] /\ bearer'[d] = bearer[d]
      /\ at'[c] = "http" /\ sent'[c] = sent[c] + 1 /\ bearer'[c] = token'.value
  BY <1>2, <1>4, SendTypes DEF CallOK
<1>6. CallTypeOK'
  BY <1>2, <1>5 DEF CallOK, CallTypeOK
<1>7. at'[c] = "http" /\ sent'[c] = sent[c] + 1 /\ bearer'[c] # None
  BY <1>2, <1>5
<1>8. Accounts'
  <2> SUFFICES ASSUME NEW d \in Calls
               PROVE  /\ sent'[d] <= attempt[d] + 1
                      /\ at'[d] \in {"ready", "token"} => sent'[d] <= attempt[d]
                      /\ at'[d] # "done" => result[d] = "none"
                      /\ at'[d] = "http" => bearer'[d] # None
    BY <1>2 DEF CallOK, Accounts
  <2>1. CASE d = c
    BY <1>2, <1>3, <1>7, <2>1 DEF CallOK, Accounts
  <2>2. CASE d # c
    BY <1>5, <2>2 DEF CallOK, Accounts
  <2> QED BY <2>1, <2>2
<1> QED BY <1>6, <1>8 DEF CallOK

(* The steps that end a call otherwise than by a second 401. *)
LEMMA EndKeeps ==
  ASSUME CallOK, NEW c \in Calls, NEW how \in Results \ {"rejected"}, End(c, how),
         at[c] # "done", UNCHANGED <<attempt, refreshed, sent, rejected, revoked>>
  PROVE  CallOK'
<1>1. CallTypeOK'
  BY EndTypes DEF CallOK, CallTypeOK
<1>2. at'[c] = "done" /\ result'[c] = how /\ result[c] = "none" /\ how # "rejected"
      /\ \A d \in Calls : d # c => at'[d] = at[d] /\ result'[d] = result[d] /\ bearer'[d] = bearer[d]
  BY DEF End, CallOK, CallTypeOK, Accounts
<1>3. Accounts'
  BY <1>2 DEF CallOK, Accounts
<1> QED BY <1>1, <1>3 DEF CallOK

LEMMA BackOffKeeps ==
  ASSUME CallOK, NEW c \in Calls, BackOff(c)
  PROVE  CallOK'
<1>1. CASE attempt[c] = MaxRetries
  BY <1>1, EndKeeps, ClientAssumption DEF BackOff, Results
<1>2. CASE attempt[c] # MaxRetries
  <2>1. /\ at[c] = "http" /\ at' = [at EXCEPT ![c] = "ready"] /\ attempt[c] < MaxRetries
        /\ attempt' = [attempt EXCEPT ![c] = @ + 1]
        /\ UNCHANGED <<bearer, result, refreshed, sent, rejected, revoked>>
    BY <1>2 DEF BackOff
  <2>2. attempt[c] + 1 \in 0..MaxRetries /\ attempt[c] \in Nat /\ sent[c] \in Nat
    BY <2>1, ClientAssumption DEF CallOK, CallTypeOK
  <2>3. CallTypeOK'
    BY <2>1, <2>2 DEF CallOK, CallTypeOK
  <2>4. /\ at'[c] = "ready" /\ attempt'[c] = attempt[c] + 1
        /\ \A d \in Calls : d # c => at'[d] = at[d] /\ attempt'[d] = attempt[d]
    BY <2>1 DEF CallOK, CallTypeOK
  <2>5. Accounts'
    BY <2>1, <2>2, <2>4 DEF CallOK, Accounts
  <2> QED BY <2>3, <2>5 DEF CallOK
<1> QED BY <1>1, <1>2

LEMMA RefreshKeeps ==
  ASSUME CallOK, NEW c \in Calls, Refresh(c)
  PROVE  CallOK'
<1>1. /\ at[c] = "http" /\ ~refreshed[c] /\ Note401(c) /\ result[c] = "none" /\ rejected[c] = <<>>
      /\ refreshed' = [refreshed EXCEPT ![c] = TRUE] /\ revoked' = revoked
      /\ sent[c] <= attempt[c] + 1 /\ sent[c] \in Nat /\ attempt[c] \in 0..MaxRetries
      /\ MaxRetries \in Nat
  BY ClientAssumption DEF Refresh, CallOK, CallTypeOK, Accounts
<1>2. /\ rejected' \in [Calls -> Seq(1..MaxIssued)]
      /\ rejected'[c] # <<>> /\ Len(rejected'[c]) = 1
      /\ \A d \in Calls : d # c => rejected'[d] = rejected[d]
  <2>1. Len(rejected[c]) = 0
    BY <1>1
  <2>2. /\ rejected' \in [Calls -> Seq(1..MaxIssued)]
        /\ rejected'[c] # <<>> /\ Len(rejected'[c]) = Len(rejected[c]) + 1
        /\ \A d \in Calls : d # c => rejected'[d] = rejected[d]
    BY <1>1, Note401Types DEF CallOK
  <2> QED BY <2>1, <2>2
<1>3. refreshed'[c] /\ \A d \in Calls : d # c => refreshed'[d] = refreshed[d]
  BY <1>1 DEF CallOK, CallTypeOK
<1>4. CASE attempt[c] < MaxRetries
  <2>1. /\ AskAndSend(c, TRUE, None) /\ attempt' = [attempt EXCEPT ![c] = @ + 1]
        /\ result' = result
    <3>1. attempt[c] # MaxRetries
      BY <1>1, <1>4
    <3> QED BY <3>1 DEF Refresh
  <2>a. sent[c] < MaxRetries + 1
    BY <1>1, <1>4
  <2>2. /\ at' \in [Calls -> {"ready", "token", "http", "done"}]
        /\ bearer' \in [Calls -> (1..MaxIssued) \cup {None}]
        /\ sent' \in [Calls -> 0..MaxRetries + 1]
        /\ \A d \in Calls : d # c => at'[d] = at[d] /\ sent'[d] = sent[d] /\ bearer'[d] = bearer[d]
        /\ \/ at'[c] = "token" /\ sent'[c] = sent[c]
           \/ at'[c] = "http" /\ sent'[c] = sent[c] + 1 /\ bearer'[c] # None
    BY <2>a, <2>1, AskAndSendTypes DEF CallOK
  <2>3. attempt' \in [Calls -> 0..MaxRetries] /\ attempt'[c] = attempt[c] + 1
        /\ \A d \in Calls : d # c => attempt'[d] = attempt[d]
    BY <1>1, <1>4, <2>1 DEF CallOK, CallTypeOK
  <2>4. CallTypeOK'
    BY <1>1, <1>2, <2>1, <2>2, <2>3 DEF CallOK, CallTypeOK
  <2>5. Accounts'
    <3> SUFFICES ASSUME NEW d \in Calls
                 PROVE  /\ sent'[d] <= attempt'[d] + 1
                        /\ at'[d] \in {"ready", "token"} => sent'[d] <= attempt'[d]
                        /\ at'[d] # "done" => result[d] = "none"
                        /\ at'[d] = "http" => bearer'[d] # None
                        /\ refreshed'[d] <=> rejected'[d] # <<>>
                        /\ Len(rejected'[d]) <= 2
                        /\ Len(rejected'[d]) = 2 <=> result[d] = "rejected"
      BY <2>1 DEF Accounts
    <3>1. CASE d = c
      <4>1. at'[c] # "ready" /\ at'[c] # "done" /\ result[c] = "none"
            /\ refreshed'[c] /\ rejected'[c] # <<>> /\ Len(rejected'[c]) = 1
            /\ (at'[c] = "http" => bearer'[c] # None)
        BY <1>1, <1>2, <1>3, <2>2
      <4>2. /\ sent'[c] <= attempt'[c] + 1
            /\ at'[c] = "token" => sent'[c] <= attempt'[c]
        BY <1>1, <2>2, <2>3
      <4> QED BY <3>1, <4>1, <4>2
    <3>2. CASE d # c
      BY <1>2, <1>3, <2>2, <2>3, <3>2 DEF CallOK, Accounts
    <3> QED BY <3>1, <3>2
  <2> QED BY <2>4, <2>5 DEF CallOK
<1>5. CASE ~(attempt[c] < MaxRetries)
  <2>1. End(c, "failed") /\ UNCHANGED <<attempt, sent>>
    BY <1>5 DEF Refresh
  <2>2. /\ at' \in [Calls -> {"ready", "token", "http", "done"}]
        /\ bearer' \in [Calls -> (1..MaxIssued) \cup {None}]
        /\ result' \in [Calls -> Results]
    BY <2>1, EndTypes DEF CallOK, Results
  <2>3. at'[c] = "done" /\ result'[c] = "failed"
        /\ \A d \in Calls : d # c => at'[d] = at[d] /\ result'[d] = result[d] /\ bearer'[d] = bearer[d]
    BY <2>1 DEF End, CallOK, CallTypeOK
  <2>4. CallTypeOK'
    BY <1>1, <1>2, <2>1, <2>2 DEF CallOK, CallTypeOK
  <2>5. Accounts'
    <3> SUFFICES ASSUME NEW d \in Calls
                 PROVE  /\ sent[d] <= attempt[d] + 1
                        /\ at'[d] \in {"ready", "token"} => sent[d] <= attempt[d]
                        /\ at'[d] # "done" => result'[d] = "none"
                        /\ at'[d] = "http" => bearer'[d] # None
                        /\ refreshed'[d] <=> rejected'[d] # <<>>
                        /\ Len(rejected'[d]) <= 2
                        /\ Len(rejected'[d]) = 2 <=> result'[d] = "rejected"
      BY <2>1 DEF Accounts
    <3>1. CASE d = c
      <4>1. /\ at'[c] = "done" /\ result'[c] # "rejected" /\ refreshed'[c]
            /\ rejected'[c] # <<>> /\ Len(rejected'[c]) = 1 /\ sent[c] <= attempt[c] + 1
        BY <1>1, <1>2, <1>3, <2>3
      <4> QED BY <3>1, <4>1
    <3>2. CASE d # c
      BY <1>2, <1>3, <2>3, <3>2 DEF CallOK, Accounts
    <3> QED BY <3>1, <3>2
  <2> QED BY <2>4, <2>5 DEF CallOK
<1> QED BY <1>4, <1>5

LEMMA GiveUpKeeps ==
  ASSUME CallOK, NEW c \in Calls, GiveUp(c)
  PROVE  CallOK'
<1>1. /\ at[c] = "http" /\ refreshed[c] /\ Note401(c) /\ End(c, "rejected")
      /\ UNCHANGED <<attempt, refreshed, sent, revoked>>
  BY DEF GiveUp
<1>2. /\ rejected' \in [Calls -> Seq(1..MaxIssued)]
      /\ rejected[c] \in Seq(1..MaxIssued) /\ Len(rejected[c]) \in Nat
      /\ rejected'[c] # <<>> /\ Len(rejected'[c]) = Len(rejected[c]) + 1
      /\ \A d \in Calls : d # c => rejected'[d] = rejected[d]
  BY <1>1, Note401Types DEF CallOK
<1>3. rejected[c] # <<>> /\ Len(rejected[c]) <= 2 /\ Len(rejected[c]) # 2
  BY <1>1 DEF CallOK, Accounts
<1>4. Len(rejected'[c]) = 2
  <2>1. Len(rejected[c]) # 0
    BY <1>2, <1>3
  <2>2. Len(rejected[c]) = 1
    <3>1. \A n \in Nat : n # 0 /\ n <= 2 /\ n # 2 => n = 1
      OBVIOUS
    <3>2. Len(rejected[c]) \in Nat
      BY <1>2
    <3> QED BY <1>3, <2>1, <3>1, <3>2
  <2> QED BY <1>2, <2>2
<1>5. /\ at' \in [Calls -> {"ready", "token", "http", "done"}]
      /\ bearer' \in [Calls -> (1..MaxIssued) \cup {None}]
      /\ result' \in [Calls -> Results]
  BY <1>1, EndTypes DEF CallOK, Results
<1>6. at'[c] = "done" /\ result'[c] = "rejected"
      /\ \A d \in Calls : d # c => at'[d] = at[d] /\ result'[d] = result[d] /\ bearer'[d] = bearer[d]
  BY <1>1 DEF End, CallOK, CallTypeOK
<1>7. CallTypeOK'
  BY <1>1, <1>2, <1>5 DEF CallOK, CallTypeOK
<1>8. Accounts'
  <2> SUFFICES ASSUME NEW d \in Calls
               PROVE  /\ sent[d] <= attempt[d] + 1
                      /\ at'[d] \in {"ready", "token"} => sent[d] <= attempt[d]
                      /\ at'[d] # "done" => result'[d] = "none"
                      /\ at'[d] = "http" => bearer'[d] # None
                      /\ refreshed[d] <=> rejected'[d] # <<>>
                      /\ Len(rejected'[d]) <= 2
                      /\ Len(rejected'[d]) = 2 <=> result'[d] = "rejected"
    BY <1>1 DEF Accounts
  <2>1. CASE d = c
    <3>1. sent[c] <= attempt[c] + 1
      BY DEF CallOK, Accounts
    <3>2. /\ at'[c] = "done" /\ result'[c] = "rejected" /\ refreshed[c]
          /\ rejected'[c] # <<>> /\ Len(rejected'[c]) = 2
      BY <1>1, <1>2, <1>4, <1>6
    <3> QED BY <2>1, <3>1, <3>2
  <2>2. CASE d # c
    BY <1>2, <1>6, <2>2 DEF CallOK, Accounts
  <2> QED BY <2>1, <2>2
<1> QED BY <1>7, <1>8 DEF CallOK

LEMMA CallNext == ServiceTypeOK /\ CallOK /\ [Next]_vars => CallOK'
<1> SUFFICES ASSUME ServiceTypeOK, CallOK, [Next]_vars PROVE CallOK'
  OBVIOUS
<1>1. CASE UNCHANGED <<call, revoked>>
  BY <1>1 DEF CallOK, CallTypeOK, Accounts, call
<1>2. ASSUME NEW c \in Calls, Proceed(c) PROVE CallOK'
  <2>1. CASE Begin(c)
    BY <2>1, BeginKeeps
  <2>2. CASE WaitForMsal(c)
    BY <1>1, <2>2 DEF WaitForMsal
  <2>3. CASE GetToken(c)
    BY <2>3, GetTokenKeeps
  <2>4. CASE GetNoToken(c)
    BY <2>4, EndKeeps DEF GetNoToken, Results
  <2>5. CASE Conclude(c)
    BY <2>5, EndKeeps DEF Conclude, Results
  <2>6. CASE BackOff(c)
    BY <2>6, BackOffKeeps
  <2>7. CASE Refresh(c)
    BY <2>7, RefreshKeeps
  <2>8. CASE GiveUp(c)
    BY <2>8, GiveUpKeeps
  <2> QED BY <1>2, <2>1, <2>2, <2>3, <2>4, <2>5, <2>6, <2>7, <2>8 DEF Proceed
<1>3. CASE Revoke
  <2>1. PICK v \in 1..Len(expiry) : revoked' = revoked \cup {v} /\ UNCHANGED call
    BY <1>3 DEF Revoke
  <2>2. v \in 1..MaxIssued
    BY <2>1, TokenAssumption DEF ServiceTypeOK
  <2> QED BY <2>1, <2>2 DEF CallOK, CallTypeOK, Accounts, call
<1> QED BY <1>1, <1>2, <1>3 DEF Next, Finished, vars

LEMMA CallAlways == Spec => []CallOK
<1>1. Init => CallOK
  BY ClientAssumption DEF Init, CallOK, CallTypeOK, Accounts, Results
<1> QED BY <1>1, CallNext, ServiceTypeAlways, PTL DEF Spec

(* Every variable has its type, for any number of calls and any bounds.    *)
THEOREM TypesAreCorrect == Spec => []TypeOK
<1>1. ServiceTypeOK /\ CallOK => TypeOK
  BY DEF CallOK, CallTypeOK, TypeOK
<1> QED BY <1>1, CallAlways, ServiceTypeAlways, PTL
-----------------------------------------------------------------------------
(* The service implements TokenCache: what both caches hold is the newest. *)
Newest ==
  /\ token # None => token.value = Len(expiry)
  /\ msal # None => msal.value = Len(expiry)

LEMMA IssuedIsNext ==
  ASSUME ServiceTypeOK, NEW c \in Calls, ObtainNew(c)
  PROVE  /\ Len(expiry') = Len(expiry) + 1
         /\ msal'.value = Len(expiry') /\ token'.value = Len(expiry')
<1>1. PICK life \in Lifetimes : /\ expiry' = Append(expiry, now + life)
                                /\ msal' = Issued(life) /\ Keep(Issued(life))
  BY DEF ObtainNew
<1>2. now + life \in Nat /\ expiry \in Seq(Nat)
  BY TokenAssumption DEF ServiceTypeOK
<1>3. Len(expiry') = Len(expiry) + 1
  BY <1>1, <1>2
<1>4. msal'.value = Len(expiry) + 1 /\ token'.value = Len(expiry) + 1
  BY <1>1 DEF Issued, Keep
<1> QED BY <1>3, <1>4

LEMMA NewestNext == ServiceTypeOK /\ Newest /\ [Next]_vars => Newest'
<1> SUFFICES ASSUME ServiceTypeOK, Newest, [Next]_vars PROVE Newest'
  OBVIOUS
<1>1. ASSUME NEW c \in Calls, NEW force \in BOOLEAN, NEW t \in {token, None},
             Ask(c, force, t)
      PROVE  Newest'
  BY <1>1 DEF Newest, Ask
<1>2. ASSUME NEW c \in Calls, ServiceStep(c) PROVE Newest'
  <2>1. CASE ResumeReusing(c) \/ ResumeAcquiring(c) \/ Fail(c)
    BY <2>1 DEF Newest, ResumeReusing, ResumeAcquiring, Fail
  <2>2. CASE ObtainCached(c)
    BY <2>2 DEF Newest, ObtainCached, MsalHit, Keep
  <2>3. CASE ObtainNew(c)
    BY <2>3, IssuedIsNext DEF Newest
  <2> QED BY <1>2, <2>1, <2>2, <2>3 DEF ServiceStep
<1>3. CASE UNCHANGED <<token, msal, expiry>>
  BY <1>3 DEF Newest
<1>4. CASE token' = None /\ UNCHANGED <<msal, expiry>>
  BY <1>4 DEF Newest
<1> QED BY StepKinds, <1>1, <1>2, <1>3, <1>4 DEF Kinds, Tick, service

LEMMA NewestAlways == Spec => []Newest
<1>1. Init => Newest
  BY DEF Init, ServiceInit, Newest
<1> QED BY <1>1, NewestNext, ServiceTypeAlways, PTL DEF Spec
-----------------------------------------------------------------------------
(* What a call learns from a 401: that token is revoked or has expired, so *)
(* that the next one it is given is newer, or revoked too.                 *)

Refused(v) == v \in revoked \/ expiry[v] <= now

LearnedOf(c) ==
  /\ at[c] = "http" => bearer[c] \in 1..Len(expiry)
  /\ rejected[c] # <<>> =>
       /\ rejected[c][1] \in 1..Len(expiry)
       /\ Refused(rejected[c][1])
       /\ at[c] = "http" => \/ rejected[c][1] < bearer[c]
                            \/ rejected[c][1] = bearer[c] /\ bearer[c] \in revoked
  /\ Len(rejected[c]) = 2 =>
       \/ rejected[c][1] < rejected[c][2]
       \/ rejected[c][1] = rejected[c][2] /\ rejected[c][1] \in revoked

Learned == \A c \in Calls : LearnedOf(c)

(* Time passes, tokens are issued and revoked: nothing learned is undone.  *)
Onward ==
  /\ now' >= now /\ revoked \subseteq revoked'
  /\ Len(expiry') \in Nat /\ Len(expiry') >= Len(expiry)
  /\ \A v \in 1..Len(expiry) : expiry'[v] = expiry[v]

LEMMA ServiceStepOnward ==
  ASSUME ServiceTypeOK, NEW c \in Calls, ServiceStep(c)
  PROVE  /\ Len(expiry') \in Nat /\ Len(expiry') >= Len(expiry)
         /\ \A v \in 1..Len(expiry) : expiry'[v] = expiry[v]
<1>1. CASE UNCHANGED expiry
  BY <1>1 DEF ServiceTypeOK
<1>2. CASE ObtainNew(c)
  <2>1. PICK life \in Lifetimes : expiry' = Append(expiry, now + life)
    BY <1>2 DEF ObtainNew
  <2>2. expiry \in Seq(Nat) /\ now + life \in Nat
    BY TokenAssumption DEF ServiceTypeOK
  <2> QED BY <2>1, <2>2
<1> QED BY <1>1, <1>2 DEF ServiceStep, ResumeReusing, ResumeAcquiring, ObtainCached, Fail

LEMMA OnwardNext == ServiceTypeOK /\ [Next]_vars => Onward
<1> SUFFICES ASSUME ServiceTypeOK, [Next]_vars PROVE Onward
  OBVIOUS
<1>1. now \in Nat /\ expiry \in Seq(Nat)
  BY TokenAssumption DEF ServiceTypeOK
<1>2. revoked \subseteq revoked'
  BY DEF Next, vars, Finished, Revoke, Proceed, Begin, WaitForMsal, GetToken, GetNoToken,
     Conclude, BackOff, Refresh, GiveUp
<1>3. now' >= now
  BY <1>1, StepKinds DEF Kinds, Tick
<1>4. Len(expiry') \in Nat /\ Len(expiry') >= Len(expiry)
      /\ \A v \in 1..Len(expiry) : expiry'[v] = expiry[v]
  <2>1. CASE UNCHANGED expiry
    BY <1>1, <2>1
  <2>2. CASE \E c \in Calls : ServiceStep(c)
    BY <2>2, ServiceStepOnward
  <2> QED BY <2>1, <2>2, StepKinds DEF Kinds, Ask, Tick, service
<1> QED BY <1>2, <1>3, <1>4 DEF Onward

LEMMA RefusedStays ==
  ASSUME ServiceTypeOK, ServiceTypeOK', Onward, NEW v \in 1..Len(expiry), Refused(v)
  PROVE  v \in 1..Len(expiry') /\ (v \in revoked' \/ expiry'[v] <= now')
<1>1. expiry \in Seq(Nat) /\ now \in Nat
  BY TokenAssumption DEF ServiceTypeOK
<1>2. now' \in Nat
  BY TokenAssumption DEF ServiceTypeOK
<1>3. expiry[v] \in Nat /\ expiry'[v] = expiry[v]
  BY <1>1 DEF Onward
<1>4. Len(expiry) \in Nat
  BY <1>1
<1> QED BY <1>1, <1>2, <1>3, <1>4 DEF Onward, Refused

(* A call that does nothing keeps what it learned. *)
LEMMA LearnedKept ==
  ASSUME ServiceTypeOK, ServiceTypeOK', Onward, NEW c \in Calls, LearnedOf(c),
         at'[c] # "http" \/ (at'[c] = at[c] /\ bearer'[c] = bearer[c]),
         rejected'[c] = rejected[c]
  PROVE  LearnedOf(c)'
<1>1. rejected[c] # <<>> =>
        /\ rejected[c][1] \in 1..Len(expiry')
        /\ rejected[c][1] \in revoked' \/ expiry'[rejected[c][1]] <= now'
  BY RefusedStays DEF LearnedOf
<1>2. revoked \subseteq revoked' /\ Len(expiry) \in Nat
      /\ Len(expiry') \in Nat /\ Len(expiry') >= Len(expiry)
  BY DEF Onward, ServiceTypeOK
<1> QED BY <1>1, <1>2 DEF LearnedOf, Refused

(* A call that sends the newest token, new or not yet expired. *)
LEMMA LearnedSend ==
  ASSUME ServiceTypeOK, ServiceTypeOK', CallOK, Onward, NEW c \in Calls, LearnedOf(c),
         rejected'[c] = rejected[c], Len(rejected[c]) # 2, at'[c] = "http",
         bearer'[c] = Len(expiry'), Len(expiry') \in 1..MaxIssued,
         Len(expiry') > Len(expiry) \/ expiry[Len(expiry')] > now
  PROVE  LearnedOf(c)'
<1>1. Len(expiry) \in Nat /\ Len(expiry') \in Nat /\ Len(expiry') >= Len(expiry)
      /\ revoked \subseteq revoked' /\ MaxIssued \in Nat
  BY TokenAssumption DEF Onward, ServiceTypeOK
<1>2. bearer'[c] \in 1..Len(expiry')
  BY <1>1
<1>3. CASE rejected[c] = <<>>
  BY <1>2, <1>3 DEF LearnedOf
<1>4. CASE rejected[c] # <<>>
  <2> DEFINE a == rejected[c][1]
  <2>1. a \in 1..Len(expiry) /\ Refused(a)
    BY <1>4 DEF LearnedOf
  <2>2. a \in 1..Len(expiry') /\ (a \in revoked' \/ expiry'[a] <= now')
    BY <2>1, RefusedStays
  <2> HIDE DEF a
  <2>3. a < Len(expiry') \/ (a = Len(expiry') /\ a \in revoked')
    <3>1. CASE a = Len(expiry')
      <4>1. expiry[a] > now
        BY <1>1, <2>1, <3>1
      <4>2. expiry \in Seq(Nat) /\ now \in Nat
        BY TokenAssumption DEF ServiceTypeOK
      <4>3. expiry[a] \in Nat
        BY <2>1, <4>2
      <4>4. a \in revoked
        BY <2>1, <4>1, <4>2, <4>3 DEF Refused
      <4> QED BY <1>1, <3>1, <4>4
    <3>2. CASE a # Len(expiry')
      <4>1. a \in Int /\ a <= Len(expiry)
        BY <1>1, <2>1
      <4> QED BY <1>1, <3>2, <4>1
    <3> QED BY <3>1, <3>2
  <2> QED BY <1>2, <2>2, <2>3 DEF LearnedOf, Refused, a
<1> QED BY <1>3, <1>4

LEMMA LearnedNext ==
  /\ ServiceTypeOK /\ ServiceTypeOK' /\ CallOK /\ Believed /\ FreshMeansValid
  /\ Newest /\ Newest' /\ Learned /\ [Next]_vars
  => Learned'
<1> SUFFICES ASSUME ServiceTypeOK, ServiceTypeOK', CallOK, Believed, FreshMeansValid,
                    Newest, Newest', Learned, [Next]_vars, NEW d \in Calls
             PROVE  LearnedOf(d)'
  BY DEF Learned
<1>a. Onward
  BY OnwardNext
<1>b. LearnedOf(d)
  BY DEF Learned
<1>t. /\ at \in [Calls -> {"ready", "token", "http", "done"}]
      /\ bearer \in [Calls -> (1..MaxIssued) \cup {None}]
      /\ rejected \in [Calls -> Seq(1..MaxIssued)]
  BY DEF CallOK, CallTypeOK
<1>k. ASSUME at'[d] # "http" \/ (at'[d] = at[d] /\ bearer'[d] = bearer[d]),
             rejected'[d] = rejected[d]
      PROVE  LearnedOf(d)'
  BY <1>a, <1>b, <1>k, LearnedKept
(* Every token sent is the newest; one that was not just issued is good.   *)
<1>s. ASSUME at[d] # "done", UNCHANGED rejected, at'[d] = "http",
             bearer'[d] = Len(expiry'), Len(expiry') \in 1..MaxIssued,
             Len(expiry') > Len(expiry) \/ expiry[Len(expiry')] > now
      PROVE  LearnedOf(d)'
  <2>1. Len(rejected[d]) # 2
    BY <1>s DEF CallOK, Accounts
  <2> QED BY <1>a, <1>b, <1>s, <2>1, LearnedSend
<1>f. Fresh(token) => /\ token.value = Len(expiry) /\ Len(expiry) \in 1..MaxIssued
                      /\ expiry[Len(expiry)] > now
  <2> SUFFICES ASSUME Fresh(token)
               PROVE  /\ token.value = Len(expiry) /\ Len(expiry) \in 1..MaxIssued
                      /\ expiry[Len(expiry)] > now
    OBVIOUS
  <2>1. token.value = Len(expiry) /\ token.value \in 1..MaxIssued
    BY DEF Fresh, Newest, ServiceTypeOK, Token
  <2>2. expiry[token.value] - Skew > now
    BY DEF FreshMeansValid
  <2>3. expiry \in Seq(Nat) /\ now \in Nat /\ Skew \in Nat /\ MaxIssued \in Nat
    BY TokenAssumption DEF ServiceTypeOK
  <2>4. expiry[Len(expiry)] \in Nat
    BY <2>1, <2>3
  <2> QED BY <2>1, <2>2, <2>3, <2>4
<1>1. ASSUME NEW c \in Calls, Begin(c) PROVE LearnedOf(d)'
  <2>1. /\ at[c] = "ready" /\ AskAndSend(c, FALSE, token) /\ UNCHANGED rejected
        /\ UNCHANGED expiry
    BY <1>1 DEF Begin, AskAndSend, Ask
  <2>2. CASE d # c \/ ~Fresh(token)
    BY <1>t, <1>k, <2>1, <2>2 DEF AskAndSend, Send, Reuse
  <2>3. CASE d = c /\ Fresh(token)
    <3>1. at'[d] = "http" /\ bearer'[d] = token.value
      BY <1>t, <2>1, <2>3 DEF AskAndSend, Send, Reuse
    <3> QED BY <1>f, <1>s, <2>1, <2>3, <3>1
  <2> QED BY <2>2, <2>3
<1>2. ASSUME NEW c \in Calls, GetToken(c) PROVE LearnedOf(d)'
  <2>1. /\ at[c] = "token" /\ Send(c, token'.value) /\ UNCHANGED rejected
        /\ ResumeReusing(c) \/ ObtainCached(c) \/ ObtainNew(c)
    BY <1>2 DEF GetToken
  <2>2. CASE d # c
    BY <1>t, <1>k, <2>1, <2>2 DEF Send
  <2>3. CASE d = c
    <3>1. at'[d] = "http" /\ bearer'[d] = token'.value
      BY <1>t, <2>1, <2>3 DEF Send
    <3>2. CASE ResumeReusing(c)
      <4>1. Fresh(token) /\ token' = token /\ UNCHANGED expiry
        BY <3>2 DEF ResumeReusing, Reuse
      <4> QED BY <1>f, <1>s, <2>1, <2>3, <3>1, <4>1
    <3>3. CASE ObtainCached(c)
      <4>1. token' \in Token /\ token'.value = Len(expiry') /\ UNCHANGED expiry
        BY <3>3, ObtainType, TokenAssumption DEF Newest, ObtainCached, Token
      <4>2. msal # None /\ msal.expires - now >= Skew /\ msal.value = Len(expiry)
            /\ msal.expires = expiry[msal.value]
        BY <3>3 DEF ObtainCached, MsalHit, Newest, Believed
      <4>3. msal \in Token /\ now \in Nat /\ Skew \in Nat \ {0}
        BY <4>2, TokenAssumption DEF ServiceTypeOK
      <4>4. msal.expires > now
        BY <4>2, <4>3 DEF Token
      <4>5. Len(expiry') \in 1..MaxIssued /\ expiry[Len(expiry')] > now
        BY <4>1, <4>2, <4>4 DEF Token
      <4> QED BY <1>s, <2>1, <2>3, <3>1, <4>1, <4>5
    <3>4. CASE ObtainNew(c)
      <4>1. token' \in Token /\ token'.value = Len(expiry') /\ Len(expiry') = Len(expiry) + 1
        BY <3>4, ObtainType, IssuedIsNext
      <4>2. Len(expiry) \in Nat
        BY DEF ServiceTypeOK
      <4>3. Len(expiry') > Len(expiry) /\ Len(expiry') \in 1..MaxIssued
        BY <4>1, <4>2 DEF Token
      <4> QED BY <1>s, <2>1, <2>3, <3>1, <4>1, <4>3
    <3> QED BY <2>1, <3>2, <3>3, <3>4
  <2> QED BY <2>2, <2>3
<1>3. ASSUME NEW c \in Calls, WaitForMsal(c) \/ GetNoToken(c) \/ Conclude(c) \/ BackOff(c)
      PROVE  LearnedOf(d)'
  <2>1. rejected' = rejected /\ (at'[d] # "http" \/ (at'[d] = at[d] /\ bearer'[d] = bearer[d]))
    BY <1>t, <1>3 DEF WaitForMsal, GetNoToken, Conclude, BackOff, End, call
  <2> QED BY <1>k, <2>1
<1>4. ASSUME NEW c \in Calls, Refresh(c) PROVE LearnedOf(d)'
  <2>1. /\ at[c] = "http" /\ ~Accepts(bearer[c]) /\ ~refreshed[c] /\ Note401(c)
        /\ \A e \in Calls : e # c => at'[e] = at[e] /\ bearer'[e] = bearer[e]
        /\ at'[c] # "http"
    BY <1>t, <1>4 DEF Refresh, AskAndSend, End, Reuse
  <2>2. CASE d # c
    BY <1>t, <1>k, <2>1, <2>2 DEF Note401
  <2>3. CASE d = c
    <3>1. rejected[c] = <<>> /\ bearer[c] \in 1..Len(expiry) /\ Refused(bearer[c])
      <4>1. rejected[c] = <<>>
        BY <2>1 DEF CallOK, Accounts
      <4>2. bearer[c] \in 1..Len(expiry)
        BY <1>b, <2>1, <2>3 DEF LearnedOf
      <4>3. expiry \in Seq(Nat) /\ now \in Nat
        BY TokenAssumption DEF ServiceTypeOK
      <4>4. expiry[bearer[c]] \in Nat
        BY <4>2, <4>3
      <4> QED BY <2>1, <4>1, <4>2, <4>3, <4>4 DEF Accepts, Refused
    <3>2. rejected'[c] = <<bearer[c]>>
      BY <1>t, <2>1, <3>1 DEF Note401
    <3>3. bearer[c] \in 1..Len(expiry') /\ (bearer[c] \in revoked' \/ expiry'[bearer[c]] <= now')
      BY <1>a, <3>1, RefusedStays
    <3>4. rejected'[c] # <<>> /\ rejected'[c][1] = bearer[c] /\ Len(rejected'[c]) = 1
      BY <3>2
    <3> QED BY <2>1, <2>3, <3>3, <3>4 DEF LearnedOf, Refused
  <2> QED BY <2>2, <2>3
<1>5. ASSUME NEW c \in Calls, GiveUp(c) PROVE LearnedOf(d)'
  <2>1. /\ at[c] = "http" /\ refreshed[c] /\ Note401(c)
        /\ \A e \in Calls : e # c => at'[e] = at[e] /\ bearer'[e] = bearer[e]
        /\ at'[c] = "done"
    BY <1>t, <1>5 DEF GiveUp, End
  <2>2. CASE d # c
    BY <1>t, <1>k, <2>1, <2>2 DEF Note401
  <2>3. CASE d = c
    <3>1. rejected[c] # <<>> /\ Len(rejected[c]) = 1 /\ rejected[c] \in Seq(1..MaxIssued)
      <4>1. rejected[c] # <<>> /\ Len(rejected[c]) <= 2 /\ Len(rejected[c]) # 2
        BY <2>1 DEF CallOK, Accounts
      <4>2. rejected[c] \in Seq(1..MaxIssued)
        BY <1>t
      <4>3. Len(rejected[c]) \in Nat /\ Len(rejected[c]) # 0
        BY <4>1, <4>2
      <4>4. \A n \in Nat : n # 0 /\ n <= 2 /\ n # 2 => n = 1
        OBVIOUS
      <4> QED BY <4>1, <4>2, <4>3, <4>4
    <3>2. bearer[c] \in 1..MaxIssued
      BY <1>t, <2>1 DEF CallOK, Accounts
    <3>3. rejected'[c] = Append(rejected[c], bearer[c])
      BY <1>t, <2>1 DEF Note401
    <3>4. /\ rejected'[c] # <<>> /\ Len(rejected'[c]) = 2
          /\ rejected'[c][1] = rejected[c][1] /\ rejected'[c][2] = bearer[c]
      BY <3>1, <3>2, <3>3
    <3>5. /\ rejected[c][1] \in 1..Len(expiry')
          /\ rejected[c][1] \in revoked' \/ expiry'[rejected[c][1]] <= now'
      BY <1>a, <1>b, <2>3, <3>1, RefusedStays DEF LearnedOf
    <3>6. \/ rejected[c][1] < bearer[c]
          \/ rejected[c][1] = bearer[c] /\ bearer[c] \in revoked'
      BY <1>a, <1>b, <2>1, <2>3, <3>1 DEF LearnedOf, Onward
    <3> QED BY <2>1, <2>3, <3>4, <3>5, <3>6 DEF LearnedOf, Refused
  <2> QED BY <2>2, <2>3
<1>6. CASE UNCHANGED call
  BY <1>k, <1>6 DEF call
<1> QED
  BY <1>1, <1>2, <1>3, <1>4, <1>5, <1>6 DEF Next, Proceed, Finished, Revoke, vars

LEMMA LearnedAlways == Spec => []Learned
<1>1. Init => Learned
  <2> SUFFICES ASSUME Init, NEW c \in Calls PROVE LearnedOf(c)
    BY DEF Learned
  <2>1. at[c] = "ready" /\ rejected[c] = <<>> /\ Len(rejected[c]) = 0
    BY DEF Init
  <2> QED BY <2>1 DEF LearnedOf
<1> QED BY <1>1, LearnedNext, ServiceTypeAlways, CallAlways, BelievedAlways, CachedTokensLive,
           NewestAlways, PTL DEF Spec

(* No call sends more requests than it has attempts or refreshes twice,    *)
(* whatever D365 answers and whatever other calls do to the shared token;  *)
(* and a refresh after a token expired brings a newer one, so that the     *)
(* same token is refused twice only when D365 revoked it before its time.  *)
THEOREM RequestsAreBounded == Spec => []OneUsefulRefresh
<1>1. CallOK => BoundedRequests
  BY ClientAssumption DEF CallOK, CallTypeOK, Accounts, BoundedRequests
<1>2. Learned => RefreshAdvances
  BY DEF Learned, LearnedOf, RefreshAdvances
<1> QED BY <1>1, <1>2, CallAlways, LearnedAlways, PTL DEF OneUsefulRefresh
-----------------------------------------------------------------------------
(* The service, seen as the cache. *)

(* The one that acquires is the abstract filler. *)
LEMMA FillerIs ==
  ASSUME SingleFlight
  PROVE  /\ \A c \in Calls : phase[c] = "acquiring" => Filler = c
         /\ (\A c \in Calls : phase[c] # "acquiring") => Filler = None
<1>1. ASSUME NEW c \in Calls, phase[c] = "acquiring" PROVE Filler = c
  <2>1. c \in Acquiring /\ \A d \in Acquiring : d = c
    BY <1>1 DEF SingleFlight, Acquiring
  <2> QED BY <2>1 DEF Filler
<1>2. ASSUME \A c \in Calls : phase[c] # "acquiring" PROVE Filler = None
  BY <1>2 DEF Filler, Acquiring
<1> QED BY <1>1, <1>2

(* What is needed of a state to map the steps from it. *)
Mapped == ServiceTypeOK /\ SingleFlight /\ CallOK /\ Newest

(* A call's request leaves with a token, or it has none under way. *)
LEMMA SendMaps ==
  ASSUME CallTypeOK, NEW c \in Calls, NEW value, Send(c, value)
  PROVE  Held' = [Held EXCEPT ![c] = value]
<1>1. /\ at'[c] = "http" /\ bearer'[c] = value
      /\ \A d \in Calls : d # c => at'[d] = at[d] /\ bearer'[d] = bearer[d]
  BY DEF CallTypeOK, Send
<1> QED BY <1>1 DEF Held

LEMMA DropMaps ==
  ASSUME CallTypeOK, NEW c \in Calls, at'[c] # "http",
         \A d \in Calls : d # c => at'[d] = at[d] /\ bearer'[d] = bearer[d]
  PROVE  Held' = [Held EXCEPT ![c] = None]
  BY DEF Held

(* The lock is left by the one that has it: nobody acquires any more. *)
LEMMA ReleaseMaps ==
  ASSUME Mapped, NEW c \in Calls, holder = c, Release(c)
  PROVE  Pending' = Pending \ {c} /\ Filler' = None
<1>1. phase' = [phase EXCEPT ![c] = "out"] /\ phase \in [Calls -> {"out", "queued", "acquiring"}]
  BY DEF Release, Mapped, ServiceTypeOK
<1>2. \A d \in Calls : phase[d] = "acquiring" => d = c
  BY DEF Mapped, SingleFlight
<1>3. \A d \in Calls : phase'[d] # "acquiring"
  BY <1>1, <1>2
<1>4. Filler' = None
  BY <1>3 DEF Filler, Acquiring
<1> QED BY <1>1, <1>4 DEF Pending

LEMMA AskMaps ==
  ASSUME Mapped, NEW c \in Calls, NEW force \in BOOLEAN,
         NEW t \in {token, None}, AskAndSend(c, force, t)
  PROVE  Cache!Next
<1>1. /\ phase[c] = "out" /\ expiry' = expiry /\ Ask(c, force, t)
      /\ c \notin Pending /\ CallTypeOK
      /\ phase \in [Calls -> {"out", "queued", "acquiring"}]
  BY DEF AskAndSend, Ask, Pending, Mapped, CallOK, ServiceTypeOK
<1>2. CASE Reuse(force, t)
  <2>1. t # None /\ t = token /\ t \in Token /\ t.value = Len(expiry)
    BY <1>2 DEF Reuse, Fresh, Mapped, Newest, ServiceTypeOK
  <2>2. UNCHANGED phase /\ Send(c, Len(expiry)) /\ Len(expiry) > 0
    BY <1>1, <1>2, <2>1, TokenAssumption DEF Ask, AskAndSend, Token
  <2>3. Held' = [Held EXCEPT ![c] = Len(expiry)]
    BY <1>1, <2>2, SendMaps
  <2>4. UNCHANGED <<Pending, Filler>>
    BY <2>2 DEF Pending, Filler, Acquiring
  <2>5. Cache!Hit(c)
    BY <1>1, <2>2, <2>3, <2>4 DEF Cache!Hit, Cache!Holds
  <2> QED BY <2>5 DEF Cache!Next
<1>3. CASE ~Reuse(force, t)
  <2>1. at' = [at EXCEPT ![c] = "token"] /\ UNCHANGED bearer
    BY <1>3 DEF AskAndSend
  <2>2. Held' = [Held EXCEPT ![c] = None]
    BY <1>1, <2>1 DEF Held, CallTypeOK
  <2>3. \E p \in {"queued", "acquiring"} :
          phase' = [phase EXCEPT ![c] = p] /\ (p = "acquiring" => holder = None)
    BY <1>1, <1>3 DEF Ask
  <2>4. Pending' = Pending \cup {c}
    BY <1>1, <2>3 DEF Pending
  <2>5. Filler' = Filler \/ (Filler = None /\ Filler' = c)
    <3>1. CASE phase' = [phase EXCEPT ![c] = "queued"]
      <4>1. Acquiring' = Acquiring
        BY <1>1, <3>1 DEF Acquiring
      <4> QED BY <4>1 DEF Filler
    <3>2. CASE phase' = [phase EXCEPT ![c] = "acquiring"] /\ holder = None
      <4>1. \A d \in Calls : phase[d] # "acquiring"
        BY <3>2, TokenAssumption DEF Mapped, SingleFlight
      <4>2. Acquiring' = {c}
        BY <1>1, <3>2, <4>1 DEF Acquiring
      <4>3. Filler = None
        BY <4>1 DEF Filler, Acquiring
      <4> QED BY <4>2, <4>3 DEF Filler
    <3> QED BY <2>3, <3>1, <3>2
  <2>6. Cache!Join(c)
    BY <1>1, <2>2, <2>4, <2>5 DEF Cache!Join, Cache!Holds
  <2> QED BY <2>6 DEF Cache!Next
<1> QED BY <1>2, <1>3

(* A call is given a token after a wait. *)
LEMMA GetTokenMaps ==
  ASSUME Mapped, NEW c \in Calls, GetToken(c)
  PROVE  Cache!Next
<1>1. /\ Send(c, token'.value) /\ CallTypeOK /\ Len(expiry) \in Nat
      /\ ResumeReusing(c) \/ ObtainCached(c) \/ ObtainNew(c)
  BY DEF GetToken, Mapped, CallOK, ServiceTypeOK
<1>2. Held' = [Held EXCEPT ![c] = token'.value]
  BY <1>1, SendMaps
<1>3. phase[c] # "out" /\ holder = c /\ Release(c)
  BY <1>1 DEF ResumeReusing, ObtainCached, ObtainNew, Mapped, SingleFlight
<1>4. c \in Pending /\ Pending' = Pending \ {c} /\ Filler' = None
  BY <1>3, ReleaseMaps DEF Pending
<1>5. CASE ResumeReusing(c)
  <2>1. /\ token # None /\ token \in Token /\ token.value = Len(expiry)
        /\ UNCHANGED <<token, expiry>> /\ phase[c] = "queued"
    BY <1>5 DEF ResumeReusing, Reuse, Fresh, Mapped, Newest, ServiceTypeOK
  <2>2. Len(expiry) > 0
    BY <2>1, TokenAssumption DEF Token
  <2>3. Filler = None
    BY <1>3, <2>1 DEF Filler, Acquiring, Mapped, SingleFlight
  <2>4. Cache!Share(c)
    BY <1>2, <1>4, <2>1, <2>2, <2>3 DEF Cache!Share, Cache!Holds
  <2> QED BY <2>4 DEF Cache!Next
<1>6. CASE ObtainCached(c) \/ ObtainNew(c)
  <2>1. Filler = c
    BY <1>6, FillerIs DEF ObtainCached, ObtainNew, Mapped
  <2>2. token'.value = Len(expiry') /\ Len(expiry') \in {Len(expiry), Len(expiry) + 1} \ {0}
    <3>1. CASE ObtainCached(c)
      <4>1. /\ msal \in Token /\ msal.value = Len(expiry) /\ UNCHANGED expiry
            /\ token'.value = msal.value
        BY <3>1 DEF ObtainCached, MsalHit, Keep, Mapped, Newest, ServiceTypeOK
      <4> QED BY <1>1, <4>1, TokenAssumption DEF Token
    <3>2. CASE ObtainNew(c)
      BY <1>1, <3>2, IssuedIsNext DEF Mapped
    <3> QED BY <1>6, <3>1, <3>2
  <2>3. Cache!Fill(c)
    BY <1>2, <1>4, <2>1, <2>2 DEF Cache!Fill, Cache!Holds
  <2> QED BY <2>3 DEF Cache!Next
<1> QED BY <1>1, <1>5, <1>6

(* The other steps of a call: waiting, failing, and the end of a request.  *)
LEMMA WaitMaps ==
  ASSUME Mapped, NEW c \in Calls, WaitForMsal(c)
  PROVE  Cache!Next
<1>1. /\ phase[c] = "queued" /\ holder = c /\ phase' = [phase EXCEPT ![c] = "acquiring"]
      /\ UNCHANGED <<expiry, at, bearer>>
      /\ phase \in [Calls -> {"out", "queued", "acquiring"}]
  BY DEF WaitForMsal, ResumeAcquiring, call, Mapped, ServiceTypeOK
<1>2. \A d \in Calls : phase[d] # "acquiring"
  BY <1>1 DEF Mapped, SingleFlight
<1>3. Acquiring = {} /\ Acquiring' = {c}
  BY <1>1, <1>2 DEF Acquiring
<1>4. Filler = None /\ Filler' = c
  BY <1>3 DEF Filler
<1>5. c \in Pending /\ UNCHANGED <<Pending, Held>>
  BY <1>1 DEF Pending, Held
<1>6. Cache!TakeOver(c)
  BY <1>1, <1>4, <1>5 DEF Cache!TakeOver
<1> QED BY <1>6 DEF Cache!Next

LEMMA GetNoTokenMaps ==
  ASSUME Mapped, NEW c \in Calls, GetNoToken(c)
  PROVE  Cache!Next
<1>1. /\ phase[c] = "acquiring" /\ Release(c) /\ UNCHANGED expiry
      /\ at[c] = "token" /\ End(c, "failed") /\ CallTypeOK
  BY DEF GetNoToken, Fail, Mapped, CallOK
<1>2. holder = c /\ Filler = c
  BY <1>1, FillerIs DEF Mapped, SingleFlight
<1>3. Pending' = Pending \ {c} /\ Filler' = None
  BY <1>1, <1>2, ReleaseMaps
<1>4. /\ at'[c] = "done"
      /\ \A d \in Calls : d # c => at'[d] = at[d] /\ bearer'[d] = bearer[d]
  BY <1>1 DEF End, CallTypeOK
<1>5. Held' = Held
  BY <1>1, <1>4 DEF Held
<1>6. Cache!Abandon(c)
  BY <1>1, <1>2, <1>3, <1>5 DEF Cache!Abandon
<1> QED BY <1>6 DEF Cache!Next

LEMMA RequestEndMaps ==
  ASSUME Mapped, NEW c \in Calls, at[c] = "http", UNCHANGED <<phase, expiry>>,
         \/ \E how \in Results : End(c, how)
         \/ at' = [at EXCEPT ![c] = "ready"] /\ UNCHANGED bearer
  PROVE  Cache!Next
<1>1. CallTypeOK /\ bearer[c] # None
  BY DEF Mapped, CallOK, Accounts
<1>2. /\ at'[c] # "http"
      /\ \A d \in Calls : d # c => at'[d] = at[d] /\ bearer'[d] = bearer[d]
  BY <1>1 DEF CallTypeOK, End
<1>3. Held' = [Held EXCEPT ![c] = None] /\ Held[c] # None
  BY <1>1, <1>2, DropMaps DEF Held
<1>4. UNCHANGED <<Pending, Filler>>
  BY DEF Pending, Filler, Acquiring
<1>5. Cache!Drop(c)
  BY <1>3, <1>4 DEF Cache!Drop, Cache!Holds
<1> QED BY <1>5 DEF Cache!Next

LEMMA CacheStep == Mapped /\ [Next]_vars => [Cache!Next]_(Cache!vars)
<1> SUFFICES ASSUME Mapped, [Next]_vars PROVE Cache!Next \/ UNCHANGED Cache!vars
  OBVIOUS
<1>1. ASSUME NEW c \in Calls, Begin(c) PROVE Cache!Next
  BY <1>1, AskMaps DEF Begin
<1>2. ASSUME NEW c \in Calls, Refresh(c) PROVE Cache!Next
  <2>1. CASE AskAndSend(c, TRUE, None)
    BY <2>1, AskMaps
  <2>2. CASE ~AskAndSend(c, TRUE, None)
    <3>1. at[c] = "http" /\ End(c, "failed") /\ UNCHANGED <<phase, expiry>>
      BY <1>2, <2>2 DEF Refresh
    <3> QED BY <3>1, RequestEndMaps DEF Results
  <2> QED BY <2>1, <2>2
<1>3. ASSUME NEW c \in Calls, Conclude(c) \/ BackOff(c) \/ GiveUp(c) PROVE Cache!Next
  <2>1. /\ at[c] = "http" /\ UNCHANGED <<phase, expiry>>
        /\ \/ \E how \in Results : End(c, how)
           \/ at' = [at EXCEPT ![c] = "ready"] /\ UNCHANGED bearer
    BY <1>3 DEF Conclude, BackOff, GiveUp, service, Results
  <2> QED BY <2>1, RequestEndMaps
<1>4. CASE UNCHANGED <<service, call>>
  BY <1>4 DEF Cache!vars, service, call, Pending, Filler, Acquiring, Held
<1>5. CASE (Tick /\ UNCHANGED <<call, revoked>>) \/ Revoke \/ UNCHANGED vars
  BY <1>4, <1>5 DEF Tick, Revoke, vars
<1> QED BY <1>1, <1>2, <1>3, <1>5, WaitMaps, GetTokenMaps, GetNoTokenMaps
        DEF Next, Proceed, Finished

(* For any number of calls, one at a time asks Entra and every request     *)
(* leaves with the newest token: the service and its calls, with the lock, *)
(* the clock, two caches, 401s and retries, implement TokenCache.          *)
THEOREM ServiceImplementsCache == Spec => ImplementsCache
<1>1. Init => Cache!Init
  BY DEF Init, ServiceInit, Cache!Init, Pending, Filler, Acquiring, Held
<1>2. Init => SingleFlight /\ Newest
  BY DEF Init, ServiceInit, SingleFlight, Newest
<1>3. Spec => []Mapped
  BY <1>2, NewestNext, FlightNext, ServiceTypeAlways, CallAlways, PTL DEF Spec, Mapped
<1> QED BY <1>1, <1>3, CacheStep, PTL DEF Spec, ImplementsCache, Cache!Spec
-----------------------------------------------------------------------------
(* What the cache's promise is worth.  The mapped variables stay folded    *)
(* here: the argument is about any four that behave as TokenCache says.    *)

CacheSound == Cache!TypeOK /\ Cache!Consistent

CacheMoves ==
  /\ \A c \in Calls : Held'[c] # Held[c] /\ Held'[c] # None => Held'[c] = Len(expiry)'
  /\ Len(expiry)' # Len(expiry) =>
       Len(expiry)' = Len(expiry) + 1 /\ Filler # None /\ Held'[Filler] = Len(expiry)'
  /\ Filler # None /\ Filler' # Filler => Filler' = None /\ Filler \notin Pending'

LEMMA CacheBegins == Cache!Init => CacheSound
  BY TokenAssumption DEF Cache!Init, CacheSound, Cache!TypeOK, Cache!Consistent

LEMMA CacheGoesOn ==
  CacheSound /\ [Cache!Next]_(Cache!vars) =>
    CacheSound' /\ CacheMoves /\ Len(expiry)' >= Len(expiry)
<1> SUFFICES ASSUME CacheSound, [Cache!Next]_(Cache!vars)
             PROVE  CacheSound' /\ CacheMoves /\ Len(expiry)' >= Len(expiry)
  OBVIOUS
<1> DEFINE issued == Len(expiry)
           OneAsks == /\ issued' \in Nat /\ Pending' \subseteq Calls /\ Filler' \in Calls \cup {None}
                      /\ Filler' # None => Filler' \in Pending'
           TheyHold == /\ Held' \in [Calls -> Nat \cup {None}]
                       /\ \A c \in Pending' : Held'[c] = None
                       /\ \A c \in Calls : Held'[c] # None => Held'[c] \in 1..issued'
           Moves == /\ \A c \in Calls : Held'[c] # Held[c] /\ Held'[c] # None => Held'[c] = issued'
                    /\ issued' # issued =>
                         issued' = issued + 1 /\ Filler # None /\ Held'[Filler] = issued'
                    /\ Filler # None /\ Filler' # Filler => Filler' = None /\ Filler \notin Pending'
                    /\ issued' >= issued
<1>n. None \notin Nat /\ None \notin Calls
  BY TokenAssumption
<1>t. /\ issued \in Nat /\ Pending \subseteq Calls /\ Filler \in Calls \cup {None}
      /\ Held \in [Calls -> Nat \cup {None}]
      /\ Filler # None => Filler \in Pending
      /\ \A c \in Pending : Held[c] = None
      /\ \A c \in Calls : Held[c] # None => Held[c] \in 1..issued
  BY DEF CacheSound, Cache!TypeOK, Cache!Consistent
<1> SUFFICES OneAsks /\ TheyHold /\ Moves
  BY DEF CacheSound, CacheMoves, Cache!TypeOK, Cache!Consistent
<1>1. CASE UNCHANGED Cache!vars
  <2>1. issued' = issued /\ UNCHANGED <<Pending, Filler, Held>>
    BY <1>1 DEF Cache!vars
  <2> HIDE DEF issued
  <2> QED BY <2>1, <1>t
<1>2. ASSUME NEW c \in Calls, Cache!Hit(c) \/ Cache!Share(c)
      PROVE  OneAsks /\ TheyHold /\ Moves
  <2>1. /\ issued' = issued /\ issued > 0 /\ Held' = [Held EXCEPT ![c] = issued]
        /\ Filler' = Filler
        /\ Pending' = Pending \ {c} /\ (Filler = None \/ c \notin Pending)
    BY <1>2 DEF Cache!Hit, Cache!Share, Cache!Holds
  <2> HIDE DEF issued
  <2>2. OneAsks
    BY <2>1, <1>t
  <2>3. TheyHold
    BY <2>1, <1>t
  <2> QED BY <2>1, <2>2, <2>3, <1>t
<1>3. ASSUME NEW c \in Calls, Cache!Join(c) \/ Cache!TakeOver(c) \/ Cache!Abandon(c) \/ Cache!Drop(c)
      PROVE  OneAsks /\ TheyHold /\ Moves
  <2>1. /\ issued' = issued
        /\ Held' = Held \/ Held' = [Held EXCEPT ![c] = None]
        /\ \/ Pending' = Pending \cup {c} /\ Held'[c] = None
              /\ (Filler' = Filler \/ (Filler = None /\ Filler' = c))
           \/ Pending' = Pending /\ c \in Pending /\ Filler = None /\ Filler' = c
           \/ Pending' = Pending \ {c} /\ Filler = c /\ Filler' = None
           \/ Pending' = Pending /\ Filler' = Filler
    <3>1. CASE Cache!Join(c)
      BY <3>1, <1>t DEF Cache!Join, Cache!Holds
    <3>2. CASE Cache!TakeOver(c)
      BY <3>2 DEF Cache!TakeOver
    <3>3. CASE Cache!Abandon(c)
      BY <3>3 DEF Cache!Abandon
    <3>4. CASE Cache!Drop(c)
      BY <3>4 DEF Cache!Drop, Cache!Holds
    <3> QED BY <1>3, <3>1, <3>2, <3>3, <3>4
  <2> HIDE DEF issued
  <2>2. OneAsks
    BY <2>1, <1>t
  <2>3. TheyHold
    BY <2>1, <1>t
  <2> QED BY <2>1, <2>2, <2>3, <1>t
<1>4. ASSUME NEW c \in Calls, Cache!Fill(c)
      PROVE  OneAsks /\ TheyHold /\ Moves
  <2>1. /\ Filler = c /\ Filler' = None /\ issued' \in {issued, issued + 1} \ {0}
        /\ Pending' = Pending \ {c} /\ Held' = [Held EXCEPT ![c] = issued']
    BY <1>4 DEF Cache!Fill, Cache!Holds
  <2> HIDE DEF issued
  <2>2. issued' \in Nat /\ issued' > 0 /\ issued' >= issued
    BY <2>1, <1>t
  <2>3. OneAsks
    BY <2>1, <2>2, <1>t
  <2>4. TheyHold
    BY <2>1, <2>2, <1>t
  <2> QED BY <2>1, <2>2, <2>3, <2>4, <1>t, <1>n
<1> QED BY <1>1, <1>2, <1>3, <1>4 DEF Cache!Next

LEMMA CacheSoundAlways == Cache!Spec => []CacheSound
  BY CacheBegins, CacheGoesOn, PTL DEF Cache!Spec

(* Whatever the lock, the two caches, 401s and retries do, only one that   *)
(* waits asks Entra, nobody takes its place, every request that leaves     *)
(* carries the newest token, and only a new acquisition brings another     *)
(* (token_service.py lines 48-84, client.py lines 76-100).                 *)
THEOREM NewestTokensLeave == Spec => []Cache!Consistent /\ Cache!NewestLeaves
<1>1. Spec => Cache!Spec
  BY ServiceImplementsCache DEF ImplementsCache
<1>2. CacheSound => Cache!Consistent
  BY DEF CacheSound
<1>3. CacheSound /\ [Cache!Next]_(Cache!vars) =>
        [/\ \A c \in Calls : Held'[c] # Held[c] /\ Held'[c] # None => Held'[c] = Len(expiry)'
         /\ Len(expiry)' # Len(expiry) =>
              Len(expiry)' = Len(expiry) + 1 /\ Filler # None /\ Held'[Filler] = Len(expiry)'
         /\ Filler # None /\ Filler' # Filler =>
              Filler' = None /\ Filler \notin Pending']_(Cache!vars)
  BY CacheGoesOn DEF CacheMoves
<1> QED BY <1>1, <1>2, <1>3, CacheSoundAlways, PTL DEF Cache!Spec, Cache!NewestLeaves

(* From a request with a token on, no retry of the call carries an older   *)
(* one, whatever the 401s of others have dropped from the cache meanwhile  *)
(* (client.py lines 84-98).                                                *)
THEOREM TokensNeverGoBack ==
  ASSUME NEW c \in Calls, NEW v \in Nat
  PROVE  Spec => Cache!NeverOlder(c, v)
<1> DEFINE From == Len(expiry) >= v /\ (Held[c] # None => Held[c] >= v)
<1>1. Spec => Cache!Spec
  BY ServiceImplementsCache DEF ImplementsCache
<1>2. CacheSound /\ Held[c] = v => From
  <2> SUFFICES ASSUME CacheSound, Held[c] = v PROVE From
    OBVIOUS
  <2>1. v # None
    BY TokenAssumption
  <2> QED BY <2>1 DEF CacheSound, Cache!TypeOK, Cache!Consistent
<1>3. CacheSound /\ From /\ [Cache!Next]_(Cache!vars) => From'
  <2> SUFFICES ASSUME CacheSound, From, [Cache!Next]_(Cache!vars) PROVE From'
    OBVIOUS
  <2>1. CacheMoves /\ Len(expiry)' >= Len(expiry) /\ Len(expiry) \in Nat /\ Len(expiry)' \in Nat
    BY CacheGoesOn DEF CacheSound, Cache!TypeOK
  <2> QED BY <2>1 DEF CacheMoves
<1>4. From => (Held[c] # None => Held[c] >= v)
  OBVIOUS
<1> QED BY <1>1, <1>2, <1>3, <1>4, CacheSoundAlways, PTL DEF Cache!Spec, Cache!NeverOlder
-----------------------------------------------------------------------------
(* How far a call is from its end: five steps for each attempt it has left *)
(* (it asks, waits for the lock, waits for MSAL, sends, is answered).      *)

StepsFrom == [ready |-> 4, queued |-> 3, acquiring |-> 2, http |-> 1]

Place(c) == IF at[c] = "token" THEN phase[c] ELSE at[c]

StepsLeft(c) ==
  IF at[c] = "done" THEN 0 ELSE 5 * (MaxRetries - attempt[c]) + StepsFrom[Place(c)]

Untouched(c) ==
  /\ UNCHANGED <<at[c], phase[c], attempt[c], refreshed[c], bearer[c], result[c],
                 sent[c], rejected[c]>>

(* A call waits in get_access_token exactly when its loop does. *)
Waits ==
  \A c \in Calls : /\ at[c] = "token" <=> phase[c] # "out"
                   /\ at[c] # "token" => at[c] \in DOMAIN StepsFrom \cup {"done"}

(* What a step of call c does to its place and to the other calls. *)
Step(c) ==
  /\ at[c] # "done"
  /\ \/ at'[c] = "done" /\ phase'[c] = "out" /\ attempt'[c] = attempt[c]
     \/ /\ at[c] = "http" /\ attempt[c] < MaxRetries /\ attempt'[c] = attempt[c] + 1
        /\ \/ at'[c] = "ready" /\ phase'[c] = "out"
           \/ at'[c] = "token" /\ phase'[c] \in {"queued", "acquiring"}
     \/ /\ attempt'[c] = attempt[c]
        /\ \/ at[c] = "ready" /\ at'[c] = "http" /\ phase'[c] = "out"
           \/ at[c] = "ready" /\ at'[c] = "token" /\ phase'[c] \in {"queued", "acquiring"}
           \/ at[c] = "token" /\ phase[c] = "queued" /\ at'[c] = "token" /\ phase'[c] = "acquiring"
           \/ at[c] = "token" /\ at'[c] = "http" /\ phase'[c] = "out"

LEMMA AskMoves ==
  ASSUME ServiceTypeOK, CallTypeOK, NEW c \in Calls, NEW force, NEW t,
         AskAndSend(c, force, t)
  PROVE  \/ at'[c] = "http" /\ phase'[c] = "out" /\ Reuse(force, t)
         \/ at'[c] = "token" /\ phase'[c] \in {"queued", "acquiring"}
<1>1. CASE Reuse(force, t)
  BY <1>1 DEF AskAndSend, Ask, Send, CallTypeOK
<1>2. CASE ~Reuse(force, t)
  BY <1>2 DEF AskAndSend, Ask, ServiceTypeOK, CallTypeOK
<1> QED BY <1>1, <1>2

LEMMA CallMoves ==
  ASSUME ServiceTypeOK, CallOK, Waits, NEW c \in Calls, Proceed(c)
  PROVE  Step(c)
<1>t. /\ at \in [Calls -> {"ready", "token", "http", "done"}]
      /\ phase \in [Calls -> {"out", "queued", "acquiring"}]
      /\ attempt \in [Calls -> 0..MaxRetries] /\ MaxRetries \in Nat
  BY ClientAssumption DEF ServiceTypeOK, CallOK, CallTypeOK
<1>w. at[c] = "token" <=> phase[c] # "out"
  BY DEF Waits
<1>1. CASE Begin(c)
  <2>1. at[c] = "ready" /\ attempt' = attempt /\ AskAndSend(c, FALSE, token)
    BY <1>1 DEF Begin
  <2> QED BY <2>1, AskMoves DEF Step, CallOK
<1>2. CASE WaitForMsal(c)
  BY <1>2, <1>t DEF WaitForMsal, ResumeAcquiring, call, Step
<1>3. CASE GetToken(c)
  <2>1. /\ at[c] = "token" /\ at' = [at EXCEPT ![c] = "http"] /\ attempt' = attempt
        /\ phase' = [phase EXCEPT ![c] = "out"]
    BY <1>3 DEF GetToken, Send, ResumeReusing, ObtainCached, ObtainNew, Release
  <2> QED BY <2>1, <1>t DEF Step
<1>4. CASE GetNoToken(c)
  BY <1>4, <1>t DEF GetNoToken, Fail, Release, End, Step
<1>5. CASE Conclude(c) \/ GiveUp(c)
  BY <1>5, <1>t, <1>w DEF Conclude, GiveUp, End, service, Step
<1>6. CASE BackOff(c)
  BY <1>6, <1>t, <1>w DEF BackOff, End, service, Step
<1>7. CASE Refresh(c)
  <2>1. at[c] = "http"
    BY <1>7 DEF Refresh
  <2>2. CASE attempt[c] < MaxRetries /\ AskAndSend(c, TRUE, None) /\ attempt' = [attempt EXCEPT ![c] = @ + 1]
    <3>1. at'[c] = "token" /\ phase'[c] \in {"queued", "acquiring"}
      BY <2>2, AskMoves DEF Reuse, CallOK
    <3> QED BY <2>1, <2>2, <3>1, <1>t DEF Step
  <2>3. CASE End(c, "failed") /\ UNCHANGED <<attempt, phase>>
    BY <2>1, <2>3, <1>t, <1>w DEF End, Step
  <2> QED BY <1>7, <2>2, <2>3 DEF Refresh
<1> QED BY <1>1, <1>2, <1>3, <1>4, <1>5, <1>6, <1>7 DEF Proceed

LEMMA OthersStay ==
  ASSUME ServiceTypeOK, CallOK, NEW c \in Calls, Proceed(c), NEW d \in Calls \ {c}
  PROVE  Untouched(d)
<1>t. /\ at \in [Calls -> {"ready", "token", "http", "done"}]
      /\ phase \in [Calls -> {"out", "queued", "acquiring"}]
      /\ attempt \in [Calls -> 0..MaxRetries]
      /\ refreshed \in [Calls -> BOOLEAN]
      /\ bearer \in [Calls -> (1..MaxIssued) \cup {None}]
      /\ result \in [Calls -> Results]
      /\ sent \in [Calls -> 0..MaxRetries + 1]
      /\ rejected \in [Calls -> Seq(1..MaxIssued)]
  BY DEF ServiceTypeOK, CallOK, CallTypeOK
<1>1. at'[d] = at[d] /\ bearer'[d] = bearer[d] /\ sent'[d] = sent[d]
  BY <1>t DEF Proceed, Begin, WaitForMsal, GetToken, GetNoToken, Conclude, BackOff, Refresh, GiveUp,
     AskAndSend, Send, End, call
<1>2. phase'[d] = phase[d]
  BY <1>t DEF Proceed, Begin, WaitForMsal, GetToken, GetNoToken, Conclude, BackOff, Refresh, GiveUp,
     AskAndSend, Ask, ResumeAcquiring, ResumeReusing, ObtainCached, ObtainNew, Fail, Release, service
<1>3. attempt'[d] = attempt[d] /\ refreshed'[d] = refreshed[d]
  BY <1>t DEF Proceed, Begin, WaitForMsal, GetToken, GetNoToken, Conclude, BackOff, Refresh, GiveUp, call
<1>4. result'[d] = result[d] /\ rejected'[d] = rejected[d]
  BY <1>t DEF Proceed, Begin, WaitForMsal, GetToken, GetNoToken, Conclude, BackOff, Refresh, GiveUp,
     End, Note401, call
<1> QED BY <1>1, <1>2, <1>3, <1>4 DEF Untouched

LEMMA OtherSteps ==
  ASSUME [Next]_vars
  PROVE  (\E c \in Calls : Proceed(c)) \/ (\A c \in Calls : Untouched(c))
  BY DEF Next, Finished, Tick, Revoke, Untouched, service, call, vars

LEMMA WaitsNext == ServiceTypeOK /\ CallOK /\ Waits /\ [Next]_vars => Waits'
<1> SUFFICES ASSUME ServiceTypeOK, CallOK, Waits, [Next]_vars PROVE Waits'
  OBVIOUS
<1>1. ASSUME NEW c \in Calls, Step(c), \A d \in Calls \ {c} : Untouched(d)
      PROVE  Waits'
  <2> SUFFICES ASSUME NEW d \in Calls
               PROVE  /\ at'[d] = "token" <=> phase'[d] # "out"
                      /\ at'[d] # "token" => at'[d] \in DOMAIN StepsFrom \cup {"done"}
    BY DEF Waits
  <2>1. CASE d = c
    BY <1>1, <2>1 DEF Step, StepsFrom
  <2>2. CASE d # c
    BY <1>1, <2>2 DEF Untouched, Waits
  <2> QED BY <2>1, <2>2
<1>2. CASE \A c \in Calls : Untouched(c)
  BY <1>2 DEF Untouched, Waits
<1> QED BY <1>1, <1>2, CallMoves, OthersStay, OtherSteps

LEMMA WaitsAlways == Spec => []Waits
<1>1. Init => Waits
  BY DEF Init, ServiceInit, Waits, StepsFrom
<1> QED BY <1>1, WaitsNext, ServiceTypeAlways, CallAlways, PTL DEF Spec

LEMMA StepsFall ==
  ASSUME ServiceTypeOK, CallOK, Waits, NEW c \in Calls, Step(c)
  PROVE  StepsLeft(c)' < StepsLeft(c)
<1>t. /\ at[c] \in {"ready", "token", "http", "done"}
      /\ phase[c] \in {"out", "queued", "acquiring"}
      /\ attempt[c] \in 0..MaxRetries /\ MaxRetries \in Nat
      /\ at[c] = "token" <=> phase[c] # "out"
  BY ClientAssumption DEF ServiceTypeOK, CallOK, CallTypeOK, Waits
<1> DEFINE rank == StepsFrom[Place(c)]
           left == MaxRetries - attempt[c]
<1>1. rank \in 1..4 /\ left \in Nat /\ StepsLeft(c) = 5 * left + rank
  BY <1>t DEF Step, Place, StepsFrom, StepsLeft
<1>2. CASE at'[c] = "done"
  <2>1. StepsLeft(c)' = 0
    BY <1>2 DEF StepsLeft
  <2> HIDE DEF rank, left
  <2> QED BY <1>1, <2>1
<1>3. CASE at[c] = "http" /\ attempt'[c] = attempt[c] + 1 /\ at'[c] # "done"
  <2>1. rank = 1
    BY <1>3 DEF Place, StepsFrom
  <2>2. StepsFrom[Place(c)'] \in 2..4
    BY <1>3 DEF Step, Place, StepsFrom
  <2>3. MaxRetries - attempt'[c] = left - 1
    BY <1>3, <1>t
  <2>4. StepsLeft(c)' = 5 * (left - 1) + StepsFrom[Place(c)']
    BY <1>3, <2>3 DEF StepsLeft, StepsFrom
  <2> HIDE DEF rank, left
  <2> QED BY <1>1, <2>1, <2>2, <2>4
<1>4. CASE attempt'[c] = attempt[c] /\ at'[c] # "done"
  <2>1. StepsFrom[Place(c)'] \in 1..4 /\ StepsFrom[Place(c)'] < rank
    BY <1>4, <1>t DEF Step, Place, StepsFrom
  <2>2. StepsLeft(c)' = 5 * left + StepsFrom[Place(c)']
    BY <1>4 DEF StepsLeft, StepsFrom
  <2> HIDE DEF rank, left
  <2> QED BY <1>1, <2>1, <2>2
<1> QED BY <1>2, <1>3, <1>4 DEF Step

(* The holder of the lock is in get_access_token and has a step of its own *)
(* there; whoever waits has such a holder before it.                       *)
HolderGoesOn ==
  \A c \in Calls : at[c] = "token" =>
    /\ holder \in Calls /\ at[holder] = "token"
    /\ phase[holder] \in {"queued", "acquiring"}
    /\ phase[c] = "acquiring" => holder = c

(* The safety half of EveryCallEnds: at most five steps for each attempt   *)
(* are left to a call, each of its own steps is one of them, no step of    *)
(* another call, of the clock or of Entra adds any; and nobody waits but   *)
(* for one that can go on (client.py lines 76-128, token_service.py lines  *)
(* 57-84).                                                                 *)
THEOREM CallsOnlyAdvance ==
  Spec => /\ []HolderGoesOn
          /\ [](\A c \in Calls : StepsLeft(c) \in 0..5 * MaxRetries + 4)
          /\ [][\A c \in Calls : Untouched(c) \/ StepsLeft(c)' < StepsLeft(c)]_vars
<1>1. ServiceTypeOK /\ CallOK /\ Waits /\ [Next]_vars =>
        [\A c \in Calls : Untouched(c) \/ StepsLeft(c)' < StepsLeft(c)]_vars
  BY CallMoves, OthersStay, OtherSteps, StepsFall
<1>2. ServiceTypeOK /\ SingleFlight /\ Waits => HolderGoesOn
  <2> SUFFICES ASSUME ServiceTypeOK, SingleFlight, Waits, NEW c \in Calls, at[c] = "token"
               PROVE  /\ holder \in Calls /\ at[holder] = "token"
                      /\ phase[holder] \in {"queued", "acquiring"}
                      /\ phase[c] = "acquiring" => holder = c
    BY DEF HolderGoesOn
  <2>1. phase[c] \in {"queued", "acquiring"}
    BY DEF Waits, ServiceTypeOK
  <2>2. holder \in Calls
    BY <2>1, TokenAssumption DEF SingleFlight, ServiceTypeOK
  <2>3. phase[holder] # "out"
    BY <2>2, TokenAssumption DEF SingleFlight
  <2> QED BY <2>1, <2>2, <2>3 DEF Waits, ServiceTypeOK, SingleFlight
<1>3. ServiceTypeOK /\ CallOK /\ Waits => \A c \in Calls : StepsLeft(c) \in 0..5 * MaxRetries + 4
  <2> SUFFICES ASSUME ServiceTypeOK, CallOK, Waits, NEW c \in Calls, at[c] # "done"
               PROVE  StepsLeft(c) \in 0..5 * MaxRetries + 4
    BY ClientAssumption DEF StepsLeft
  <2>1. StepsFrom[Place(c)] \in 1..4
    BY DEF ServiceTypeOK, CallOK, CallTypeOK, Waits, Place, StepsFrom
  <2>2. MaxRetries - attempt[c] \in 0..MaxRetries /\ MaxRetries \in Nat
    BY ClientAssumption DEF CallOK, CallTypeOK
  <2>3. StepsLeft(c) = 5 * (MaxRetries - attempt[c]) + StepsFrom[Place(c)]
    BY DEF StepsLeft
  <2> QED BY <2>1, <2>2, <2>3
<1> QED BY <1>1, <1>2, <1>3, ServiceTypeAlways, AcquisitionsAreSerial, CallAlways, WaitsAlways, PTL DEF Spec
=============================================================================
